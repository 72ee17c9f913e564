------------------------ MODULE ServiceProcessProofs ------------------------
(***************************************************************************)
(* The database facade and the service loop, for any calls, batch sizes,   *)
(* numbers of attempts and limits of failures, and any interleaving with   *)
(* other processes, clean-ups, signals, crashes and restarts.              *)
(***************************************************************************)
EXTENDS ServiceProcess, TLAPS

IsTable(f) == f = [k \in DOMAIN f |-> f[k]]

\* A database state: a record of the six tables.
IsRecord(d) ==
    d = [relay |-> d.relay, event |-> d.event, metadata |-> d.metadata,
         event_relay |-> d.event_relay, relay_metadata |-> d.relay_metadata,
         state |-> d.state]

IsDb(d) ==
    /\ IsRecord(d)
    /\ IsTable(d.relay) /\ IsTable(d.event_relay) /\ IsTable(d.relay_metadata)
    /\ IsTable(d.state)

\* The record of these tables.
Made(d, r, e, m, er, rm, st) ==
    /\ IsRecord(d)
    /\ d.relay = r /\ d.event = e /\ d.metadata = m
    /\ d.event_relay = er /\ d.relay_metadata = rm /\ d.state = st

-----------------------------------------------------------------------------
(* Tables *)

\* ON CONFLICT DO NOTHING adds rows and changes none, and adds them once.
LEMMA KeepType == ASSUME NEW f, NEW g PROVE IsTable(Keep(f, g))
BY DEF Keep, IsTable

LEMMA KeepDomain == ASSUME NEW f, NEW g PROVE DOMAIN Keep(f, g) = DOMAIN f \cup DOMAIN g
BY DEF Keep

LEMMA KeepOld == ASSUME NEW f, NEW g, NEW k \in DOMAIN f PROVE Keep(f, g)[k] = f[k]
BY DEF Keep

LEMMA KeepNew ==
    ASSUME NEW f, NEW g, NEW k \in DOMAIN g, k \notin DOMAIN f
    PROVE  Keep(f, g)[k] = g[k]
BY DEF Keep

LEMMA KeepTwice ==
    ASSUME NEW f, NEW g
    PROVE  Keep(Keep(f, g), g) = Keep(f, g) /\ Keep(g, Keep(g, f)) = Keep(g, f)
BY DEF Keep

\* Rows are deleted once, and the others stay.
LEMMA WithoutType == ASSUME NEW f, NEW S PROVE IsTable(Without(f, S))
BY DEF Without, IsTable

LEMMA WithoutDomain == ASSUME NEW f, NEW S PROVE DOMAIN Without(f, S) = DOMAIN f \ S
BY DEF Without

LEMMA WithoutOld == ASSUME NEW f, NEW S, NEW k \in DOMAIN f \ S PROVE Without(f, S)[k] = f[k]
BY DEF Without

LEMMA WithoutTwice == ASSUME NEW f, NEW S PROVE Without(Without(f, S), S) = Without(f, S)
BY DEF Without

\* What each single-table procedure does to the record of tables.
LEMMA RelayInsertMade ==
    ASSUME NEW d, IsRecord(d), NEW rows
    PROVE  Made(RelayInsert(d, rows),
                Keep(d.relay, rows), d.event, d.metadata, d.event_relay, d.relay_metadata,
                d.state)
BY SMT DEF IsRecord, Made, RelayInsert

LEMMA EventInsertMade ==
    ASSUME NEW d, IsRecord(d), NEW rows
    PROVE  Made(EventInsert(d, rows),
                d.relay, d.event \cup rows, d.metadata, d.event_relay, d.relay_metadata, d.state)
BY SMT DEF IsRecord, Made, EventInsert

LEMMA MetadataInsertMade ==
    ASSUME NEW d, IsRecord(d), NEW rows
    PROVE  Made(MetadataInsert(d, rows),
                d.relay, d.event, d.metadata \cup rows, d.event_relay, d.relay_metadata, d.state)
BY SMT DEF IsRecord, Made, MetadataInsert

LEMMA EventRelayInsertMade ==
    ASSUME NEW d, IsRecord(d), NEW rows
    PROVE  Made(EventRelayInsert(d, rows),
                d.relay, d.event, d.metadata, Keep(d.event_relay, rows), d.relay_metadata,
                d.state)
BY SMT DEF IsRecord, Made, EventRelayInsert

LEMMA RelayMetadataInsertMade ==
    ASSUME NEW d, IsRecord(d), NEW rows
    PROVE  Made(RelayMetadataInsert(d, rows),
                d.relay, d.event, d.metadata, d.event_relay, Keep(d.relay_metadata, rows),
                d.state)
BY SMT DEF IsRecord, Made, RelayMetadataInsert

LEMMA StateUpsertMade ==
    ASSUME NEW d, IsRecord(d), NEW rows
    PROVE  Made(StateUpsert(d, rows),
                d.relay, d.event, d.metadata, d.event_relay, d.relay_metadata, Keep(rows,
                d.state))
BY SMT DEF IsRecord, Made, StateUpsert

LEMMA StateDeleteMade ==
    ASSUME NEW d, IsRecord(d), NEW rows
    PROVE  Made(StateDelete(d, rows),
                d.relay, d.event, d.metadata, d.event_relay, d.relay_metadata, Without(d.state,
                rows))
BY SMT DEF IsRecord, Made, StateDelete

\* Adding or removing nothing changes nothing.
LEMMA EmptyBatch ==
    ASSUME NEW f, IsTable(f)
    PROVE  Keep(f, NoRows) = f /\ Keep(NoRows, f) = f /\ Without(f, {}) = f
BY DEF IsTable, Keep, NoRows, Without

-----------------------------------------------------------------------------
(* Calls *)

\* The procedures with cascade: parents and junction rows.
LEMMA CascadeMade ==
    ASSUME NEW d, IsRecord(d), NEW c
    PROVE  /\ Made(EventRelayCascade(d, c), Keep(d.relay, c.relay), d.event \cup c.event,
                   d.metadata, Keep(d.event_relay, c.event_relay), d.relay_metadata, d.state)
           /\ Made(RelayMetadataCascade(d, c), Keep(d.relay, c.relay), d.event,
                   d.metadata \cup c.metadata, d.event_relay,
                   Keep(d.relay_metadata, c.relay_metadata), d.state)
<1> DEFINE x == RelayInsert(d, c.relay)
           y == EventInsert(x, c.event)
           z == MetadataInsert(x, c.metadata)
<1>1. Made(x, Keep(d.relay, c.relay), d.event, d.metadata, d.event_relay, d.relay_metadata,
           d.state)
    BY RelayInsertMade
<1> HIDE DEF x
<1>2. Made(y, x.relay, x.event \cup c.event, x.metadata, x.event_relay, x.relay_metadata,
           x.state)
    BY <1>1, EventInsertMade DEF Made
<1>3. Made(z, x.relay, x.event, x.metadata \cup c.metadata, x.event_relay, x.relay_metadata,
           x.state)
    BY <1>1, MetadataInsertMade DEF Made
<1> HIDE DEF y, z
<1>4. Made(EventRelayInsert(y, c.event_relay), y.relay, y.event, y.metadata,
           Keep(y.event_relay, c.event_relay), y.relay_metadata, y.state)
    BY <1>2, EventRelayInsertMade DEF Made
<1>5. Made(RelayMetadataInsert(z, c.relay_metadata), z.relay, z.event, z.metadata,
           z.event_relay, Keep(z.relay_metadata, c.relay_metadata), z.state)
    BY <1>3, RelayMetadataInsertMade DEF Made
<1>6. /\ EventRelayCascade(d, c) = EventRelayInsert(y, c.event_relay)
      /\ RelayMetadataCascade(d, c) = RelayMetadataInsert(z, c.relay_metadata)
    BY Zenon DEF EventRelayCascade, RelayMetadataCascade, x, y, z
<1> QED
    BY <1>1, <1>2, <1>3, <1>4, <1>5, <1>6 DEF Made

\* All procedures at once: each adds the rows its call carries, replaces the
\* states and deletes the keys, and a call carries nothing else.
Stored(d, x, c) ==
    Made(x, Keep(d.relay, c.relay), d.event \cup c.event, d.metadata \cup c.metadata,
         Keep(d.event_relay, c.event_relay), Keep(d.relay_metadata, c.relay_metadata),
         Keep(c.state, Without(d.state, c.keys)))

LEMMA ApplyStores ==
    ASSUME NEW d, IsDb(d), NEW c, WellFormed(c)
    PROVE  Stored(d, Apply(d, c), c)
<1>1. /\ Keep(d.relay, NoRows) = d.relay /\ Keep(d.event_relay, NoRows) = d.event_relay
      /\ Keep(d.relay_metadata, NoRows) = d.relay_metadata
      /\ Keep(NoRows, d.state) = d.state /\ Without(d.state, {}) = d.state
      /\ d.event \cup {} = d.event /\ d.metadata \cup {} = d.metadata
    BY EmptyBatch DEF IsDb
<1>2. Keep(NoRows, Without(d.state, c.keys)) = Without(d.state, c.keys)
    BY WithoutType, EmptyBatch
<1>3. IsRecord(d)
    BY DEF IsDb
<1>4. CASE c.op = "relay_insert"
    <2>1. /\ c.event = {} /\ c.metadata = {} /\ c.event_relay = NoRows
          /\ c.relay_metadata = NoRows
          /\ c.state = NoRows /\ c.keys = {}
        BY <1>4 DEF WellFormed
    <2>2. Apply(d, c) = RelayInsert(d, c.relay)
        BY <1>4 DEF Apply
    <2> QED
        BY <1>1, <1>2, <1>3, <2>1, <2>2, RelayInsertMade DEF Stored, Made
<1>5. CASE c.op = "event_insert"
    <2>1. /\ c.relay = NoRows /\ c.metadata = {} /\ c.event_relay = NoRows
          /\ c.relay_metadata = NoRows
          /\ c.state = NoRows /\ c.keys = {}
        BY <1>5 DEF WellFormed
    <2>2. Apply(d, c) = EventInsert(d, c.event)
        BY <1>5 DEF Apply
    <2> QED
        BY <1>1, <1>2, <1>3, <2>1, <2>2, EventInsertMade DEF Stored, Made
<1>6. CASE c.op = "metadata_insert"
    <2>1. /\ c.relay = NoRows /\ c.event = {} /\ c.event_relay = NoRows
          /\ c.relay_metadata = NoRows
          /\ c.state = NoRows /\ c.keys = {}
        BY <1>6 DEF WellFormed
    <2>2. Apply(d, c) = MetadataInsert(d, c.metadata)
        BY <1>6 DEF Apply
    <2> QED
        BY <1>1, <1>2, <1>3, <2>1, <2>2, MetadataInsertMade DEF Stored, Made
<1>7. CASE c.op = "event_relay_insert"
    <2>1. /\ c.relay = NoRows /\ c.event = {} /\ c.metadata = {} /\ c.relay_metadata = NoRows
          /\ c.state = NoRows /\ c.keys = {}
        BY <1>7 DEF WellFormed
    <2>2. Apply(d, c) = EventRelayInsert(d, c.event_relay)
        BY <1>7 DEF Apply
    <2> QED
        BY <1>1, <1>2, <1>3, <2>1, <2>2, EventRelayInsertMade DEF Stored, Made
<1>8. CASE c.op = "event_relay_insert_cascade"
    <2>1. c.metadata = {} /\ c.relay_metadata = NoRows /\ c.state = NoRows /\ c.keys = {}
        BY <1>8 DEF WellFormed
    <2>2. Apply(d, c) = EventRelayCascade(d, c)
        BY <1>8 DEF Apply
    <2> QED
        BY <1>1, <1>2, <1>3, <2>1, <2>2, CascadeMade DEF Stored, Made
<1>9. CASE c.op = "relay_metadata_insert"
    <2>1. /\ c.relay = NoRows /\ c.event = {} /\ c.metadata = {} /\ c.event_relay = NoRows
          /\ c.state = NoRows /\ c.keys = {}
        BY <1>9 DEF WellFormed
    <2>2. Apply(d, c) = RelayMetadataInsert(d, c.relay_metadata)
        BY <1>9 DEF Apply
    <2> QED
        BY <1>1, <1>2, <1>3, <2>1, <2>2, RelayMetadataInsertMade DEF Stored, Made
<1>10. CASE c.op = "relay_metadata_insert_cascade"
    <2>1. c.event = {} /\ c.event_relay = NoRows /\ c.state = NoRows /\ c.keys = {}
        BY <1>10 DEF WellFormed
    <2>2. Apply(d, c) = RelayMetadataCascade(d, c)
        BY <1>10 DEF Apply
    <2> QED
        BY <1>1, <1>2, <1>3, <2>1, <2>2, CascadeMade DEF Stored, Made
<1>11. CASE c.op = "service_state_upsert"
    <2>1. /\ c.relay = NoRows /\ c.event = {} /\ c.metadata = {} /\ c.event_relay = NoRows
          /\ c.relay_metadata = NoRows /\ c.keys = {}
        BY <1>11 DEF WellFormed
    <2>2. Apply(d, c) = StateUpsert(d, c.state)
        BY <1>11 DEF Apply
    <2> QED
        BY <1>1, <1>2, <1>3, <2>1, <2>2, StateUpsertMade DEF Stored, Made
<1>12. CASE c.op = "service_state_delete"
    <2>1. /\ c.relay = NoRows /\ c.event = {} /\ c.metadata = {} /\ c.event_relay = NoRows
          /\ c.relay_metadata = NoRows /\ c.state = NoRows
        BY <1>12 DEF WellFormed
    <2>2. Apply(d, c) = StateDelete(d, c.keys)
        BY <1>12 DEF Apply
    <2> QED
        BY <1>1, <1>2, <1>3, <2>1, <2>2, StateDeleteMade DEF Stored, Made
<1>13. CASE c.op \notin Batched
    <2>1. /\ c.relay = NoRows /\ c.event = {} /\ c.metadata = {} /\ c.event_relay = NoRows
          /\ c.relay_metadata = NoRows /\ c.state = NoRows /\ c.keys = {}
        BY <1>13 DEF WellFormed, Batched
    <2>2. Apply(d, c) = d
        BY <1>13 DEF Apply, Batched
    <2> QED
        BY <1>1, <1>2, <1>3, <2>1, <2>2 DEF Stored, Made
<1> QED
    BY <1>4, <1>5, <1>6, <1>7, <1>8, <1>9, <1>10, <1>11, <1>12, <1>13 DEF Batched

\* The domains of the tables after a call, and the rows that were there.
LEMMA ApplyDomains ==
    ASSUME NEW d, NEW x, NEW c, Stored(d, x, c)
    PROVE  /\ DOMAIN x.relay = DOMAIN d.relay \cup DOMAIN c.relay
           /\ DOMAIN x.event_relay = DOMAIN d.event_relay \cup DOMAIN c.event_relay
           /\ DOMAIN x.relay_metadata = DOMAIN d.relay_metadata \cup DOMAIN c.relay_metadata
           /\ DOMAIN x.state = DOMAIN c.state \cup (DOMAIN d.state \ c.keys)
           /\ x.event = d.event \cup c.event /\ x.metadata = d.metadata \cup c.metadata
<1>1. /\ x.relay = Keep(d.relay, c.relay) /\ x.event_relay = Keep(d.event_relay, c.event_relay)
      /\ x.relay_metadata = Keep(d.relay_metadata, c.relay_metadata)
      /\ x.state = Keep(c.state, Without(d.state, c.keys))
      /\ x.event = d.event \cup c.event /\ x.metadata = d.metadata \cup c.metadata
    BY Zenon DEF Stored, Made
<1>2. DOMAIN x.relay = DOMAIN d.relay \cup DOMAIN c.relay
    BY <1>1, KeepDomain, Zenon
<1>3. DOMAIN x.event_relay = DOMAIN d.event_relay \cup DOMAIN c.event_relay
    BY <1>1, KeepDomain, Zenon
<1>4. DOMAIN x.relay_metadata = DOMAIN d.relay_metadata \cup DOMAIN c.relay_metadata
    BY <1>1, KeepDomain, Zenon
<1>5. DOMAIN x.state = DOMAIN c.state \cup (DOMAIN d.state \ c.keys)
    <2>1. DOMAIN x.state = DOMAIN c.state \cup DOMAIN Without(d.state, c.keys)
        BY <1>1, KeepDomain, Zenon
    <2> QED
        BY <2>1, WithoutDomain, Zenon
<1> QED
    BY <1>1, <1>2, <1>3, <1>4, <1>5, Zenon

LEMMA ApplyOldRows ==
    ASSUME NEW d, NEW x, NEW c, Stored(d, x, c)
    PROVE  /\ \A u \in DOMAIN d.relay : x.relay[u] = d.relay[u]
           /\ \A k \in DOMAIN d.event_relay : x.event_relay[k] = d.event_relay[k]
           /\ \A k \in DOMAIN d.relay_metadata : x.relay_metadata[k] = d.relay_metadata[k]
           /\ \A k \in DOMAIN c.relay_metadata :
                 k \notin DOMAIN d.relay_metadata => x.relay_metadata[k] = c.relay_metadata[k]
<1>1. /\ x.relay = Keep(d.relay, c.relay) /\ x.event_relay = Keep(d.event_relay, c.event_relay)
      /\ x.relay_metadata = Keep(d.relay_metadata, c.relay_metadata)
    BY Zenon DEF Stored, Made
<1>2. \A u \in DOMAIN d.relay : x.relay[u] = d.relay[u]
    BY <1>1, KeepOld
<1>3. \A k \in DOMAIN d.event_relay : x.event_relay[k] = d.event_relay[k]
    BY <1>1, KeepOld
<1>4. \A k \in DOMAIN d.relay_metadata : x.relay_metadata[k] = d.relay_metadata[k]
    BY <1>1, KeepOld
<1>5. \A k \in DOMAIN c.relay_metadata :
         k \notin DOMAIN d.relay_metadata => x.relay_metadata[k] = c.relay_metadata[k]
    BY <1>1, KeepNew
<1> QED
    BY <1>2, <1>3, <1>4, <1>5, Zenon

\* A call leaves a database state.
LEMMA ApplyType ==
    ASSUME NEW d, IsDb(d), NEW c, WellFormed(c)
    PROVE  IsDb(Apply(d, c))
BY ApplyStores, KeepType DEF Stored, Made, IsDb

\* A call that does not raise refers to rows that are there.
LEMMA ApplyReferences ==
    ASSUME NEW d, IsDb(d), ReferencesHold(d), NEW c, WellFormed(c), Succeeds(d, c)
    PROVE  ReferencesHold(Apply(d, c))
<1> DEFINE x == Apply(d, c)
<1>1. Stored(d, x, c)
    BY ApplyStores
<1> HIDE DEF x
<1>2. /\ DOMAIN x.relay = DOMAIN d.relay \cup DOMAIN c.relay
      /\ x.event = d.event \cup c.event /\ x.metadata = d.metadata \cup c.metadata
      /\ DOMAIN x.event_relay = DOMAIN d.event_relay \cup DOMAIN c.event_relay
      /\ DOMAIN x.relay_metadata = DOMAIN d.relay_metadata \cup DOMAIN c.relay_metadata
      /\ \A k \in DOMAIN d.relay_metadata : x.relay_metadata[k] = d.relay_metadata[k]
      /\ \A k \in DOMAIN c.relay_metadata :
            k \notin DOMAIN d.relay_metadata => x.relay_metadata[k] = c.relay_metadata[k]
    BY <1>1, ApplyDomains, ApplyOldRows
<1>3. DOMAIN NoRows = {}
    BY DEF NoRows
<1>4. ASSUME NEW k \in DOMAIN c.event_relay
      PROVE  k[1] \in x.event /\ k[2] \in DOMAIN x.relay
    <2>1. c.op \in {"event_relay_insert", "event_relay_insert_cascade"}
        BY <1>3, <1>4 DEF WellFormed
    <2> QED
        BY <1>2, <2>1 DEF WellFormed, Succeeds, EventRelayFks
<1>5. ASSUME NEW k \in DOMAIN c.relay_metadata
      PROVE  k[1] \in DOMAIN x.relay /\ DocOf(k, c.relay_metadata[k]) \in x.metadata
    <2>1. c.op \in {"relay_metadata_insert", "relay_metadata_insert_cascade"}
        BY <1>3, <1>5 DEF WellFormed
    <2> QED
        BY <1>2, <2>1 DEF WellFormed, Succeeds, RelayMetadataFks
<1>6. EventRelayFks(x, x.event_relay)
    BY <1>2, <1>4 DEF EventRelayFks, ReferencesHold
<1>7. RelayMetadataFks(x, x.relay_metadata)
    BY <1>2, <1>5 DEF RelayMetadataFks, ReferencesHold
<1> QED
    BY <1>6, <1>7 DEF ReferencesHold, x

\* A statement that is repeated after it was committed changes nothing more.
LEMMA ApplyTwice ==
    ASSUME NEW d, IsDb(d), NEW c, WellFormed(c)
    PROVE  Apply(Apply(d, c), c) = Apply(d, c)
<1> DEFINE x == Apply(d, c)
           y == Apply(x, c)
<1>1. IsDb(x) /\ Stored(d, x, c)
    BY ApplyType, ApplyStores
<1> HIDE DEF x
<1>2. Stored(x, y, c)
    BY <1>1, ApplyStores
<1> HIDE DEF y
<1>3. /\ y.relay = x.relay /\ y.event_relay = x.event_relay
      /\ y.relay_metadata = x.relay_metadata
    BY <1>1, <1>2, KeepTwice DEF Stored, Made
<1>4. y.event = x.event /\ y.metadata = x.metadata
    BY <1>1, <1>2 DEF Stored, Made
<1>5. c.keys = {} \/ c.state = NoRows
    BY DEF WellFormed
<1>6. /\ x.state = Keep(c.state, Without(d.state, c.keys))
      /\ y.state = Keep(c.state, Without(x.state, c.keys))
    BY <1>1, <1>2 DEF Stored, Made
<1>7. y.state = x.state
    <2>1. CASE c.keys = {}
        <3>1. Without(d.state, {}) = d.state /\ Without(x.state, {}) = x.state
            BY <1>1, EmptyBatch DEF IsDb
        <3> QED
            BY <1>6, <2>1, <3>1, KeepTwice
    <2>2. CASE c.state = NoRows
        <3>1. x.state = Without(d.state, c.keys) /\ y.state = Without(x.state, c.keys)
            BY <1>6, <2>2, EmptyBatch, WithoutType
        <3> QED
            BY <3>1, WithoutTwice
    <2> QED
        BY <1>5, <2>1, <2>2
<1>8. IsRecord(x) /\ IsRecord(y)
    BY <1>1, <1>2 DEF Stored, Made, IsDb
<1>9. x = y
    BY <1>3, <1>4, <1>7, <1>8 DEF IsRecord
<1> QED
    BY <1>9 DEF x, y

\* What a call carries is there afterwards.
LEMMA ApplyRows ==
    ASSUME NEW d, IsDb(d), NEW c, WellFormed(c)
    PROVE  RowsStored(Apply(d, c), c)
<1> DEFINE x == Apply(d, c)
<1>1. Stored(d, x, c)
    BY ApplyStores
<1> HIDE DEF x
<1>2. /\ DOMAIN x.relay = DOMAIN d.relay \cup DOMAIN c.relay
      /\ DOMAIN x.event_relay = DOMAIN d.event_relay \cup DOMAIN c.event_relay
      /\ DOMAIN x.relay_metadata = DOMAIN d.relay_metadata \cup DOMAIN c.relay_metadata
      /\ DOMAIN x.state = DOMAIN c.state \cup (DOMAIN d.state \ c.keys)
      /\ x.event = d.event \cup c.event /\ x.metadata = d.metadata \cup c.metadata
    BY <1>1, ApplyDomains
<1>3. c.keys = {} \/ DOMAIN c.state = {}
    BY DEF WellFormed, NoRows
<1> QED
    BY <1>2, <1>3 DEF RowsStored, x

\* No call changes or removes a row of the archive.
ArchiveKept(d, x) ==
    /\ DOMAIN d.relay \subseteq DOMAIN x.relay
    /\ \A u \in DOMAIN d.relay : x.relay[u] = d.relay[u]
    /\ DOMAIN d.event_relay \subseteq DOMAIN x.event_relay
    /\ \A k \in DOMAIN d.event_relay : x.event_relay[k] = d.event_relay[k]
    /\ DOMAIN d.relay_metadata \subseteq DOMAIN x.relay_metadata

LEMMA ApplyKeeps ==
    ASSUME NEW d, IsDb(d), NEW c, WellFormed(c)
    PROVE  ArchiveKept(d, Apply(d, c))
<1> DEFINE x == Apply(d, c)
<1>1. Stored(d, x, c)
    BY ApplyStores
<1> HIDE DEF x
<1>2. /\ DOMAIN x.relay = DOMAIN d.relay \cup DOMAIN c.relay
      /\ DOMAIN x.event_relay = DOMAIN d.event_relay \cup DOMAIN c.event_relay
      /\ DOMAIN x.relay_metadata = DOMAIN d.relay_metadata \cup DOMAIN c.relay_metadata
    BY <1>1, ApplyDomains
<1>3. /\ \A u \in DOMAIN d.relay : x.relay[u] = d.relay[u]
      /\ \A k \in DOMAIN d.event_relay : x.event_relay[k] = d.event_relay[k]
    BY <1>1, ApplyOldRows
<1> QED
    BY <1>2, <1>3 DEF ArchiveKept, x

\* The calls of Brotr have the shape that WellFormed describes.
LEMMA CallsWellFormed ==
    ASSUME NEW rows, NEW relays, NEW cascade \in BOOLEAN
    PROVE  /\ WellFormed(InsertRelay(rows)) /\ WellFormed(InsertEvent(rows))
           /\ WellFormed(InsertMetadata(rows)) /\ WellFormed(UpsertServiceState(rows))
           /\ WellFormed(DeleteServiceState(rows)) /\ WellFormed(GetServiceState)
           /\ WellFormed(RefreshView)
           /\ (\A k \in DOMAIN rows : k[2] \in DOMAIN relays) =>
                 WellFormed(InsertEventRelay(relays, rows, cascade))
           /\ (\A k \in DOMAIN rows : k[1] \in DOMAIN relays) =>
                 WellFormed(InsertRelayMetadata(relays, rows, cascade))
<1>1. WellFormed(InsertRelay(rows))
    BY SMT DEF WellFormed, InsertRelay, NoCall
<1>2. WellFormed(InsertEvent(rows))
    BY SMT DEF WellFormed, InsertEvent, NoCall
<1>3. WellFormed(InsertMetadata(rows))
    BY SMT DEF WellFormed, InsertMetadata, NoCall
<1>4. WellFormed(UpsertServiceState(rows))
    BY SMT DEF WellFormed, UpsertServiceState, NoCall
<1>5. WellFormed(DeleteServiceState(rows))
    BY SMT DEF WellFormed, DeleteServiceState, NoCall
<1>6. WellFormed(GetServiceState) /\ WellFormed(RefreshView)
    BY SMT DEF WellFormed, GetServiceState, RefreshView, NoCall
<1>7. ASSUME \A k \in DOMAIN rows : k[2] \in DOMAIN relays
      PROVE  WellFormed(InsertEventRelay(relays, rows, cascade))
    BY <1>7, SMT DEF WellFormed, InsertEventRelay, NoCall
<1>8. ASSUME \A k \in DOMAIN rows : k[1] \in DOMAIN relays
      PROVE  WellFormed(InsertRelayMetadata(relays, rows, cascade))
    BY <1>8, SMT DEF WellFormed, InsertRelayMetadata, NoCall
<1> QED
    BY <1>1, <1>2, <1>3, <1>4, <1>5, <1>6, <1>7, <1>8

-----------------------------------------------------------------------------
(* Deletions *)

LEMMA EventDeleteMade ==
    ASSUME NEW d, IsRecord(d), NEW ids
    PROVE  Made(EventDelete(d, ids), d.relay, d.event \ ids, d.metadata,
                Without(d.event_relay, {k \in DOMAIN d.event_relay : k[1] \in ids}),
                d.relay_metadata, d.state)
<1> DEFINE a == d.event \ ids
           b == Without(d.event_relay, {k \in DOMAIN d.event_relay : k[1] \in ids})
<1>1. EventDelete(d, ids) = [d EXCEPT !.event = a, !.event_relay = b]
    BY DEF EventDelete
<1> HIDE DEF a, b
<1> DEFINE x == [d EXCEPT !.event = a]
<1>2. [d EXCEPT !.event = a, !.event_relay = b] = [x EXCEPT !.event_relay = b]
    OBVIOUS
<1>3. Made(x, d.relay, a, d.metadata, d.event_relay, d.relay_metadata, d.state)
    BY SMT DEF IsRecord, Made
<1> HIDE DEF x
<1>4. Made([x EXCEPT !.event_relay = b],
           x.relay, x.event, x.metadata, b, x.relay_metadata, x.state)
    BY <1>3, SMT DEF IsRecord, Made
<1> QED
    BY <1>1, <1>2, <1>3, <1>4 DEF Made, a, b

LEMMA MetadataDeleteMade ==
    ASSUME NEW d, IsRecord(d), NEW docs
    PROVE  Made(MetadataDelete(d, docs), d.relay, d.event, d.metadata \ docs, d.event_relay,
                Without(d.relay_metadata, {k \in DOMAIN d.relay_metadata :
                                              DocOf(k, d.relay_metadata[k]) \in docs}),
                d.state)
<1> DEFINE a == d.metadata \ docs
           b == Without(d.relay_metadata, {k \in DOMAIN d.relay_metadata :
                                              DocOf(k, d.relay_metadata[k]) \in docs})
<1>1. MetadataDelete(d, docs) = [d EXCEPT !.metadata = a, !.relay_metadata = b]
    BY DEF MetadataDelete
<1> HIDE DEF a, b
<1> DEFINE x == [d EXCEPT !.metadata = a]
<1>2. [d EXCEPT !.metadata = a, !.relay_metadata = b] = [x EXCEPT !.relay_metadata = b]
    OBVIOUS
<1>3. Made(x, d.relay, d.event, a, d.event_relay, d.relay_metadata, d.state)
    BY SMT DEF IsRecord, Made
<1> HIDE DEF x
<1>4. Made([x EXCEPT !.relay_metadata = b],
           x.relay, x.event, x.metadata, x.event_relay, b, x.state)
    BY <1>3, SMT DEF IsRecord, Made
<1> QED
    BY <1>1, <1>2, <1>3, <1>4 DEF Made, a, b

LEMMA RelayDeleteMade ==
    ASSUME NEW d, IsRecord(d), NEW url
    PROVE  Made(RelayDelete(d, url), Without(d.relay, {url}), d.event, d.metadata,
                Without(d.event_relay, {k \in DOMAIN d.event_relay : k[2] = url}),
                Without(d.relay_metadata, {k \in DOMAIN d.relay_metadata : k[1] = url}),
                d.state)
<1> DEFINE a == Without(d.relay, {url})
           b == Without(d.event_relay, {k \in DOMAIN d.event_relay : k[2] = url})
           c == Without(d.relay_metadata, {k \in DOMAIN d.relay_metadata : k[1] = url})
<1>1. RelayDelete(d, url) = [d EXCEPT !.relay = a, !.event_relay = b, !.relay_metadata = c]
    BY DEF RelayDelete
<1> HIDE DEF a, b, c
<1> DEFINE x == [d EXCEPT !.relay = a]
           y == [x EXCEPT !.event_relay = b]
<1>2. [d EXCEPT !.relay = a, !.event_relay = b, !.relay_metadata = c]
      = [y EXCEPT !.relay_metadata = c]
    OBVIOUS
<1>3. Made(x, a, d.event, d.metadata, d.event_relay, d.relay_metadata, d.state)
    BY SMT DEF IsRecord, Made
<1> HIDE DEF x
<1>4. Made(y, x.relay, x.event, x.metadata, b, x.relay_metadata, x.state)
    BY <1>3, SMT DEF IsRecord, Made
<1> HIDE DEF y
<1>5. Made([y EXCEPT !.relay_metadata = c],
           y.relay, y.event, y.metadata, y.event_relay, c, y.state)
    BY <1>4, SMT DEF IsRecord, Made
<1> QED
    BY <1>1, <1>2, <1>3, <1>4, <1>5 DEF Made, a, b, c

\* A deletion removes rows and keeps the others as they are.
Part(f, g) ==
    /\ IsTable(g) /\ DOMAIN g \subseteq DOMAIN f
    /\ \A k \in DOMAIN g : g[k] = f[k]

LEMMA WithoutPart == ASSUME NEW f, NEW S PROVE Part(f, Without(f, S))
BY DEF Part, Without, IsTable

LEMMA SamePart == ASSUME NEW f, IsTable(f) PROVE Part(f, f)
BY DEF Part

\* No deletion leaves a junction row without its parents.
LEMMA PartReferences ==
    ASSUME NEW d, ReferencesHold(d), NEW x,
           Part(d.event_relay, x.event_relay), Part(d.relay_metadata, x.relay_metadata),
           \A k \in DOMAIN x.event_relay :
              /\ k[1] \in d.event => k[1] \in x.event
              /\ k[2] \in DOMAIN d.relay => k[2] \in DOMAIN x.relay,
           \A k \in DOMAIN x.relay_metadata :
              /\ k[1] \in DOMAIN d.relay => k[1] \in DOMAIN x.relay
              /\ DocOf(k, x.relay_metadata[k]) \in d.metadata =>
                    DocOf(k, x.relay_metadata[k]) \in x.metadata
    PROVE  ReferencesHold(x)
BY DEF Part, ReferencesHold, EventRelayFks, RelayMetadataFks

\* The relay goes with its junction rows.
LEMMA RelayDeleteOK ==
    ASSUME NEW d, IsDb(d), ReferencesHold(d), NEW url
    PROVE  /\ IsDb(RelayDelete(d, url)) /\ ReferencesHold(RelayDelete(d, url))
           /\ Part(d.relay, RelayDelete(d, url).relay)
           /\ Part(d.event_relay, RelayDelete(d, url).event_relay)
           /\ Part(d.relay_metadata, RelayDelete(d, url).relay_metadata)
           /\ url \notin DOMAIN RelayDelete(d, url).relay
           /\ \A k \in DOMAIN d.event_relay : k[2] # url =>
                 k \in DOMAIN RelayDelete(d, url).event_relay
           /\ \A k \in DOMAIN d.relay_metadata : k[1] # url =>
                 k \in DOMAIN RelayDelete(d, url).relay_metadata
<1> DEFINE x == RelayDelete(d, url)
           S == {k \in DOMAIN d.event_relay : k[2] = url}
           T == {k \in DOMAIN d.relay_metadata : k[1] = url}
<1>1. Made(x, Without(d.relay, {url}), d.event, d.metadata, Without(d.event_relay, S),
           Without(d.relay_metadata, T), d.state)
    BY RelayDeleteMade DEF IsDb
<1>2. /\ \A k : k \in S <=> k \in DOMAIN d.event_relay /\ k[2] = url
      /\ \A k : k \in T <=> k \in DOMAIN d.relay_metadata /\ k[1] = url
    OBVIOUS
<1> HIDE DEF x, S, T
<1>3. /\ Part(d.relay, x.relay) /\ Part(d.event_relay, x.event_relay)
      /\ Part(d.relay_metadata, x.relay_metadata)
    BY <1>1, WithoutPart DEF Made
<1>4. /\ DOMAIN x.relay = DOMAIN d.relay \ {url}
      /\ DOMAIN x.event_relay = DOMAIN d.event_relay \ S
      /\ DOMAIN x.relay_metadata = DOMAIN d.relay_metadata \ T
      /\ x.event = d.event /\ x.metadata = d.metadata
    BY <1>1, WithoutDomain DEF Made
<1>5. IsDb(x)
    BY <1>1, WithoutType DEF Made, IsDb
<1>6. ReferencesHold(x)
    BY <1>2, <1>3, <1>4, PartReferences
<1> QED
    BY <1>2, <1>3, <1>4, <1>5, <1>6 DEF x

\* A clean-up deletes the rows it selected with the junction rows that refer
\* to them, whatever has been added since it selected them.
LEMMA OrphanDeleteOK ==
    ASSUME NEW d, IsDb(d), ReferencesHold(d), NEW op, NEW rows
    PROVE  /\ IsDb(OrphanDelete(d, op, rows)) /\ ReferencesHold(OrphanDelete(d, op, rows))
           /\ OrphanDelete(d, op, rows).relay = d.relay
           /\ Part(d.event_relay, OrphanDelete(d, op, rows).event_relay)
<1>1. ASSUME NEW ids
      PROVE  /\ IsDb(EventDelete(d, ids)) /\ ReferencesHold(EventDelete(d, ids))
             /\ EventDelete(d, ids).relay = d.relay
             /\ Part(d.event_relay, EventDelete(d, ids).event_relay)
    <2> DEFINE x == EventDelete(d, ids)
               S == {k \in DOMAIN d.event_relay : k[1] \in ids}
    <2>1. Made(x, d.relay, d.event \ ids, d.metadata, Without(d.event_relay, S),
               d.relay_metadata, d.state)
        BY EventDeleteMade DEF IsDb
    <2>2. \A k : k \in S <=> k \in DOMAIN d.event_relay /\ k[1] \in ids
        OBVIOUS
    <2> HIDE DEF x, S
    <2>3. Part(d.event_relay, x.event_relay) /\ Part(d.relay_metadata, x.relay_metadata)
        BY <2>1, WithoutPart, SamePart DEF Made, IsDb
    <2>4. /\ DOMAIN x.event_relay = DOMAIN d.event_relay \ S
          /\ x.relay = d.relay /\ x.event = d.event \ ids /\ x.metadata = d.metadata
        BY <2>1, WithoutDomain DEF Made
    <2>5. IsDb(x)
        BY <2>1, WithoutType DEF Made, IsDb
    <2>6. ReferencesHold(x)
        BY <2>2, <2>3, <2>4, PartReferences
    <2> QED
        BY <2>3, <2>4, <2>5, <2>6 DEF x
<1>2. ASSUME NEW docs
      PROVE  /\ IsDb(MetadataDelete(d, docs)) /\ ReferencesHold(MetadataDelete(d, docs))
             /\ MetadataDelete(d, docs).relay = d.relay
             /\ Part(d.event_relay, MetadataDelete(d, docs).event_relay)
    <2> DEFINE x == MetadataDelete(d, docs)
               S == {k \in DOMAIN d.relay_metadata : DocOf(k, d.relay_metadata[k]) \in docs}
    <2>1. Made(x, d.relay, d.event, d.metadata \ docs, d.event_relay,
               Without(d.relay_metadata, S), d.state)
        BY MetadataDeleteMade DEF IsDb
    <2>2. \A k : k \in S <=> k \in DOMAIN d.relay_metadata
                             /\ DocOf(k, d.relay_metadata[k]) \in docs
        OBVIOUS
    <2> HIDE DEF x, S
    <2>3. Part(d.event_relay, x.event_relay) /\ Part(d.relay_metadata, x.relay_metadata)
        BY <2>1, WithoutPart, SamePart DEF Made, IsDb
    <2>4. /\ DOMAIN x.relay_metadata = DOMAIN d.relay_metadata \ S
          /\ x.relay = d.relay /\ x.event = d.event /\ x.metadata = d.metadata \ docs
        BY <2>1, WithoutDomain DEF Made
    <2>5. IsDb(x)
        BY <2>1, WithoutType DEF Made, IsDb
    <2>6. ReferencesHold(x)
        BY <2>2, <2>3, <2>4, PartReferences DEF Part
    <2> QED
        BY <2>3, <2>4, <2>5, <2>6 DEF x
<1> QED
    BY <1>1, <1>2 DEF OrphanDelete

\* When a clean-up selects its orphans, no junction row refers to them.
LEMMA OrphansUnreferred ==
    ASSUME NEW d, NEW op
    PROVE  Referring(d, op, Orphans(d, op)) = {}
BY DEF Referring, Orphans, OrphanEvents, OrphanMetadata

-----------------------------------------------------------------------------
(* The process *)

DbOK == IsDb(db) /\ ReferencesHold(db)

CallOK == pc = "call" => call \in Calls

\* What a clean-up selected was referred to by nothing.
SweepOK == sweep.found = {}

\* While nobody else writes, the tables are as before the call or as after it.
RetryOK == pc = "call" /\ alone => IsDb(before) /\ db \in {before, Apply(before, call)}

\* A signal that was handled is not forgotten.
SignalOK == signalled => shutdown /\ ~once /\ pc \notin {"connecting", "starting"}

\* The outcome of the cycle that is j cycles back.
Ago(h, j) == h[Len(h) - j]

\* The history ends with as many failures as are counted, after a success or
\* the start of the process.
HistoryOK ==
    /\ Len(history) <= Limit
    /\ Limit > 0 =>
          /\ failures <= Len(history)
          /\ \A j \in 0..(failures - 1) : Ago(history, j) = "failed"
          /\ failures < Len(history) => Ago(history, failures) = "succeeded"

\* The limit is reached only where the loop is left for it.
LimitOK ==
    /\ pc \in {"connecting", "starting", "entering"} => failures = 0
    /\ Limit > 0 /\ ~once /\ pc \in InLoop => failures < Limit
    /\ pc = "leaving" /\ ~once /\ ~shutdown => Limit > 0 /\ failures = Limit

\* The inductive invariant.
PInv == TypeOK /\ DbOK /\ CallOK /\ SweepOK /\ RetryOK /\ SignalOK /\ HistoryOK /\ LimitOK

\* The history after one more outcome, seen from its end.
LEMMA RecordedFacts ==
    ASSUME NEW o \in {"succeeded", "failed"}, history \in Seq({"succeeded", "failed"}),
           Len(history) <= Limit
    PROVE  /\ Recorded(o) \in Seq({"succeeded", "failed"})
           /\ Len(Recorded(o)) <= Limit
           /\ Limit > 0 => /\ Len(Recorded(o)) = IF Len(history) < Limit THEN Len(history) + 1
                                                 ELSE Limit
                           /\ Ago(Recorded(o), 0) = o
                           /\ \A j \in 1..(Len(Recorded(o)) - 1) :
                                 Ago(Recorded(o), j) = Ago(history, j - 1)
<1> DEFINE S == {"succeeded", "failed"}
           h == Append(history, o)
<1>1. /\ h \in Seq(S) /\ Len(h) = Len(history) + 1 /\ h[Len(history) + 1] = o
      /\ \A i \in 1..Len(history) : h[i] = history[i]
      /\ Len(history) \in Nat /\ Limit \in Nat
    BY ProcessAssumption
<1>2. Recorded(o) = IF Len(h) > Limit THEN Tail(h) ELSE h
    BY DEF Recorded
<1> HIDE DEF h, S
<1>3. CASE Len(h) > Limit
    <2>1. Len(history) = Limit /\ Recorded(o) = Tail(h) /\ h # <<>>
        BY <1>1, <1>2, <1>3
    <2>2. /\ Tail(h) \in Seq(S) /\ Len(Tail(h)) = Limit
          /\ \A i \in 1..Limit : Tail(h)[i] = h[i + 1]
        BY <1>1, <2>1
    <2>3. ASSUME Limit > 0
          PROVE  /\ Ago(Tail(h), 0) = o
                 /\ \A j \in 1..(Limit - 1) : Ago(Tail(h), j) = Ago(history, j - 1)
        BY <1>1, <2>1, <2>2, <2>3 DEF Ago
    <2> QED
        BY <1>1, <2>1, <2>2, <2>3 DEF S
<1>4. CASE ~(Len(h) > Limit)
    <2>1. Len(history) < Limit /\ Recorded(o) = h
        BY <1>1, <1>2, <1>4
    <2>2. /\ Ago(h, 0) = o
          /\ \A j \in 1..(Len(h) - 1) : Ago(h, j) = Ago(history, j - 1)
        BY <1>1, <2>1 DEF Ago
    <2> QED
        BY <1>1, <2>1, <2>2 DEF S
<1> QED
    BY <1>3, <1>4

\* The types: the flags, the history, and the rest.
Flags ==
    /\ once \in BOOLEAN /\ connected \in BOOLEAN /\ metrics \in BOOLEAN
    /\ shutdown \in BOOLEAN /\ signalled \in BOOLEAN /\ alone \in BOOLEAN

Numbers ==
    /\ pc \in Pcs /\ failures \in Nat /\ code \in {0, 1}
    /\ attempt \in 0..(MaxAttempts - 1) /\ call \in Calls \cup {NoCall}
    /\ calls \in 0..MaxCalls /\ faults \in 0..MaxFaults

LEMMA FlagsStep == ASSUME Flags, Next PROVE Flags'
<1>1. CASE Connect \/ StartService \/ EnterService
    BY <1>1, Zenon DEF Flags, Connect, StartService, EnterService, store, process, work
<1>2. CASE StartCycle \/ WaitInterrupted \/ WaitElapses
    BY <1>2, Zenon DEF Flags, StartCycle, WaitInterrupted, WaitElapses, store, process, work
<1>3. CASE CycleSucceeds \/ CycleFails
    BY <1>3, Zenon DEF Flags, CycleSucceeds, CycleFails, NoWork, store
<1>4. CASE CallReturns \/ CallRaises
    BY <1>4, Zenon DEF Flags, CallReturns, CallRaises, CallDone, store, process
<1>5. CASE LeaveService \/ StopMetrics \/ ClosePool(FALSE) \/ ClosePool(TRUE)
    BY <1>5, Zenon DEF Flags, LeaveService, StopMetrics, ClosePool, store, process, work
<1>6. CASE ConnectFails \/ StartServiceFails \/ EnterServiceFails \/ Kill \/ Signal
    BY <1>6, Zenon DEF Flags, ConnectFails, StartServiceFails, EnterServiceFails, Kill, Signal,
                       store, process, work
<1>7. CASE \E committed \in BOOLEAN : CallTimesOut(committed) \/ ConnectionLost(committed)
    BY <1>7, Zenon DEF Flags, CallTimesOut, ConnectionLost, CallDone, process
<1>8. CASE Restart \/ Elsewhere \/ BeginCleanup \/ EndCleanup
    BY <1>8, Zenon DEF Flags, Restart, Elsewhere, BeginCleanup, EndCleanup, NotAlone, NoWork,
                       store, process, work
<1>9. CASE \E c \in Calls : BeginCall(c)
    BY <1>9, Zenon DEF Flags, BeginCall, store, process
<1> QED
    BY <1>1, <1>2, <1>3, <1>4, <1>5, <1>6, <1>7, <1>8, <1>9 DEF Next, ProcessStep, Failure

LEMMA NumbersStep == ASSUME Numbers, Next PROVE Numbers'
<1> USE ProcessAssumption DEF Numbers, Pcs, InLoop, Working
<1>1. CASE Connect \/ StartService \/ EnterService
    BY <1>1 DEF Connect, StartService, EnterService, store, process, work
<1>2. CASE StartCycle \/ WaitInterrupted \/ WaitElapses
    BY <1>2 DEF StartCycle, WaitInterrupted, WaitElapses, store, process, work
<1>3. CASE CycleSucceeds \/ CycleFails
    BY <1>3 DEF CycleSucceeds, CycleFails, NoWork, store
<1>4. CASE CallReturns \/ CallRaises
    BY <1>4 DEF CallReturns, CallRaises, CallDone, Raise, store, process
<1>5. CASE LeaveService \/ StopMetrics \/ ClosePool(FALSE) \/ ClosePool(TRUE)
    BY <1>5 DEF LeaveService, StopMetrics, ClosePool, Fault, store, process, work
<1>6. CASE ConnectFails \/ StartServiceFails \/ EnterServiceFails \/ Kill \/ Signal
    BY <1>6 DEF ConnectFails, StartServiceFails, EnterServiceFails, Kill, Signal, Fault,
                store, process, work
<1>7. CASE \E committed \in BOOLEAN : CallTimesOut(committed) \/ ConnectionLost(committed)
    BY <1>7 DEF CallTimesOut, ConnectionLost, CallDone, Raise, Fault, process
<1>8. CASE Restart \/ Elsewhere \/ BeginCleanup \/ EndCleanup
    BY <1>8 DEF Restart, Elsewhere, BeginCleanup, EndCleanup, NoWork, store, process, work
<1>9. CASE \E c \in Calls : BeginCall(c)
    BY <1>9 DEF BeginCall, store, process
<1> QED
    BY <1>1, <1>2, <1>3, <1>4, <1>5, <1>6, <1>7, <1>8, <1>9 DEF Next, ProcessStep, Failure

\* Only the end of a cycle, or a restart, changes what is counted.
LEMMA HistoryChanges ==
    ASSUME Next
    PROVE  \/ UNCHANGED <<history, failures>>
           \/ failures' = 0 /\ history' = Recorded("succeeded")
           \/ pc = "failed" /\ ~once /\ failures' = failures + 1 /\ history' = Recorded("failed")
           \/ failures' = 0 /\ history' = <<>>
<1>1. CASE CycleSucceeds \/ CycleFails \/ Restart
    BY <1>1, Zenon DEF CycleSucceeds, CycleFails, Restart
<1>2. CASE ~(CycleSucceeds \/ CycleFails \/ Restart)
    BY <1>2, Zenon DEF Next, ProcessStep, Failure, Connect, StartService, EnterService,
       StartCycle, WaitInterrupted, WaitElapses, CallReturns, CallRaises, LeaveService,
       StopMetrics, ClosePool, ConnectFails, StartServiceFails, EnterServiceFails,
       CallTimesOut, ConnectionLost, Kill, Signal, Elsewhere, BeginCleanup, EndCleanup,
       BeginCall, process
<1> QED
    BY <1>1, <1>2

LEMMA HistoryStep ==
    ASSUME Numbers, history \in Seq({"succeeded", "failed"}), HistoryOK, LimitOK, Next
    PROVE  history' \in Seq({"succeeded", "failed"}) /\ HistoryOK'
<1>1. failures \in Nat /\ Limit \in Nat /\ Len(history) \in Nat
    BY ProcessAssumption DEF Numbers
<1>2. CASE UNCHANGED <<history, failures>>
    BY <1>2 DEF HistoryOK, Ago
<1>3. CASE failures' = 0 /\ history' = Recorded("succeeded")
    <2>1. /\ history' \in Seq({"succeeded", "failed"}) /\ Len(history') <= Limit
          /\ Limit > 0 => Ago(history', 0) = "succeeded"
        BY <1>3, RecordedFacts DEF HistoryOK
    <2>2. Len(history') \in Nat
        BY <2>1
    <2> QED
        BY <1>3, <2>1, <2>2 DEF HistoryOK
<1>4. CASE pc = "failed" /\ ~once /\ failures' = failures + 1 /\ history' = Recorded("failed")
    <2>1. /\ history' \in Seq({"succeeded", "failed"}) /\ Len(history') <= Limit
          /\ Limit > 0 => /\ Len(history') = IF Len(history) < Limit THEN Len(history) + 1
                                             ELSE Limit
                          /\ Ago(history', 0) = "failed"
                          /\ \A j \in 1..(Len(history') - 1) :
                                Ago(history', j) = Ago(history, j - 1)
        BY <1>4, RecordedFacts DEF HistoryOK
    <2> SUFFICES ASSUME Limit > 0
                 PROVE  /\ failures' <= Len(history')
                        /\ \A j \in 0..(failures' - 1) : Ago(history', j) = "failed"
                        /\ failures' < Len(history') => Ago(history', failures') = "succeeded"
        BY <2>1 DEF HistoryOK
    <2>2. failures < Limit
        BY <1>4 DEF LimitOK, InLoop, Working
    <2>3. /\ failures <= Len(history)
          /\ \A j \in 0..(failures - 1) : Ago(history, j) = "failed"
          /\ failures < Len(history) => Ago(history, failures) = "succeeded"
          /\ Len(history) <= Limit
        BY DEF HistoryOK
    <2>4. failures' <= Len(history')
        BY <1>1, <1>4, <2>1, <2>2, <2>3
    <2>5. ASSUME NEW j \in 0..(failures' - 1) PROVE Ago(history', j) = "failed"
        <3>1. j = 0 \/ (j - 1 \in 0..(failures - 1) /\ j \in 1..(Len(history') - 1))
            BY <1>1, <1>4, <2>1, <2>4, <2>5
        <3> QED
            BY <2>1, <2>3, <3>1
    <2>6. ASSUME failures' < Len(history') PROVE Ago(history', failures') = "succeeded"
        <3>1. failures' \in 1..(Len(history') - 1) /\ failures < Len(history)
            BY <1>1, <1>4, <2>1, <2>3, <2>6
        <3> QED
            BY <1>1, <1>4, <2>1, <2>3, <3>1
    <2> QED
        BY <2>4, <2>5, <2>6
<1>5. CASE failures' = 0 /\ history' = <<>>
    BY <1>1, <1>5 DEF HistoryOK
<1> QED
    BY <1>2, <1>3, <1>4, <1>5, HistoryChanges

\* The limit and the place of the process.
LEMMA LimitStep == ASSUME Numbers, LimitOK, Next PROVE LimitOK'
<1> USE ProcessAssumption DEF Numbers, LimitOK, InLoop, Working
<1>1. CASE Connect \/ StartService \/ EnterService
    BY <1>1 DEF Connect, StartService, EnterService, store, process, work
<1>2. CASE StartCycle \/ WaitInterrupted \/ WaitElapses
    BY <1>2 DEF StartCycle, WaitInterrupted, WaitElapses, store, process, work
<1>3. CASE CycleSucceeds \/ CycleFails
    BY <1>3 DEF CycleSucceeds, CycleFails, NoWork, store
<1>4. CASE CallReturns \/ CallRaises
    BY <1>4 DEF CallReturns, CallRaises, CallDone, Raise, store, process
<1>5. CASE LeaveService \/ StopMetrics \/ ClosePool(FALSE) \/ ClosePool(TRUE)
    BY <1>5 DEF LeaveService, StopMetrics, ClosePool, Fault, store, process, work
<1>6. CASE ConnectFails \/ StartServiceFails \/ EnterServiceFails \/ Kill \/ Signal
    BY <1>6 DEF ConnectFails, StartServiceFails, EnterServiceFails, Kill, Signal, Fault,
                store, process, work
<1>7. CASE \E committed \in BOOLEAN : CallTimesOut(committed) \/ ConnectionLost(committed)
    BY <1>7 DEF CallTimesOut, ConnectionLost, CallDone, Raise, Fault, process
<1>8. CASE Restart \/ Elsewhere \/ BeginCleanup \/ EndCleanup
    BY <1>8 DEF Restart, Elsewhere, BeginCleanup, EndCleanup, NoWork, store, process, work
<1>9. CASE \E c \in Calls : BeginCall(c)
    BY <1>9 DEF BeginCall, store, process
<1> QED
    BY <1>1, <1>2, <1>3, <1>4, <1>5, <1>6, <1>7, <1>8, <1>9 DEF Next, ProcessStep, Failure

-----------------------------------------------------------------------------
(* The tables *)

\* The steps that leave the tables alone.
LEMMA DbSame ==
    ASSUME Next
    PROVE  \/ UNCHANGED db
           \/ CallReturns \/ Elsewhere \/ EndCleanup
           \/ \E committed \in BOOLEAN : CallTimesOut(committed) \/ ConnectionLost(committed)
BY Zenon DEF Next, ProcessStep, Failure, Connect, StartService, EnterService, StartCycle,
   CycleSucceeds, CycleFails, Restart, WaitInterrupted, WaitElapses, CallRaises, LeaveService,
   StopMetrics, ClosePool, ConnectFails, StartServiceFails, EnterServiceFails, Kill, Signal,
   BeginCleanup, BeginCall, store

\* The steps that write: a call that succeeds, here or elsewhere, or a deletion.
LEMMA DbChanges ==
    ASSUME CallOK, Next
    PROVE  \/ UNCHANGED db
           \/ \E c \in Calls \cup Others : Succeeds(db, c) /\ db' = Apply(db, c)
           \/ \E url \in DOMAIN db.relay : db' = RelayDelete(db, url)
           \/ EndCleanup
<1>1. CASE CallReturns
    BY <1>1 DEF CallReturns, CallOK
<1>2. CASE \E committed \in BOOLEAN : CallTimesOut(committed) \/ ConnectionLost(committed)
    BY <1>2 DEF CallTimesOut, ConnectionLost, CallOK
<1>3. CASE Elsewhere
    BY <1>3 DEF Elsewhere
<1> QED
    BY <1>1, <1>2, <1>3, DbSame

LEMMA CallShape == \A c \in Calls \cup Others : WellFormed(c)
BY ProcessAssumption

LEMMA DbStep == ASSUME DbOK, CallOK, Next PROVE DbOK'
<1>1. CASE UNCHANGED db
    BY <1>1 DEF DbOK
<1>2. CASE \E c \in Calls \cup Others : Succeeds(db, c) /\ db' = Apply(db, c)
    BY <1>2, CallShape, ApplyType, ApplyReferences DEF DbOK
<1>3. CASE \E url \in DOMAIN db.relay : db' = RelayDelete(db, url)
    BY <1>3, RelayDeleteOK DEF DbOK
<1>4. CASE EndCleanup
    BY <1>4, OrphanDeleteOK DEF DbOK, EndCleanup
<1> QED
    BY <1>1, <1>2, <1>3, <1>4, DbChanges

\* A clean-up finds no junction row that refers to what it selects.
LEMMA SweepStep == ASSUME SweepOK, Next PROVE SweepOK'
<1>1. CASE BeginCleanup
    BY <1>1, OrphansUnreferred DEF BeginCleanup, SweepOK
<1>2. CASE EndCleanup
    BY <1>2 DEF EndCleanup, SweepOK, NoSweep
<1>3. CASE UNCHANGED sweep
    BY <1>3 DEF SweepOK
<1>4. BeginCleanup \/ EndCleanup \/ UNCHANGED sweep
    BY Zenon DEF Next, ProcessStep, Failure, Connect, StartService, EnterService, StartCycle,
       CycleSucceeds, CycleFails, Restart, WaitInterrupted, WaitElapses, CallReturns,
       CallRaises, CallTimesOut, ConnectionLost, LeaveService, StopMetrics, ClosePool,
       ConnectFails, StartServiceFails, EnterServiceFails, Kill, Signal, Elsewhere, BeginCall,
       store
<1> QED
    BY <1>1, <1>2, <1>3, <1>4

\* A call is one of the process from its beginning to its end.
LEMMA CallStep == ASSUME CallOK, Next PROVE CallOK'
<1>1. pc' = "call" => (pc = "call" /\ UNCHANGED call) \/ call' \in Calls
    <2>1. CASE ProcessStep \/ Signal \/ Restart
        BY <2>1 DEF ProcessStep, Connect, StartService, EnterService, StartCycle,
           CycleSucceeds, CycleFails, Restart, WaitInterrupted, WaitElapses, CallReturns,
           CallRaises, Raise, LeaveService, StopMetrics, ClosePool, Signal, process, work
    <2>2. CASE Failure
        BY <2>2 DEF Failure, ClosePool, CallTimesOut, ConnectionLost, Raise, ConnectFails,
           StartServiceFails, EnterServiceFails, Kill, work
    <2>3. CASE Elsewhere \/ BeginCleanup \/ EndCleanup
        BY <2>3, Zenon DEF Elsewhere, BeginCleanup, EndCleanup, work
    <2>4. CASE \E c \in Calls : BeginCall(c)
        BY <2>4 DEF BeginCall
    <2> QED
        BY <2>1, <2>2, <2>3, <2>4 DEF Next
<1> QED
    BY <1>1 DEF CallOK

\* A call begins with the tables as they are, and each of its attempts leaves
\* them as they were before it or as one success makes them.
LEMMA RetryStep == ASSUME Flags, DbOK, CallOK, RetryOK, Next PROVE RetryOK'
<1> SUFFICES ASSUME pc' = "call", alone'
             PROVE  IsDb(before)' /\ db' \in {before', Apply(before', call')}
    BY DEF RetryOK
<1>1. CASE \E c \in Calls : BeginCall(c)
    BY <1>1 DEF BeginCall, store, DbOK
<1>2. CASE \E committed \in BOOLEAN : ConnectionLost(committed)
    <2>1. /\ pc = "call" /\ UNCHANGED <<call, before, alone>>
          /\ db' \in {db, Apply(db, call)}
        BY <1>2 DEF ConnectionLost, Raise
    <2>2. IsDb(before) /\ db \in {before, Apply(before, call)} /\ WellFormed(call)
        BY <2>1, CallShape DEF RetryOK, CallOK
    <2>3. Apply(Apply(before, call), call) = Apply(before, call)
        BY <2>2, ApplyTwice
    <2> QED
        BY <2>1, <2>2, <2>3
<1>3. CASE BeginCleanup \/ Signal
    <2>1. UNCHANGED <<db, pc, call, before, alone>>
        BY <1>3, Zenon DEF BeginCleanup, Signal, store, work
    <2> QED
        BY <2>1 DEF RetryOK
<1>4. CASE Elsewhere \/ EndCleanup
    <2>1. UNCHANGED pc /\ alone' = (pc # "call")
        BY <1>4, Zenon DEF Elsewhere, EndCleanup, NotAlone
    <2> QED
        BY <2>1
<1>5. CASE ProcessStep \/ Restart
    BY <1>5 DEF ProcessStep, Connect, StartService, EnterService, StartCycle, CycleSucceeds,
       CycleFails, Restart, WaitInterrupted, WaitElapses, CallReturns, CallRaises, Raise,
       LeaveService, StopMetrics, ClosePool
<1>6. CASE \/ \E committed \in BOOLEAN : CallTimesOut(committed)
           \/ ConnectFails \/ StartServiceFails \/ EnterServiceFails \/ Kill \/ ClosePool(TRUE)
    BY <1>6 DEF CallTimesOut, Raise, ConnectFails, StartServiceFails, EnterServiceFails, Kill,
       ClosePool
<1> QED
    BY <1>1, <1>2, <1>3, <1>4, <1>5, <1>6 DEF Next, Failure

LEMMA SignalStep == ASSUME SignalOK, Next PROVE SignalOK'
<1> USE DEF SignalOK
<1>1. CASE Connect \/ StartService \/ EnterService
    BY <1>1 DEF Connect, StartService, EnterService, store, process, work
<1>2. CASE StartCycle \/ WaitInterrupted \/ WaitElapses
    BY <1>2 DEF StartCycle, WaitInterrupted, WaitElapses, store, process, work
<1>3. CASE CycleSucceeds \/ CycleFails
    BY <1>3 DEF CycleSucceeds, CycleFails, NoWork, store
<1>4. CASE CallReturns \/ CallRaises
    BY <1>4 DEF CallReturns, CallRaises, CallDone, Raise, store, process
<1>5. CASE LeaveService \/ StopMetrics \/ ClosePool(FALSE) \/ ClosePool(TRUE)
    BY <1>5 DEF LeaveService, StopMetrics, ClosePool, Fault, store, process, work
<1>6. CASE ConnectFails \/ StartServiceFails \/ EnterServiceFails \/ Kill
    <2>1. signalled' = signalled /\ shutdown' = shutdown /\ once' = once
        BY <1>6, Zenon DEF ConnectFails, StartServiceFails, EnterServiceFails, Kill, process
    <2>2. pc \in {"connecting", "starting"} \/ pc' \notin {"connecting", "starting"}
        BY <1>6 DEF ConnectFails, StartServiceFails, EnterServiceFails, Kill
    <2> QED
        BY <2>1, <2>2
<1>7. CASE \E committed \in BOOLEAN : CallTimesOut(committed) \/ ConnectionLost(committed)
    <2>1. signalled' = signalled /\ shutdown' = shutdown /\ once' = once
        BY <1>7, Zenon DEF CallTimesOut, ConnectionLost, process
    <2>2. pc' \notin {"connecting", "starting"}
        BY <1>7 DEF CallTimesOut, ConnectionLost, Raise
    <2> QED
        BY <2>1, <2>2
<1>8. CASE Restart \/ Elsewhere \/ BeginCleanup \/ EndCleanup
    BY <1>8 DEF Restart, Elsewhere, BeginCleanup, EndCleanup, NoWork, store, process, work
<1>9. CASE \E c \in Calls : BeginCall(c)
    BY <1>9 DEF BeginCall, store, process
<1>10. CASE Signal
    <2>1. shutdown' = TRUE /\ ~once' /\ pc' \notin {"connecting", "starting"}
        BY <1>10, Zenon DEF Signal
    <2> QED
        BY <2>1
<1> QED
    BY <1>1, <1>2, <1>3, <1>4, <1>5, <1>6, <1>7, <1>8, <1>9, <1>10 DEF Next, ProcessStep, Failure

-----------------------------------------------------------------------------
(* The invariant *)

LEMMA InitInv == Init => PInv
<1> SUFFICES ASSUME Init PROVE PInv
    OBVIOUS
<1>1. Flags
    BY Zenon DEF Init, Flags
<1>2. Numbers /\ history = <<>> /\ history \in Seq({"succeeded", "failed"})
    BY ProcessAssumption DEF Init, Numbers, Pcs
<1>3. TypeOK
    BY <1>1, <1>2, Zenon DEF TypeOK, Flags, Numbers
<1>4. DbOK
    <2>1. IsDb(EmptyDb)
        BY DEF IsDb, IsRecord, IsTable, EmptyDb, NoRows
    <2>2. ReferencesHold(EmptyDb)
        BY DEF ReferencesHold, EventRelayFks, RelayMetadataFks, EmptyDb, NoRows
    <2> QED
        BY <2>1, <2>2 DEF DbOK, Init
<1>5. CallOK /\ SweepOK /\ RetryOK
    BY DEF Init, CallOK, SweepOK, NoSweep, RetryOK
<1>6. SignalOK
    BY DEF Init, SignalOK
<1>7. HistoryOK
    BY <1>2, ProcessAssumption DEF HistoryOK, Init
<1>8. LimitOK
    BY DEF Init, LimitOK, InLoop, Working
<1> QED
    BY <1>3, <1>4, <1>5, <1>6, <1>7, <1>8 DEF PInv

LEMMA NextInv == PInv /\ [Next]_vars => PInv'
<1> SUFFICES ASSUME PInv, [Next]_vars PROVE PInv'
    OBVIOUS
<1>1. /\ Flags /\ Numbers /\ history \in Seq({"succeeded", "failed"})
      /\ DbOK /\ CallOK /\ SweepOK /\ RetryOK /\ SignalOK /\ HistoryOK /\ LimitOK
    BY Zenon DEF PInv, TypeOK, Flags, Numbers
<1>2. CASE Next
    <2>1. Flags' /\ Numbers' /\ SweepOK' /\ SignalOK' /\ CallOK' /\ LimitOK'
        BY <1>1, <1>2, FlagsStep, NumbersStep, SweepStep, SignalStep, CallStep, LimitStep
    <2>2. history' \in Seq({"succeeded", "failed"}) /\ HistoryOK'
        BY <1>1, <1>2, HistoryStep
    <2>3. DbOK' /\ RetryOK'
        BY <1>1, <1>2, DbStep, RetryStep
    <2> QED
        BY <2>1, <2>2, <2>3, Zenon DEF PInv, TypeOK, Flags, Numbers
<1>3. CASE UNCHANGED vars
    BY <1>3 DEF PInv, TypeOK, DbOK, CallOK, SweepOK, RetryOK, SignalOK, HistoryOK, LimitOK, Ago,
       vars, store, process, work
<1> QED
    BY <1>2, <1>3

\* The inductive invariant holds of every process, for all calls and limits.
THEOREM Invariance == Spec => []PInv
<1> QED
    BY InitInv, NextInv, PTL DEF Spec

\* The variables keep their types: no attempt beyond max_attempts is made.
THEOREM TypeCorrect == Spec => []TypeOK
<1>1. PInv => TypeOK
    BY DEF PInv
<1> QED
    BY <1>1, Invariance, PTL

\* No interleaving of calls, retries, clean-ups and deletions leaves a
\* junction row without its relay, event or document.
THEOREM ReferencesAreKept == Spec => []ReferentialIntegrity
<1>1. PInv => ReferentialIntegrity
    BY DEF PInv, DbOK, ReferentialIntegrity
<1> QED
    BY <1>1, Invariance, PTL

\* Without a signal, the loop is left exactly when the last
\* max_consecutive_failures cycles all failed, for every limit.
THEOREM StopsExactlyAtTheLimit == Spec => []StopsAtLimit
<1> DEFINE spent == Limit > 0 /\ history = [i \in 1..Limit |-> "failed"]
<1>1. ASSUME PInv, ~once, ~shutdown PROVE (pc = "leaving" => spent) /\ (pc \in InLoop => ~spent)
    <2>1. /\ Limit \in Nat /\ failures \in Nat /\ history \in Seq({"succeeded", "failed"})
          /\ Len(history) \in Nat /\ DOMAIN history = 1..Len(history)
        BY <1>1, ProcessAssumption DEF PInv, TypeOK
    <2>2. ASSUME pc = "leaving" PROVE spent
        <3>1. Limit > 0 /\ failures = Limit
            BY <1>1, <2>2 DEF PInv, LimitOK
        <3>2. /\ Len(history) = Limit
              /\ \A j \in 0..(Limit - 1) : history[Len(history) - j] = "failed"
            <4>1. \A j \in 0..(failures - 1) : history[Len(history) - j] = "failed"
                BY <1>1, <3>1 DEF PInv, HistoryOK, Ago
            <4>2. Len(history) = Limit
                <5>1. Len(history) <= Limit /\ failures <= Len(history)
                    BY <1>1, <3>1 DEF PInv, HistoryOK
                <5>2. Limit \in Nat /\ Len(history) \in Nat
                    BY <2>1
                <5> QED
                    BY <3>1, <5>1, <5>2
            <4>3. \A j \in 0..(Limit - 1) : history[Len(history) - j] = "failed"
                BY <3>1, <4>1, Zenon
            <4> QED
                BY <4>2, <4>3
        <3>3. ASSUME NEW i \in 1..Limit PROVE history[i] = "failed"
            <4>1. Limit - i \in 0..(Limit - 1) /\ Len(history) - (Limit - i) = i
                BY <2>1, <3>2
            <4> QED
                BY <3>2, <4>1
        <3>4. history = [i \in 1..Limit |-> "failed"]
            BY <2>1, <3>2, <3>3
        <3> QED
            BY <3>1, <3>4
    <2>3. ASSUME pc \in InLoop, spent PROVE FALSE
        <3>1. failures < Limit /\ Len(history) = Limit
            BY <1>1, <2>1, <2>3 DEF PInv, LimitOK
        <3>2. history[Len(history) - failures] = "succeeded"
            BY <1>1, <2>1, <3>1 DEF PInv, HistoryOK, Ago
        <3>3. Len(history) - failures \in 1..Limit
            BY <2>1, <3>1
        <3> QED
            BY <2>3, <3>2, <3>3
    <2> QED
        BY <2>2, <2>3
<1>2. PInv => StopsAtLimit
    BY <1>1 DEF StopsAtLimit
<1> QED
    BY <1>2, Invariance, PTL

-----------------------------------------------------------------------------
(* What no step may do *)

\* Every attempt of a call, whatever became of the attempts before it, leaves
\* the tables as they were before the call or as it makes them once.
THEOREM RetriesAreOnce == Spec => RetriedOnce
<1> DEFINE A == pc = "call" /\ alone /\ alone' => db' \in {before, Apply(before, call)}
<1>1. ASSUME PInv, [Next]_vars PROVE A
    <2> SUFFICES ASSUME pc = "call", alone, alone' PROVE db' \in {before, Apply(before, call)}
        OBVIOUS
    <2>1. IsDb(before) /\ db \in {before, Apply(before, call)} /\ WellFormed(call)
        BY <1>1, CallShape DEF PInv, RetryOK, CallOK
    <2>2. db' \in {db, Apply(db, call)}
        <3>1. CASE UNCHANGED db
            BY <3>1
        <3>2. CASE CallReturns
            BY <3>2 DEF CallReturns
        <3>3. CASE Elsewhere \/ EndCleanup
            BY <3>3 DEF Elsewhere, EndCleanup, NotAlone
        <3>4. CASE \E committed \in BOOLEAN : CallTimesOut(committed) \/ ConnectionLost(committed)
            BY <3>4 DEF CallTimesOut, ConnectionLost
        <3>5. CASE UNCHANGED vars
            BY <3>5 DEF vars, store
        <3> QED
            BY <1>1, <3>1, <3>2, <3>3, <3>4, <3>5, DbSame
    <2>3. Apply(Apply(before, call), call) = Apply(before, call)
        BY <2>1, ApplyTwice
    <2> QED
        BY <2>1, <2>2, <2>3
<1> QED
    BY <1>1, Invariance, PTL DEF Spec, RetriedOnce

\* A call that returns has stored its rows, at whichever attempt.
THEOREM ReturnsHaveStored == Spec => ReturnMeansStored
<1> DEFINE A == pc = "call" /\ pc' = "cycle" /\ call.op # "refresh" => RowsStored(db', call)
<1>1. ASSUME PInv, [Next]_vars PROVE A
    <2> SUFFICES ASSUME pc = "call", pc' = "cycle", call.op # "refresh"
                 PROVE  RowsStored(db', call)
        OBVIOUS
    <2>1. IsDb(db) /\ WellFormed(call)
        BY <1>1, CallShape DEF PInv, DbOK, CallOK
    <2>2. CallReturns
        <3>1. Next
            BY <1>1 DEF vars
        <3>2. ~(Elsewhere \/ BeginCleanup \/ EndCleanup \/ Signal)
            BY Zenon DEF Elsewhere, BeginCleanup, EndCleanup, Signal
        <3>3. ~(Restart \/ \E c \in Calls : BeginCall(c))
            BY DEF Restart, BeginCall
        <3>4. ~Failure
            BY DEF Failure, ConnectFails, StartServiceFails, EnterServiceFails, CallTimesOut,
               ConnectionLost, Raise, ClosePool, Kill
        <3>5. CASE ProcessStep
            BY <3>5 DEF ProcessStep, Connect, StartService, EnterService, StartCycle,
               CycleSucceeds, CycleFails, WaitInterrupted, WaitElapses, CallRaises, Raise,
               LeaveService, StopMetrics, ClosePool
        <3> QED
            BY <3>1, <3>2, <3>3, <3>4, <3>5 DEF Next
    <2> QED
        BY <2>1, <2>2, ApplyRows DEF CallReturns
<1> QED
    BY <1>1, Invariance, PTL DEF Spec, ReturnMeansStored

\* Nothing is lost or rewritten, except with its relay or under a clean-up
\* that was running when the row was added.
THEOREM NothingIsRewritten == Spec => RowsKept
<1> DEFINE A ==
        /\ \A u \in DOMAIN db.relay \cap DOMAIN db'.relay : db'.relay[u] = db.relay[u]
        /\ \A k \in DOMAIN db.event_relay :
              IF k \in DOMAIN db'.event_relay THEN db'.event_relay[k] = db.event_relay[k]
              ELSE MayGo(k, k[2])
        /\ \A k \in DOMAIN db.relay_metadata :
              k \in DOMAIN db'.relay_metadata \/ MayGo(k, k[1])
<1>1. ASSUME PInv, [Next]_vars PROVE A
    <2>1. IsDb(db) /\ ReferencesHold(db) /\ CallOK /\ sweep.found = {}
        BY <1>1 DEF PInv, DbOK, SweepOK
    <2>2. CASE UNCHANGED db
        BY <2>2
    <2>3. CASE \E c \in Calls \cup Others : Succeeds(db, c) /\ db' = Apply(db, c)
        <3>1. ArchiveKept(db, db')
            BY <2>1, <2>3, CallShape, ApplyKeeps
        <3> QED
            BY <3>1 DEF ArchiveKept
    <2>4. CASE \E url \in DOMAIN db.relay : db' = RelayDelete(db, url)
        <3>1. PICK url \in DOMAIN db.relay : db' = RelayDelete(db, url)
            BY <2>4
        <3>2. /\ Part(db.relay, db'.relay) /\ Part(db.event_relay, db'.event_relay)
              /\ url \notin DOMAIN db'.relay
              /\ \A k \in DOMAIN db.event_relay : k[2] # url => k \in DOMAIN db'.event_relay
              /\ \A k \in DOMAIN db.relay_metadata :
                    k[1] # url => k \in DOMAIN db'.relay_metadata
            BY <2>1, <3>1, RelayDeleteOK
        <3> QED
            BY <3>2 DEF Part, MayGo
    <2>5. CASE EndCleanup
        <3>1. sweep' # sweep
            BY <2>5 DEF EndCleanup
        <3>2. \A k, url : MayGo(k, url)
            BY <2>1, <3>1 DEF MayGo
        <3>3. db'.relay = db.relay /\ Part(db.event_relay, db'.event_relay)
            BY <2>1, <2>5, OrphanDeleteOK DEF EndCleanup
        <3> QED
            BY <3>2, <3>3 DEF Part
    <2>6. Next \/ UNCHANGED db
        BY <1>1 DEF vars, store
    <2> QED
        BY <2>1, <2>2, <2>3, <2>4, <2>5, <2>6, DbChanges
<1> QED
    BY <1>1, Invariance, PTL DEF Spec, RowsKept

\* No cycle starts after a signal, whether wait() saw it or timed out.
THEOREM SignalsAreHeeded == Spec => ShutdownHeeded
<1> DEFINE A == signalled /\ pc' \in Working => pc \in Working
<1>1. ASSUME PInv, [Next]_vars PROVE A
    <2> SUFFICES ASSUME signalled, pc' \in Working, pc \notin Working PROVE FALSE
        OBVIOUS
    <2>1. shutdown /\ ~once
        BY <1>1 DEF PInv, SignalOK
    <2>2. pc # "cycle" /\ pc # "call" /\ pc # "failed" /\ pc' # pc
        BY DEF Working
    <2>3. CASE ProcessStep \/ Restart
        BY <2>1, <2>2, <2>3 DEF ProcessStep, Connect, StartService, EnterService, StartCycle,
           CycleSucceeds, CycleFails, WaitInterrupted, WaitElapses, CallReturns, CallRaises,
           LeaveService, StopMetrics, ClosePool, Restart, Working
    <2>4. CASE Failure
        BY <2>1, <2>2, <2>4 DEF Failure, ConnectFails, StartServiceFails, EnterServiceFails,
           CallTimesOut, ConnectionLost, ClosePool, Kill, Working
    <2>5. CASE Elsewhere \/ BeginCleanup \/ EndCleanup \/ Signal
        BY <2>2, <2>5, Zenon DEF Elsewhere, BeginCleanup, EndCleanup, Signal
    <2>6. CASE \E c \in Calls : BeginCall(c)
        BY <2>2, <2>6 DEF BeginCall
    <2>7. Next
        BY <1>1, <2>2 DEF vars
    <2> QED
        BY <2>3, <2>4, <2>5, <2>6, <2>7 DEF Next
<1> QED
    BY <1>1, Invariance, PTL DEF Spec, ShutdownHeeded
=============================================================================
