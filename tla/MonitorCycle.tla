---------------------------- MODULE MonitorCycle ----------------------------
(***************************************************************************)
(* The cycles of the Monitor (services/monitor): GeoLite2 databases, the   *)
(* three periodic events, the concurrent health checks with their retries  *)
(* and discovery events, the metadata and the checkpoints, and the pool of *)
(* publishing clients (services/common/mixins.py) all of them share.       *)
(*                                                                         *)
(* A health check is its outcome: which kinds of metadata it produced.     *)
(* Every event goes to publishing.relays (no per-event override).          *)
(***************************************************************************)
EXTENDS Naturals, Sequences, FiniteSets, FiniteSetsExt, SequencesExt

CONSTANTS
    Found,            \* the relays, by discovered_at
    Network,          \* relay -> its network
    Target,           \* publishing.relays, a sequence
    Keys,             \* enabled periodic events, in the order of run()
    Discovery,        \* discovery.enabled
    Compute, Store,   \* processing.compute and .store
    Retries,          \* processing.retries, attempts after the first
    MaxTasks,         \* networks.*.max_tasks
    MaxRelays,        \* processing.max_relays
    ChunkSizes,       \* processing.chunk_size
    BatchSize,        \* batch.max_size
    Interval,         \* discovery.interval
    KeyInterval,      \* interval of the periodic events
    MaxNow,           \* bound on the clock
    MaxFaults         \* bound on failures of the environment

Relay == ToSet(Found)
Targets == ToSet(Target)
Checks == {"nip11_info", "nip66_rtt", "nip66_ssl", "nip66_geo", "nip66_net", "nip66_dns",
           "nip66_http"}
ClearnetOnly == {"nip66_ssl", "nip66_geo", "nip66_net", "nip66_dns"}

\* MonitorConfig's validators: nothing is stored that is not computed, and
\* the clearnet-only checks need clearnet.
ConfigAccepted ==
    /\ Store \subseteq Compute
    /\ Compute \cap ClearnetOnly # {} => "clearnet" \in DOMAIN MaxTasks

ASSUME MonitorAssumption ==
    /\ ConfigAccepted /\ Compute \subseteq Checks /\ Network \in [Relay -> DOMAIN MaxTasks]
    /\ Retries \in [Compute -> Nat] /\ MaxRelays \in Nat \ {0} /\ ChunkSizes \subseteq Nat \ {0}
    /\ BatchSize \in Nat \ {0} /\ Interval \in Nat /\ KeyInterval \in Nat
    /\ MaxNow \in Nat \ {0} /\ MaxFaults \in Nat /\ Discovery \in BOOLEAN
    /\ Found \in Seq(Relay) /\ Target \in Seq(Targets) /\ Keys \in Seq(ToSet(Keys))
    /\ "main" \notin Relay

VARIABLES
    relay,       \* the relay table
    checkpoint,  \* relay -> timestamp of its monitor checkpoint, or Never
    published,   \* periodic event -> timestamp of its checkpoint, or Never
    metadata,    \* relay_metadata rows: <<relay, kind, generated_at>>
    disk,        \* GeoLite2 files that exist
    now,
    chunk_size,
    phase,       \* where run() is
    shutdown,
    key,         \* position in Keys
    plan,        \* all_relays, what is left of it
    chunk,       \* relays of the current chunk
    successful,  \* chunk_successful
    failed,      \* chunk_failed
    records,     \* metadata still to insert
    marks,       \* relays still to mark
    stamp,       \* the timestamp they are marked with
    task,        \* the workers, and run() itself as "main"
    cache,       \* Clients: _clients, _failed, and the connections open
    readers,     \* GeoReaders
    faults,
    checked,     \* ghost: relays a worker has checked
    displaced,   \* ghost: clients that were overwritten in _clients
    deleted      \* ghost: relays deleted since the current chunk began

tables == <<relay, checkpoint, published, metadata>>
chunked == <<plan, chunk, successful, failed>>
flush == <<records, marks, stamp>>
ghosts == <<checked, displaced, deleted>>
vars == <<tables, disk, now, chunk_size, phase, shutdown, key, chunked, flush, task, cache,
          readers, faults, ghosts>>

-----------------------------------------------------------------------------

Never == 0
Databases == (IF "nip66_geo" \in Compute THEN {"city"} ELSE {})
             \cup (IF "nip66_net" \in Compute THEN {"asn"} ELSE {})

NoTask == [step |-> "none", todo |-> {}, tries |-> [c \in Compute |-> 0], got |-> {},
           born |-> 0, next |-> 0, held |-> {}]
NoTasks == [w \in Relay \cup {"main"} |-> NoTask]
NoClients == [clients |-> {}, failed |-> {}, open |-> [t \in Targets |-> 0]]

Fault == faults < MaxFaults /\ faults' = faults + 1

Init ==
    /\ relay = Relay /\ metadata = {} /\ now = 1 /\ disk \in {{}, Databases}
    /\ checkpoint = [r \in Relay |-> Never] /\ published = [k \in ToSet(Keys) |-> Never]
    /\ chunk_size \in ChunkSizes /\ phase = "idle" /\ shutdown = FALSE /\ key = 0
    /\ plan = <<>> /\ chunk = {} /\ successful = {} /\ failed = {}
    /\ records = {} /\ marks = {} /\ stamp = 0
    /\ task = NoTasks /\ cache = NoClients /\ readers = {} /\ faults = 0
    /\ checked = {}
    /\ displaced = [t \in Targets |-> 0] /\ deleted = {}

-----------------------------------------------------------------------------
(* cleanup() and the start of run() *)

\* delete_stale_checkpoints: those of relays that are gone (the ones of the
\* enabled periodic events are kept).
Cleanup ==
    /\ phase = "idle" /\ ~shutdown
    /\ checkpoint' = [r \in Relay |-> IF r \in relay THEN checkpoint[r] ELSE Never]
    /\ phase' = "geo"
    /\ UNCHANGED <<relay, published, metadata, disk, now, chunk_size, shutdown, key, chunked,
                   flush, task, cache, readers, faults, ghosts>>

\* update_geo_databases: a file that is missing or too old is downloaded.
UpdateGeoDatabases ==
    /\ phase = "geo"
    /\ disk' = disk \cup Databases
    /\ phase' = "open"
    /\ UNCHANGED <<tables, now, chunk_size, shutdown, key, chunked, flush, task, cache,
                   readers, faults, ghosts>>

\* A download fails: OSError and ValueError are logged, the other errors of
\* aiohttp (a status of 400 or above, a dropped connection) are neither.
DownloadFails(suppressed) ==
    /\ phase = "geo" /\ Databases # {}
    /\ Fault
    /\ disk' \in SUBSET (disk \cup Databases) /\ disk \subseteq disk'
    /\ phase' = IF suppressed THEN "open" ELSE "idle"
    /\ UNCHANGED <<tables, now, chunk_size, shutdown, key, chunked, flush, task, cache,
                   readers, ghosts>>

\* geo_readers.open, before the try of run(): a missing file raises, and the
\* reader that was opened before it stays.
OpenReaders ==
    /\ phase = "open"
    /\ IF Databases \subseteq disk
       THEN readers' = Databases /\ phase' = "publish" /\ key' = 1
       ELSE /\ readers' = readers \cup (disk \cap Databases \cap {"city"})
            /\ phase' = "idle" /\ UNCHANGED key
    /\ UNCHANGED <<tables, disk, now, chunk_size, shutdown, chunked, flush, task, cache,
                   faults, ghosts>>

-----------------------------------------------------------------------------
(* Clients *)

\* get_many(Target[i..]): targets that are cached or marked failed need no
\* await; the first other one is connected to.
GetMany(w, c, i, held) ==
    LET unknown == {j \in i..Len(Target) : Target[j] \notin c.clients \cup c.failed}
        stop == IF unknown = {} THEN Len(Target) + 1 ELSE Min(unknown)
    IN  [task EXCEPT ![w].step = IF unknown = {} THEN "sending" ELSE "connecting",
                     ![w].next = stop,
                     ![w].held = held \cup (c.clients \cap {Target[j] : j \in i..(stop - 1)})]

\* A worker has yielded (relay, result), or (relay, None) because there was no
\* data ("failed") or an exception ("raised"); run() has no result.
Yields(w, step) ==
    /\ task' = [task EXCEPT ![w] = [NoTask EXCEPT !.step = step, !.got = task[w].got,
                                                  !.born = task[w].born]]
    /\ successful' = IF step = "yielded" THEN successful \cup {w} ELSE successful
    /\ failed' = IF step \in {"failed", "raised"} THEN failed \cup {w} ELSE failed

\* Mutant: no boundary; _run_worker logs the exception and yields nothing.
RaisesSilently(w) ==
    /\ IF w = "main" THEN Yields(w, "none") /\ phase' = "ending"
                     ELSE Yields(w, "silent") /\ phase' = phase
    /\ UNCHANGED <<plan, chunk>>

\* An exception ends run() through its finally, or is turned into
\* (relay, None) by the worker's boundary (check_relay makes an empty result of
\* OSError and TimeoutError itself): what the check had got is dropped.
Raises(w) ==
    /\ IF w = "main" THEN Yields(w, "none") /\ phase' = "ending"
                     ELSE Yields(w, "raised") /\ phase' = phase
    /\ UNCHANGED <<plan, chunk>>

\* Clients.get after its await: connect_relay returned a client.
ClientConnected(w) ==
    /\ task[w].step = "connecting"
    /\ LET t == Target[task[w].next]
           c == [cache EXCEPT !.clients = @ \cup {t}, !.open[t] = @ + 1]
       IN  /\ cache' = c
           /\ task' = GetMany(w, c, task[w].next + 1, task[w].held \cup {t})
           /\ displaced' = IF t \in cache.clients THEN [displaced EXCEPT ![t] = @ + 1]
                           ELSE displaced
    /\ UNCHANGED <<tables, disk, now, chunk_size, phase, shutdown, key, chunked, flush,
                   readers, faults, checked, deleted>>

\* ... or OSError or TimeoutError.
ClientRefused(w) ==
    /\ task[w].step = "connecting"
    /\ LET c == [cache EXCEPT !.failed = @ \cup {Target[task[w].next]}]
       IN  cache' = c /\ task' = GetMany(w, c, task[w].next + 1, task[w].held)
    /\ UNCHANGED <<tables, disk, now, chunk_size, phase, shutdown, key, chunked, flush,
                   readers, faults, ghosts>>

\* ... or another exception, of the connection or of a send.
ClientRaises(w) ==
    /\ task[w].step \in {"connecting", "sending"}
    /\ task[w].step = "sending" => task[w].held # {}
    /\ Fault
    /\ Raises(w)
    /\ UNCHANGED <<tables, disk, now, chunk_size, shutdown, key, flush, cache, readers, ghosts>>

-----------------------------------------------------------------------------
(* Periodic events *)

\* is_publish_due
PublishDue(k) == published[k] = Never \/ now - published[k] >= KeyInterval

\* publish_profile, publish_relay_list, publish_announcement, up to the
\* connections.
Publish ==
    /\ phase = "publish" /\ task["main"].step = "none"
    /\ IF key > Len(Keys) THEN phase' = "fetch" /\ UNCHANGED <<key, task>>
       ELSE IF Target # <<>> /\ PublishDue(Keys[key])
            THEN task' = GetMany("main", cache, 1, {}) /\ UNCHANGED <<key, phase>>
            ELSE key' = key + 1 /\ UNCHANGED <<task, phase>>
    /\ UNCHANGED <<tables, disk, now, chunk_size, shutdown, chunked, flush, cache, readers,
                   faults, ghosts>>

\* broadcast_events: the clients in `reached' got the event; with none there
\* is no checkpoint.
Broadcast(reached) ==
    /\ task["main"].step = "sending" /\ reached \subseteq task["main"].held
    /\ Yields("main", "none")
    /\ IF reached = {} THEN key' = key + 1 /\ UNCHANGED phase
       ELSE phase' = "saving" /\ UNCHANGED key
    /\ UNCHANGED <<tables, disk, now, chunk_size, shutdown, plan, chunk, flush, cache, readers,
                   faults, ghosts>>

\* upsert_publish_checkpoints
SavePublished ==
    /\ phase = "saving"
    /\ published' = [published EXCEPT ![Keys[key]] = now]
    /\ key' = key + 1
    /\ phase' = "publish"
    /\ UNCHANGED <<relay, checkpoint, metadata, disk, now, chunk_size, shutdown, chunked, flush,
                   task, cache, readers, faults, ghosts>>

-----------------------------------------------------------------------------
(* Health checks *)

Due == {r \in relay : checkpoint[r] = Never \/ checkpoint[r] + Interval < now}

\* The order of fetch_relays_to_monitor: least recently monitored first, and
\* then by discovered_at.
Sooner(r, s) ==
    \/ checkpoint[r] < checkpoint[s]
    \/ /\ checkpoint[r] = checkpoint[s]
       /\ \E i, j \in DOMAIN Found : i < j /\ Found[i] = r /\ Found[j] = s

\* fetch_relays_to_monitor, cut to max_relays.
FetchRelays ==
    /\ phase = "fetch"
    /\ \E all \in [1..Cardinality(Due) -> Due] :
          /\ \A i, j \in DOMAIN all : i < j => Sooner(all[i], all[j])
          /\ plan' = SubSeq(all, 1, Min({MaxRelays, Len(all)}))
    /\ phase' = "chunks"
    /\ UNCHANGED <<tables, disk, now, chunk_size, shutdown, key, chunk, successful, failed,
                   flush, task, cache, readers, faults, ghosts>>

\* The head of the loop over chunks, and _iter_concurrent's tasks.
NextChunk ==
    /\ phase = "chunks"
    /\ IF plan = <<>> \/ shutdown
       THEN phase' = "ending" /\ UNCHANGED <<plan, chunk, task>>
       ELSE LET n == Min({chunk_size, Len(plan)})
            IN  /\ chunk' = ToSet(SubSeq(plan, 1, n))
                /\ plan' = SubSeq(plan, n + 1, Len(plan))
                /\ task' = [w \in DOMAIN task |->
                              IF w \in chunk' THEN [NoTask EXCEPT !.step = "queued"] ELSE NoTask]
                /\ phase' = "checking"
    /\ successful' = {} /\ failed' = {} /\ deleted' = {}
    /\ UNCHANGED <<tables, disk, now, chunk_size, shutdown, key, flush, cache, readers, faults,
                   checked, displaced>>

Holding(network) ==
    {r \in chunk : Network[r] = network
                   /\ task[r].step \in {"checking", "connecting", "sending"}}

\* _build_parallel_checks, and the two checks before it.
Applicable(r) ==
    {c \in Compute : /\ c \in ClearnetOnly => Network[r] = "clearnet"
                     /\ c = "nip66_geo" => "city" \in readers
                     /\ c = "nip66_net" => "asn" \in readers}

\* The worker gets its network's semaphore.
StartCheck(r) ==
    /\ task[r].step = "queued"
    /\ Cardinality(Holding(Network[r])) < MaxTasks[Network[r]]
    /\ task' = [task EXCEPT ![r].step = "checking", ![r].todo = Applicable(r), ![r].born = now]
    /\ checked' = checked \cup {r}
    /\ UNCHANGED <<tables, disk, now, chunk_size, phase, shutdown, key, chunked, flush, cache,
                   readers, faults, displaced, deleted>>

\* NIP-11 first, then the round trip, then the others in parallel.
Ready(r) ==
    LET todo == task[r].todo
    IN  IF "nip11_info" \in todo THEN {"nip11_info"}
        ELSE IF "nip66_rtt" \in todo THEN {"nip66_rtt"} ELSE todo

\* retry_fetch after one attempt: `result' says whether there is metadata,
\* `success' what its logs say.
Attempt(r, c, result, success) ==
    /\ task[r].step = "checking" /\ c \in Ready(r) /\ (success => result)
    /\ IF ~success /\ task[r].tries[c] < Retries[c] /\ ~shutdown
       THEN task' = [task EXCEPT ![r].tries[c] = @ + 1]
       ELSE LET kept == result /\ (success \/ task[r].tries[c] = Retries[c])
            IN  task' = [task EXCEPT ![r].todo = @ \ {c},
                                     ![r].got = IF kept THEN @ \cup {c} ELSE @]
    /\ UNCHANGED <<tables, disk, now, chunk_size, phase, shutdown, key, chunked, flush, cache,
                   readers, faults, ghosts>>

\* An exception that retry_fetch lets through: gather returns it for a
\* parallel check, it ends check_relay for the first two.
CheckRaises(r, c) ==
    /\ task[r].step = "checking" /\ c \in Ready(r)
    /\ Fault
    /\ IF c \in {"nip11_info", "nip66_rtt"} THEN Raises(r)
       ELSE task' = [task EXCEPT ![r].todo = @ \ {c}] /\ UNCHANGED <<chunked, phase>>
    /\ UNCHANGED <<tables, disk, now, chunk_size, shutdown, key, flush, cache, readers, ghosts>>

\* check_relay returns; publish_discovery up to the connections.
CheckDone(r) ==
    /\ task[r].step = "checking" /\ task[r].todo = {}
    /\ IF task[r].got = {} THEN Yields(r, "failed")
       ELSE IF ~Discovery \/ Target = <<>> THEN Yields(r, "yielded")
       ELSE task' = GetMany(r, cache, 1, {}) /\ UNCHANGED <<successful, failed>>
    /\ UNCHANGED <<tables, disk, now, chunk_size, phase, shutdown, key, plan, chunk, flush,
                   cache, readers, faults, ghosts>>

\* The discovery event is sent, or not: the result is yielded.
DiscoveryDone(r) ==
    /\ task[r].step = "sending"
    /\ Yields(r, "yielded")
    /\ UNCHANGED <<tables, disk, now, chunk_size, phase, shutdown, key, plan, chunk, flush,
                   cache, readers, faults, ghosts>>

-----------------------------------------------------------------------------
(* Results *)

Ended == {"yielded", "failed", "raised"}

\* Mutant: collect_metadata takes what was computed, not what is to be stored.
ChunkCheckedComputed ==
    /\ phase = "checking"
    /\ \A r \in chunk : task[r].step \in Ended \cup {"silent"}
    /\ records' = UNION {{<<r, c, task[r].born>> : c \in task[r].got} : r \in successful}
    /\ phase' = "inserting"
    /\ UNCHANGED <<tables, disk, now, chunk_size, shutdown, key, chunked, marks, stamp, task,
                   cache, readers, faults, ghosts>>

\* The generator is exhausted: collect_metadata.
ChunkChecked ==
    /\ phase = "checking"
    /\ \A r \in chunk : task[r].step \in Ended \cup {"silent"}
    /\ records' = {<<r, c, task[r].born>> : r \in successful, c \in Store}
                  \cap UNION {{<<r, c, task[r].born>> : c \in task[r].got} : r \in successful}
    /\ phase' = "inserting"
    /\ UNCHANGED <<tables, disk, now, chunk_size, shutdown, key, chunked, marks, stamp, task,
                   cache, readers, faults, ghosts>>

Batch(set, batch) ==
    batch \subseteq set /\ Cardinality(batch) = Min({BatchSize, Cardinality(set)})

\* Mutant: only the first batch is inserted.
InsertFirstBatch ==
    /\ phase = "inserting"
    /\ \E batch \in SUBSET records :
          /\ Batch(records, batch)
          /\ metadata' = metadata \cup batch /\ relay' = relay \cup {b[1] : b \in batch}
    /\ records' = {} /\ phase' = "marking" /\ marks' = successful \cup failed /\ stamp' = now
    /\ UNCHANGED <<checkpoint, published, disk, now, chunk_size, shutdown, key, chunked, task,
                   cache, readers, faults, ghosts>>

\* insert_relay_metadata, a batch at a time, with cascade: a relay that was
\* deleted meanwhile is there again.  Then the checkpoints are next.
InsertMetadata ==
    /\ phase = "inserting"
    /\ \E batch \in SUBSET records :
          /\ Batch(records, batch)
          /\ metadata' = metadata \cup batch /\ relay' = relay \cup {b[1] : b \in batch}
          /\ records' = records \ batch
    /\ IF records' = {}
       THEN phase' = "marking" /\ marks' = successful \cup failed /\ stamp' = now
       ELSE UNCHANGED <<phase, marks, stamp>>
    /\ UNCHANGED <<checkpoint, published, disk, now, chunk_size, shutdown, key, chunked, task,
                   cache, readers, faults, ghosts>>

\* Mutant: a failed relay gets no checkpoint.
MarkSuccessful ==
    /\ phase = "marking"
    /\ checkpoint' = [r \in Relay |-> IF r \in successful THEN stamp ELSE checkpoint[r]]
    /\ marks' = {} /\ stamp' = 0 /\ phase' = "chunks" /\ chunk' = {} /\ task' = NoTasks
    /\ UNCHANGED <<relay, published, metadata, disk, now, chunk_size, shutdown, key, plan,
                   successful, failed, records, cache, readers, faults, ghosts>>

\* upsert_monitor_checkpoints, a batch at a time.
MarkChecked ==
    /\ phase = "marking"
    /\ \E batch \in SUBSET marks :
          /\ Batch(marks, batch)
          /\ checkpoint' = [r \in Relay |-> IF r \in batch THEN stamp ELSE checkpoint[r]]
          /\ marks' = marks \ batch
    /\ IF marks' = {} THEN phase' = "chunks" /\ stamp' = 0 /\ chunk' = {} /\ task' = NoTasks
       ELSE UNCHANGED <<phase, stamp, chunk, task>>
    /\ UNCHANGED <<relay, published, metadata, disk, now, chunk_size, shutdown, key, plan,
                   successful, failed, records, cache, readers, faults, ghosts>>

\* A query raises.
DatabaseFails ==
    /\ phase \in {"publish", "saving", "fetch", "inserting", "marking"}
    /\ task["main"].step = "none"
    /\ Fault
    /\ phase' = "ending"
    /\ UNCHANGED <<tables, disk, now, chunk_size, shutdown, key, chunked, flush, task, cache,
                   readers, ghosts>>

\* Mutant: the clients are disconnected after monitor(), not in a finally.
EndCycleNoFinally ==
    /\ phase = "ending"
    /\ cache' = IF key > Len(Keys)
                THEN [NoClients EXCEPT !.open =
                        [t \in Targets |-> cache.open[t] - (IF t \in cache.clients THEN 1 ELSE 0)]]
                ELSE [cache EXCEPT !.clients = {}, !.failed = {}]
    /\ readers' = {} /\ phase' = "idle" /\ key' = 0
    /\ plan' = <<>> /\ chunk' = {} /\ successful' = {} /\ failed' = {}
    /\ records' = {} /\ marks' = {} /\ stamp' = 0 /\ task' = NoTasks
    /\ UNCHANGED <<tables, disk, now, chunk_size, shutdown, faults, ghosts>>

\* The finally of run(): Clients.disconnect shuts down what _clients holds
\* (errors are suppressed) and forgets everything; the readers are closed.
EndCycle ==
    /\ phase = "ending"
    /\ cache' = [NoClients EXCEPT !.open =
                    [t \in Targets |-> cache.open[t] - (IF t \in cache.clients THEN 1 ELSE 0)]]
    /\ readers' = {} /\ phase' = "idle" /\ key' = 0
    /\ plan' = <<>> /\ chunk' = {} /\ successful' = {} /\ failed' = {}
    /\ records' = {} /\ marks' = {} /\ stamp' = 0 /\ task' = NoTasks
    /\ UNCHANGED <<tables, disk, now, chunk_size, shutdown, faults, ghosts>>

-----------------------------------------------------------------------------
(* The environment *)

\* request_shutdown
Shutdown ==
    /\ ~shutdown /\ phase # "idle"
    /\ Fault
    /\ shutdown' = TRUE
    /\ UNCHANGED <<tables, disk, now, chunk_size, phase, key, chunked, flush, task, cache,
                   readers, ghosts>>

NewProcess ==
    /\ phase' = "idle" /\ shutdown' = FALSE /\ key' = 0
    /\ plan' = <<>> /\ chunk' = {} /\ successful' = {} /\ failed' = {}
    /\ records' = {} /\ marks' = {} /\ stamp' = 0
    /\ task' = NoTasks /\ cache' = NoClients /\ readers' = {}
    /\ displaced' = [t \in Targets |-> 0] /\ deleted' = {}
    /\ UNCHANGED <<tables, disk, now, chunk_size, checked>>

\* The process dies, or stops after a shutdown, and is started again.
Crash == phase # "idle" /\ Fault /\ NewProcess
Restart == phase = "idle" /\ shutdown /\ NewProcess /\ UNCHANGED faults

\* An operator deletes a relay.
DeleteRelay(r) ==
    /\ r \in relay
    /\ Fault
    /\ relay' = relay \ {r}
    /\ metadata' = {m \in metadata : m[1] # r}
    /\ deleted' = deleted \cup {r}
    /\ UNCHANGED <<checkpoint, published, disk, now, chunk_size, phase, shutdown, key, chunked,
                   flush, task, cache, readers, checked, displaced>>

Tick ==
    /\ now < MaxNow
    /\ now' = now + 1
    /\ UNCHANGED <<tables, disk, chunk_size, phase, shutdown, key, chunked, flush, task, cache,
                   readers, faults, ghosts>>

-----------------------------------------------------------------------------

MainStep ==
    \/ Cleanup \/ UpdateGeoDatabases \/ OpenReaders
    \/ Publish \/ (\E reached \in SUBSET Targets : Broadcast(reached)) \/ SavePublished
    \/ FetchRelays \/ NextChunk \/ ChunkChecked \/ InsertMetadata \/ MarkChecked \/ EndCycle
    \/ Restart

WorkerStep(r) ==
    \/ StartCheck(r)
    \/ \E c \in Compute, result, success \in BOOLEAN : Attempt(r, c, result, success)
    \/ CheckDone(r) \/ DiscoveryDone(r)

ClientStep(w) == ClientConnected(w) \/ ClientRefused(w)

Failure ==
    \/ \E suppressed \in BOOLEAN : DownloadFails(suppressed)
    \/ \E w \in DOMAIN task : ClientRaises(w)
    \/ \E r \in Relay, c \in Compute : CheckRaises(r, c)
    \/ DatabaseFails \/ Shutdown \/ Crash
    \/ \E r \in Relay : DeleteRelay(r)

Step ==
    \/ MainStep
    \/ \E r \in Relay : WorkerStep(r)
    \/ \E w \in DOMAIN task : ClientStep(w)

Next == Step \/ Failure \/ Tick

Spec == Init /\ [][Next]_vars

\* The event loop runs: run_forever starts the next cycle, and connections,
\* checks and statements end, each with its own timeout.
FairSpec == Spec /\ WF_vars(Step)

-----------------------------------------------------------------------------
(* Properties *)

Phases == {"idle", "geo", "open", "publish", "saving", "fetch", "chunks", "checking",
           "inserting", "marking", "ending"}
Steps == {"none", "queued", "checking", "connecting", "sending"} \cup Ended

TypeOK ==
    /\ relay \subseteq Relay /\ checkpoint \in [Relay -> 0..MaxNow]
    /\ published \in [ToSet(Keys) -> 0..MaxNow] /\ disk \subseteq Databases
    /\ metadata \subseteq Relay \X Store \X (1..MaxNow) /\ phase \in Phases
    /\ shutdown \in BOOLEAN /\ key \in 0..(Len(Keys) + 1) /\ plan \in Seq(Relay)
    /\ chunk \subseteq Relay /\ successful \cup failed \subseteq Relay
    /\ records \subseteq Relay \X Store \X (1..MaxNow) /\ marks \subseteq Relay
    /\ stamp \in 0..MaxNow /\ readers \subseteq Databases /\ faults \in 0..MaxFaults
    /\ \A w \in DOMAIN task : task[w].step \in Steps /\ task[w].held \subseteq Targets
    /\ cache.clients \cup cache.failed \subseteq Targets

\* A relay is marked as monitored only when everything its check produced
\* and the configuration stores is in the database, whatever batch failed and
\* wherever the process died.  Two things lose it: the relay was deleted in
\* between, or an exception ended the check after it had got something, or the
\* publication of its discovery event, and the worker yielded (relay, None).
MetadataBeforeCheckpoint ==
    [][\A r \in (marks \ marks') \ deleted :
          /\ phase = "marking" /\ phase' \in {"marking", "chunks"}
          /\ task[r].step # "raised"
          => \A c \in task[r].got \cap Store : <<r, c, task[r].born>> \in metadata]_vars

\* "Yields exactly once -- never raises": whatever a worker meets, each relay
\* of the chunk has one result when the results are used.
ChunkAccounted ==
    phase \in {"inserting", "marking"} =>
        successful \cup failed = chunk /\ successful \cap failed = {}

\* Connections are "torn down in the finally block": the only clients that
\* outlive a cycle, however it ends, are those that a second connection to
\* the same relay displaced from the pool.
ClientsTornDown == phase = "idle" => cache.open = displaced

\* Every relay is checked: those that fail, and those that keep being due, do
\* not crowd the others out of max_relays.
EventuallyChecked == \A r \in Relay : <>(r \in checked \/ r \notin relay)

\* "Download failures are logged and suppressed so that a transient network
\* error does not prevent the monitor cycle from proceeding with a stale (or
\* missing) database."
DownloadFailureTolerated ==
    [][(phase \in {"geo", "open"}) /\ ~Crash => phase' # "idle"]_vars
=============================================================================
