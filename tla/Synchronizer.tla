---------------------------- MODULE Synchronizer ----------------------------
(***************************************************************************)
(* The Synchronizer service: services/synchronizer/service.py and          *)
(* queries.py over _iter_concurrent of services/common/mixins.py.          *)
(*                                                                         *)
(* A cycle reads one cursor per relay, starts one worker per relay and     *)
(* consumes their events from a shared queue.  Events collect in a global  *)
(* buffer; a full buffer is inserted in chunks, then the cursors of the    *)
(* relays in it are upserted in chunks.  Workers keep running while the    *)
(* consumer waits for the database.  Everything but the database tables is *)
(* lost in a crash or when an exception ends the cycle.                    *)
(*                                                                         *)
(* A worker's stream is used through what OrderedDelivery promises: the    *)
(* relay's history in (created_at, id) order, nothing passed over, ended   *)
(* anywhere.  StreamEvents is shown to implement that promise.             *)
(***************************************************************************)
EXTENDS EventOrder, FiniteSets

CONSTANTS
    Relay,      \* relays on the enabled networks
    Network,    \* their networks
    NetworkOf,  \* the network of each relay
    MaxTasks,   \* semaphore of each network
    History,    \* the events each relay holds, pairs <<created_at, id>>
    BatchSize,  \* processing.batch_size
    ChunkSize,  \* brotr.config.batch.max_size
    MaxEnd,     \* bound: the last value of get_end_time()
    MaxFaults   \* bound: crashes, errors, timeouts and shutdowns together

ASSUME SyncAssumption ==
    /\ NetworkOf \in [Relay -> Network]
    /\ MaxTasks \in [Network -> Nat \ {0}]
    /\ \A r \in Relay : History[r] \subseteq (Nat \X (Nat \ {0}))
    /\ BatchSize \in Nat \ {0}
    /\ ChunkSize \in Nat \ {0}
    /\ MaxEnd \in Nat /\ MaxFaults \in Nat

VARIABLES
    relays,    \* table relay
    stored,    \* table event_relay: pairs <<relay, event>>
    cursor,    \* table service_state: position of each relay
    end_time,  \* get_end_time() now
    running,   \* is_running
    phase,     \* where run_forever and synchronize are
    worker,    \* state of each relay's worker
    from,      \* cursor.timestamp given to each worker
    until,     \* end time each worker read when it connected
    last,      \* last event each worker yielded
    queue,     \* _iter_concurrent: results not consumed yet
    buffer,    \* synchronize: events not inserted yet
    pending,   \* synchronize: pending_cursors
    faults     \* ghost: faults so far

dbVars == <<relays, stored, cursor>>
workerVars == <<worker, from, until, last>>
vars == <<relays, stored, cursor, end_time, running, phase, worker, from,
          until, last, queue, buffer, pending, faults>>

-----------------------------------------------------------------------------
(* Cursors and cycles *)

\* SyncCursor's defaults: before every event.
NoCursor == <<0, 0>>

Events == UNION {History[r] : r \in Relay}

\* A worker that still belongs to the cycle's TaskGroup.
Active(r) == worker[r] \in {"waiting", "streaming"}

\* The local state of synchronize() and its workers when no cycle runs.
NoCycle ==
    /\ worker' = [r \in Relay |-> "none"]
    /\ from' = [r \in Relay |-> 0]
    /\ until' = [r \in Relay |-> 0]
    /\ last' = [r \in Relay |-> NoCursor]
    /\ queue' = <<>>
    /\ buffer' = <<>>
    /\ pending' = [r \in Relay |-> NoCursor]

\* Every fault is counted, so that runs with finitely many can be checked.
Fault == faults < MaxFaults /\ faults' = faults + 1

Init ==
    /\ relays \in SUBSET Relay
    /\ stored = {}
    /\ cursor = [r \in Relay |-> NoCursor]
    /\ end_time = 0
    /\ running = TRUE
    /\ phase = "idle"
    /\ worker = [r \in Relay |-> "none"]
    /\ from = [r \in Relay |-> 0]
    /\ until = [r \in Relay |-> 0]
    /\ last = [r \in Relay |-> NoCursor]
    /\ queue = <<>>
    /\ buffer = <<>>
    /\ pending = [r \in Relay |-> NoCursor]
    /\ faults = 0

\* Wall clock: get_end_time() grows.
Tick ==
    /\ end_time < MaxEnd
    /\ end_time' = end_time + 1
    /\ UNCHANGED <<dbVars, running, phase, workerVars, queue, buffer, pending, faults>>

\* The Validator promotes a relay.
RelayPromoted(r) ==
    /\ r \notin relays
    /\ relays' = relays \cup {r}
    /\ UNCHANGED <<stored, cursor, end_time, running, phase, workerVars, queue,
                   buffer, pending, faults>>

\* cleanup(): delete_stale_cursors.
Cleanup ==
    /\ phase = "idle"
    /\ running
    /\ cursor' = [r \in Relay |-> IF r \in relays THEN cursor[r] ELSE NoCursor]
    /\ phase' = "cleaned"
    /\ UNCHANGED <<relays, stored, end_time, running, workerVars, queue, buffer,
                   pending, faults>>

\* Mutant: workers start from the epoch, not from their cursor.
FetchCursorsFromZero ==
    /\ phase = "cleaned"
    /\ worker' = [r \in Relay |->
                    IF r \in relays /\ cursor[r][1] <= end_time THEN "waiting" ELSE "none"]
    /\ from' = [r \in Relay |-> 0]
    /\ phase' = "stream"
    /\ UNCHANGED <<dbVars, end_time, running, until, last, queue, buffer, pending, faults>>

\* fetch_cursors_to_sync, then the TaskGroup of _iter_concurrent.
FetchCursors ==
    /\ phase = "cleaned"
    /\ worker' = [r \in Relay |->
                    IF r \in relays /\ cursor[r][1] <= end_time THEN "waiting" ELSE "none"]
    /\ from' = [r \in Relay |-> cursor[r][1]]
    /\ phase' = "stream"
    /\ UNCHANGED <<dbVars, end_time, running, until, last, queue, buffer, pending, faults>>

-----------------------------------------------------------------------------
(* _synchronize_worker *)

SlotFree(n) ==
    Cardinality({r \in Relay : worker[r] = "streaming" /\ NetworkOf[r] = n}) < MaxTasks[n]

\* Mutant: the end time itself is left out.
WorkerConnectExclusive(r) ==
    /\ worker[r] = "waiting"
    /\ SlotFree(NetworkOf[r])
    /\ running
    /\ worker' = [worker EXCEPT ![r] = "streaming"]
    /\ until' = [until EXCEPT ![r] = IF end_time = 0 THEN 0 ELSE end_time - 1]
    /\ UNCHANGED <<dbVars, end_time, running, phase, from, last, queue, buffer,
                   pending, faults>>

\* async with semaphore, connect_relay succeeds.
WorkerConnect(r) ==
    /\ worker[r] = "waiting"
    /\ SlotFree(NetworkOf[r])
    /\ running
    /\ worker' = [worker EXCEPT ![r] = "streaming"]
    /\ until' = [until EXCEPT ![r] = end_time]
    /\ UNCHANGED <<dbVars, end_time, running, phase, from, last, queue, buffer,
                   pending, faults>>

\* The worker gets the semaphore after a shutdown was requested: it returns.
WorkerSkip(r) ==
    /\ worker[r] = "waiting"
    /\ SlotFree(NetworkOf[r])
    /\ ~running
    /\ worker' = [worker EXCEPT ![r] = "finished"]
    /\ UNCHANGED <<dbVars, end_time, running, phase, from, until, last, queue,
                   buffer, pending, faults>>

\* connect_relay fails, or the stream raises or is abandoned: the worker
\* logs it and ends.
WorkerError(r) ==
    /\ \/ worker[r] = "waiting" /\ SlotFree(NetworkOf[r]) /\ running
       \/ worker[r] = "streaming"
    /\ Fault
    /\ worker' = [worker EXCEPT ![r] = "finished"]
    /\ UNCHANGED <<dbVars, end_time, running, phase, from, until, last, queue,
                   buffer, pending>>

\* What the worker's stream has still to deliver.
Due(r) ==
    {e \in History[r] : from[r] <= e[1] /\ e[1] <= until[r] /\ Precedes(last[r], e)}

\* The next event of the stream is put on the queue, which has no limit.
WorkerYield(r) ==
    /\ worker[r] = "streaming"
    /\ \E e \in Due(r) :
          /\ \A x \in Due(r) : UpTo(e, x)
          /\ queue' = Append(queue, <<r, e>>)
          /\ last' = [last EXCEPT ![r] = e]
    /\ UNCHANGED <<dbVars, end_time, running, phase, worker, from, until, buffer,
                   pending, faults>>

WorkerDone(r) ==
    /\ worker[r] = "streaming"
    /\ Due(r) = {}
    /\ worker' = [worker EXCEPT ![r] = "finished"]
    /\ UNCHANGED <<dbVars, end_time, running, phase, from, until, last, queue,
                   buffer, pending, faults>>

-----------------------------------------------------------------------------
(* synchronize(): the consumer *)

\* Mutant: the pending cursor is set to the (event, relay) pair.
ConsumePair ==
    /\ phase = "stream"
    /\ queue # <<>>
    /\ queue' = Tail(queue)
    /\ buffer' = Append(buffer, Head(queue))
    /\ pending' = [pending EXCEPT ![Head(queue)[1]] = Head(queue)]
    /\ phase' = IF Len(buffer) + 1 = BatchSize THEN "insert" ELSE "stream"
    /\ UNCHANGED <<dbVars, end_time, running, workerVars, faults>>

\* One (event, relay) pair: append it and move the relay's pending cursor; a
\* full buffer is flushed at once.
Consume ==
    /\ phase = "stream"
    /\ queue # <<>>
    /\ queue' = Tail(queue)
    /\ buffer' = Append(buffer, Head(queue))
    /\ pending' = [pending EXCEPT ![Head(queue)[1]] = Head(queue)[2]]
    /\ phase' = IF Len(buffer) + 1 = BatchSize THEN "insert" ELSE "stream"
    /\ UNCHANGED <<dbVars, end_time, running, workerVars, faults>>

\* The None that follows the last result: all workers are done, the queue is
\* drained.  What is left in the buffer is flushed after the loop.
StreamEnds ==
    /\ phase = "stream"
    /\ queue = <<>>
    /\ \A r \in Relay : ~Active(r)
    /\ phase' = "final_insert"
    /\ UNCHANGED <<dbVars, end_time, running, workerVars, queue, buffer, pending, faults>>

Inserting == phase \in {"insert", "final_insert"}
Upserting == phase \in {"upsert", "final_upsert"}

\* One chunk of batched_insert: event_relay_insert_cascade stores the relays,
\* the events and the junction rows in one transaction.
InsertChunk ==
    /\ Inserting
    /\ buffer # <<>>
    /\ LET k == IF Len(buffer) < ChunkSize THEN Len(buffer) ELSE ChunkSize
           chunk == {buffer[i] : i \in 1..k}
       IN  /\ stored' = stored \cup chunk
           /\ relays' = relays \cup {p[1] : p \in chunk}
           /\ buffer' = SubSeq(buffer, k + 1, Len(buffer))
    /\ UNCHANGED <<cursor, end_time, running, phase, workerVars, queue, pending, faults>>

\* Mutant: cursors are saved before every chunk is inserted.
InsertDoneEarly ==
    /\ Inserting
    /\ phase' = IF phase = "insert" THEN "upsert" ELSE "final_upsert"
    /\ UNCHANGED <<dbVars, end_time, running, workerVars, queue, buffer, pending, faults>>

InsertDone ==
    /\ Inserting
    /\ buffer = <<>>
    /\ phase' = IF phase = "insert" THEN "upsert" ELSE "final_upsert"
    /\ UNCHANGED <<dbVars, end_time, running, workerVars, queue, buffer, pending, faults>>

PendingRelays == {r \in Relay : pending[r] # NoCursor}

\* Mutant: pending_cursors is cleared after the first chunk.
UpsertFirstChunk ==
    /\ Upserting
    /\ PendingRelays # {}
    /\ \E K \in SUBSET PendingRelays :
          /\ Cardinality(K) = (IF Cardinality(PendingRelays) < ChunkSize
                               THEN Cardinality(PendingRelays) ELSE ChunkSize)
          /\ cursor' = [r \in Relay |-> IF r \in K THEN pending[r] ELSE cursor[r]]
          /\ pending' = [r \in Relay |-> NoCursor]
    /\ UNCHANGED <<relays, stored, end_time, running, phase, workerVars, queue,
                   buffer, faults>>

\* One chunk of upsert_service_states.
UpsertChunk ==
    /\ Upserting
    /\ PendingRelays # {}
    /\ \E K \in SUBSET PendingRelays :
          /\ Cardinality(K) = (IF Cardinality(PendingRelays) < ChunkSize
                               THEN Cardinality(PendingRelays) ELSE ChunkSize)
          /\ cursor' = [r \in Relay |-> IF r \in K THEN pending[r] ELSE cursor[r]]
          /\ pending' = [r \in Relay |-> IF r \in K THEN NoCursor ELSE pending[r]]
    /\ UNCHANGED <<relays, stored, end_time, running, phase, workerVars, queue,
                   buffer, faults>>

\* The flush is complete and the deadline is not reached.
FlushDone ==
    /\ phase = "upsert"
    /\ PendingRelays = {}
    /\ phase' = "stream"
    /\ UNCHANGED <<dbVars, end_time, running, workerVars, queue, buffer, pending, faults>>

\* max_duration is exceeded after a flush: break.  The workers are cancelled
\* and whatever they have queued is dropped.
Deadline ==
    /\ phase = "upsert"
    /\ PendingRelays = {}
    /\ Fault
    /\ phase' = "idle"
    /\ NoCycle
    /\ UNCHANGED <<dbVars, end_time, running>>

CycleDone ==
    /\ phase = "final_upsert"
    /\ PendingRelays = {}
    /\ phase' = "idle"
    /\ NoCycle
    /\ UNCHANGED <<dbVars, end_time, running, faults>>

-----------------------------------------------------------------------------
(* Failures, shutdown and restart *)

\* A database call raises: run_forever catches the exception and the cycle
\* is over.  Chunks already written stay written.
DbError ==
    /\ phase \notin {"stream", "stopped"}
    /\ Fault
    /\ phase' = "idle"
    /\ NoCycle
    /\ UNCHANGED <<dbVars, end_time, running>>

\* The process is killed and started again.
Crash ==
    /\ phase # "stopped"
    /\ Fault
    /\ phase' = "idle"
    /\ running' = TRUE
    /\ NoCycle
    /\ UNCHANGED <<dbVars, end_time>>

\* SIGTERM: request_shutdown.  The cycle in progress is not interrupted.
Shutdown ==
    /\ running
    /\ Fault
    /\ running' = FALSE
    /\ UNCHANGED <<dbVars, end_time, phase, workerVars, queue, buffer, pending>>

Stop ==
    /\ phase = "idle"
    /\ ~running
    /\ phase' = "stopped"
    /\ UNCHANGED <<dbVars, end_time, running, workerVars, queue, buffer, pending, faults>>

Restart ==
    /\ phase = "stopped"
    /\ phase' = "idle"
    /\ running' = TRUE
    /\ UNCHANGED <<dbVars, end_time, workerVars, queue, buffer, pending, faults>>

-----------------------------------------------------------------------------

ConsumerStep ==
    \/ Cleanup \/ FetchCursors
    \/ Consume \/ StreamEnds
    \/ InsertChunk \/ InsertDone \/ UpsertChunk \/ FlushDone \/ CycleDone
    \/ Stop \/ Restart

WorkerStep(r) == WorkerConnect(r) \/ WorkerSkip(r) \/ WorkerYield(r) \/ WorkerDone(r)

Next ==
    \/ ConsumerStep
    \/ \E r \in Relay : WorkerStep(r) \/ WorkerError(r) \/ RelayPromoted(r)
    \/ Tick \/ Deadline \/ DbError \/ Crash \/ Shutdown

Spec == Init /\ [][Next]_vars

\* The event loop runs the consumer and every worker, time passes, and a
\* stopped service is started again.  Faults are finitely many.
Fairness ==
    /\ WF_vars(ConsumerStep)
    /\ \A r \in Relay : WF_vars(WorkerStep(r))
    /\ WF_vars(Tick)

FairSpec == Spec /\ Fairness

-----------------------------------------------------------------------------
(* Properties *)

Phases == {"idle", "cleaned", "stream", "insert", "upsert", "final_insert",
           "final_upsert", "stopped"}

TypeOK ==
    /\ relays \subseteq Relay
    /\ stored \subseteq Relay \X Events
    /\ cursor \in [Relay -> Events \cup {NoCursor}]
    /\ end_time \in Nat
    /\ running \in BOOLEAN
    /\ phase \in Phases
    /\ worker \in [Relay -> {"none", "waiting", "streaming", "finished"}]
    /\ from \in [Relay -> Nat]
    /\ until \in [Relay -> Nat]
    /\ last \in [Relay -> Events \cup {NoCursor}]
    /\ queue \in Seq(Relay \X Events)
    /\ buffer \in Seq(Relay \X Events)
    /\ pending \in [Relay -> Events \cup {NoCursor}]
    /\ faults \in Nat

\* The part of a relay's history up to a position.
Below(r, e) == {x \in History[r] : UpTo(x, e)}

\* Everything a relay holds up to its cursor is stored: whatever happens next
\* (crash, failed chunk, deadline, shutdown), the next cycle resumes at the
\* cursor and nothing is skipped.
CursorSafe == \A r \in Relay : \A x \in Below(r, cursor[r]) : <<r, x>> \in stored

\* A cursor's timestamp never goes back, although the events of its last
\* second are fetched again in every cycle and may set a smaller id.
CursorNeverBack == [][\A r \in Relay : cursor'[r][1] >= cursor[r][1]]_cursor

\* A cycle that reaches its end leaves nothing in memory that the tables do
\* not have: whatever a worker delivered is stored and its cursor is there.
NothingLeftBehind ==
    phase = "final_upsert" /\ PendingRelays = {} =>
      \A r \in Relay : last[r] # NoCursor =>
        cursor[r] = last[r] /\ \A x \in Below(r, last[r]) : <<r, x>> \in stored

\* Once faults stop, every event of every known relay up to the last end
\* time is stored and stays so.
AllSynced == \A r \in relays : \A x \in History[r] : x[1] <= MaxEnd => <<r, x>> \in stored
EventuallySynced == <>[]AllSynced
=============================================================================
