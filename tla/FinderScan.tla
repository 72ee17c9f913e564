----------------------------- MODULE FinderScan -----------------------------
(***************************************************************************)
(* The Finder service: services/finder/service.py, queries.py, utils.py.   *)
(*                                                                         *)
(* A cycle asks the API sources that are past their cooldown for relay     *)
(* URLs, then scans the rows of event_relay behind one cursor per relay    *)
(* for URLs in tags.  Both phases collect in memory and write in chunks:   *)
(* the API phase its checkpoints and then the URLs, the event phase the    *)
(* URLs and then its cursors.                                              *)
(*                                                                         *)
(* The Synchronizer goes on inserting rows.  A row's seen_at is taken when *)
(* the event is received, in whole seconds; the row is committed later.    *)
(***************************************************************************)
EXTENDS EventOrder, FiniteSets

CONSTANTS
    Relay,      \* relays whose rows are scanned
    EventId,    \* ids of events
    Url,        \* relay URLs
    Mentions,   \* the URLs in the tags of each event
    Source,     \* API sources, of this configuration or an earlier one
    Configured, \* the sources in the configuration
    Enabled,    \* the enabled ones; none if api.enabled is off
    Lists,      \* the URLs each source lists
    Cooldown,   \* api.cooldown
    ScanSize,   \* events.scan_size: rows of one page
    BatchSize,  \* events.batch_size: URLs buffered before a flush
    Parallel,   \* events.parallel_relays
    ChunkSize,  \* brotr.config.batch.max_size
    SplitSeconds,  \* rows of one second may be committed at different moments
    MaxTime,    \* bound: the last second in which rows are received
    MaxFaults   \* bound: crashes, errors, timeouts and shutdowns together

ASSUME FinderAssumption ==
    /\ EventId \subseteq Nat \ {0}
    /\ Mentions \in [EventId -> SUBSET Url]
    /\ Enabled \subseteq Configured /\ Configured \subseteq Source
    /\ Lists \in [Source -> SUBSET Url]
    /\ IsFiniteSet(Url) /\ IsFiniteSet(Relay) /\ IsFiniteSet(EventId)
    /\ Cooldown \in Nat \ {0}
    /\ ScanSize \in Nat \ {0} /\ BatchSize \in Nat \ {0}
    /\ Parallel \in Nat \ {0} /\ ChunkSize \in Nat \ {0}
    /\ SplitSeconds \in BOOLEAN
    /\ MaxTime \in Nat \ {0} /\ MaxFaults \in Nat

VARIABLES
    rows,      \* table event_relay: <<seen_at, event id>> of each relay
    known,     \* URLs that were ever inserted as candidates
    cursor,    \* table service_state: CURSOR row of each relay
    age,       \* table service_state: age of each source's CHECKPOINT row
    now,       \* the clock the Synchronizer reads
    running,   \* is_running
    pc,        \* where run_forever, find_from_api and find_from_events are
    todo,      \* sources past their cooldown, still to be fetched
    fresh,     \* pending_checkpoints: age of each source's answer
    buffer,    \* URLs not inserted yet
    size,      \* len(buffer): URLs of different rows are not deduplicated
    worker,    \* state of each relay's worker
    pos,       \* cursor of stream_event_relays: the last row yielded
    page,      \* rows fetched and not yielded yet
    more,      \* the last page was full, so another one is fetched
    queue,     \* _iter_concurrent: results not consumed yet
    pending,   \* pending_cursors
    faults     \* ghost: faults so far

tables == <<rows, known, cursor, age>>
api == <<todo, fresh>>
collected == <<buffer, size>>
scan == <<worker, pos, page, more, queue, pending>>
vars == <<tables, now, running, pc, api, collected, scan, faults>>

-----------------------------------------------------------------------------

Row == (1..MaxTime) \X EventId

\* FinderCursor's defaults: before every row.
NoCursor == <<0, 0>>

\* Ages are counted up to the cooldown; a missing checkpoint is that old.
Older(a) == IF a < Cooldown THEN a + 1 ELSE Cooldown

Fault == faults < MaxFaults /\ faults' = faults + 1

NoApi == todo' = {} /\ fresh' = << >>
NoBuffer == buffer' = {} /\ size' = 0
NoScan ==
    /\ worker' = [r \in Relay |-> "none"]
    /\ pos' = [r \in Relay |-> NoCursor]
    /\ page' = [r \in Relay |-> {}]
    /\ more' = [r \in Relay |-> TRUE]
    /\ queue' = <<>>
    /\ pending' = [r \in Relay |-> NoCursor]

\* Checkpoints may be left from an earlier run and configuration.
Init ==
    /\ rows = [r \in Relay |-> {}]
    /\ known = {}
    /\ cursor = [r \in Relay |-> NoCursor]
    /\ age \in [Source -> {0, Cooldown}]
    /\ now = 1
    /\ running = TRUE
    /\ pc = "idle"
    /\ todo = {} /\ fresh = << >>
    /\ buffer = {} /\ size = 0
    /\ worker = [r \in Relay |-> "none"]
    /\ pos = [r \in Relay |-> NoCursor]
    /\ page = [r \in Relay |-> {}]
    /\ more = [r \in Relay |-> TRUE]
    /\ queue = <<>>
    /\ pending = [r \in Relay |-> NoCursor]
    /\ faults = 0

\* A second passes.
Tick ==
    /\ now' = IF now < MaxTime THEN now + 1 ELSE now
    /\ age' = [s \in Source |-> Older(age[s])]
    /\ fresh' = [s \in DOMAIN fresh |-> Older(fresh[s])]
    /\ UNCHANGED <<rows, known, cursor, running, pc, todo, collected, scan, faults>>

\* One transaction of the Synchronizer.  A relay's rows are committed in the
\* order in which they were received, those of one second in one transaction
\* or, with SplitSeconds, in several.
RowsCommitted(r) ==
    /\ \E t \in 1..now, ids \in SUBSET (EventId \ {x[2] : x \in rows[r]}) :
          /\ ids # {}
          /\ \A x \in rows[r] : IF SplitSeconds THEN x[1] <= t ELSE x[1] < t
          /\ rows' = [rows EXCEPT ![r] = @ \cup ({t} \X ids)]
    /\ UNCHANGED <<known, cursor, age, now, running, pc, api, collected, scan, faults>>

-----------------------------------------------------------------------------
(* cleanup and find_from_api *)

\* delete_stale_api_checkpoints.  No service deletes a relay, so
\* delete_stale_cursors finds nothing.
Cleanup ==
    /\ pc = "idle"
    /\ running
    /\ age' = [s \in Source |-> IF s \in Configured THEN age[s] ELSE Cooldown]
    /\ pc' = "cleaned"
    /\ UNCHANGED <<rows, known, cursor, now, running, api, collected, scan, faults>>

\* fetch_api_checkpoints, and `now' for all cooldowns.
FetchCheckpoints ==
    /\ pc = "cleaned"
    /\ todo' = {s \in Enabled : age[s] >= Cooldown}
    /\ pc' = "sources"
    /\ UNCHANGED <<tables, now, running, fresh, collected, scan, faults>>

\* fetch_api succeeds.
FetchSource(s) ==
    /\ pc = "sources" /\ running
    /\ s \in todo
    /\ todo' = todo \ {s}
    /\ buffer' = buffer \cup Lists[s]
    /\ size' = size + Cardinality(Lists[s])
    /\ fresh' = [x \in DOMAIN fresh \cup {s} |-> IF x = s THEN 0 ELSE fresh[x]]
    /\ UNCHANGED <<tables, now, running, pc, scan, faults>>

\* It raises: the source is skipped and keeps its checkpoint.
FetchSourceFails(s) ==
    /\ pc = "sources" /\ running
    /\ s \in todo
    /\ Fault
    /\ todo' = todo \ {s}
    /\ UNCHANGED <<tables, now, running, pc, fresh, collected, scan>>

\* All sources are done, or a shutdown was requested.
SourcesDone ==
    /\ pc = "sources"
    /\ todo = {} \/ ~running
    /\ todo' = {}
    /\ pc' = "checkpoints"
    /\ UNCHANGED <<tables, now, running, fresh, collected, scan, faults>>

\* The chunks of a batch of S: the order of its records is not modelled.
Chunks(S) == {K \in SUBSET S : K # {} /\ (Cardinality(K) = ChunkSize \/ K = S)
                               /\ Cardinality(K) <= ChunkSize}

\* One chunk of upsert_api_checkpoints.
UpsertCheckpoints ==
    /\ pc = "checkpoints"
    /\ \E K \in Chunks(DOMAIN fresh) :
          /\ age' = [s \in Source |-> IF s \in K THEN fresh[s] ELSE age[s]]
          /\ fresh' = [s \in DOMAIN fresh \ K |-> fresh[s]]
    /\ UNCHANGED <<rows, known, cursor, now, running, pc, todo, collected, scan, faults>>

\* Mutant: the URLs of the API phase are not inserted.
CheckpointsDoneNoInsert ==
    /\ pc = "checkpoints"
    /\ DOMAIN fresh = {}
    /\ pc' = "cursors"
    /\ NoBuffer
    /\ UNCHANGED <<tables, now, running, api, scan, faults>>

CheckpointsDone ==
    /\ pc = "checkpoints"
    /\ DOMAIN fresh = {}
    /\ pc' = "api_insert"
    /\ UNCHANGED <<tables, now, running, api, collected, scan, faults>>

-----------------------------------------------------------------------------
(* insert_relays_as_candidates, for both phases *)

Inserting == pc \in {"api_insert", "insert", "final_insert"}

\* One chunk of the URLs _filter_new_relays lets through.
InsertCandidates ==
    /\ Inserting
    /\ \E K \in Chunks(buffer \ known) : known' = known \cup K
    /\ UNCHANGED <<rows, cursor, age, now, running, pc, api, collected, scan, faults>>

\* Mutant: the flush goes on before every chunk is inserted.
InsertDoneEarly ==
    /\ Inserting
    /\ NoBuffer
    /\ pc' = CASE pc = "api_insert"   -> "cursors"
               [] pc = "insert"       -> "upsert"
               [] pc = "final_insert" -> "final_upsert"
    /\ UNCHANGED <<tables, now, running, api, scan, faults>>

InsertDone ==
    /\ Inserting
    /\ buffer \subseteq known
    /\ NoBuffer
    /\ pc' = CASE pc = "api_insert"   -> "cursors"
               [] pc = "insert"       -> "upsert"
               [] pc = "final_insert" -> "final_upsert"
    /\ UNCHANGED <<tables, now, running, api, scan, faults>>

-----------------------------------------------------------------------------
(* find_from_events and its workers *)

\* fetch_cursors_to_find, then the TaskGroup of _iter_concurrent.
FetchCursors ==
    /\ pc = "cursors"
    /\ pos' = cursor
    /\ worker' = [r \in Relay |-> "waiting"]
    /\ pc' = "scan"
    /\ UNCHANGED <<tables, now, running, api, collected, page, more, queue, pending, faults>>

SlotFree == Cardinality({r \in Relay : worker[r] = "scanning"}) < Parallel

WorkerStart(r) ==
    /\ worker[r] = "waiting"
    /\ SlotFree
    /\ worker' = [worker EXCEPT ![r] = IF running THEN "scanning" ELSE "finished"]
    /\ UNCHANGED <<tables, now, running, pc, api, collected, pos, page, more, queue, pending,
                   faults>>

\* max_duration was exceeded before the worker began, max_relay_time after a
\* row, or the scan raised.
WorkerEnds(r) ==
    /\ \/ worker[r] = "waiting" /\ SlotFree
       \/ worker[r] = "scanning"
    /\ Fault
    /\ worker' = [worker EXCEPT ![r] = "finished"]
    /\ UNCHANGED <<tables, now, running, pc, api, collected, pos, page, more, queue, pending>>

\* scan_event_relay: the first ScanSize rows after the position.
FetchPage(r) ==
    /\ worker[r] = "scanning"
    /\ page[r] = {} /\ more[r]
    /\ LET after == {x \in rows[r] : Precedes(pos[r], x)}
       IN  \E K \in SUBSET after :
             /\ Cardinality(K) = IF Cardinality(after) < ScanSize
                                 THEN Cardinality(after) ELSE ScanSize
             /\ \A k \in K, x \in after \ K : Precedes(k, x)
             /\ page' = [page EXCEPT ![r] = K]
             /\ more' = [more EXCEPT ![r] = Cardinality(K) = ScanSize]
    /\ UNCHANGED <<tables, now, running, pc, api, collected, worker, pos, queue, pending,
                   faults>>

WorkerYield(r) ==
    /\ worker[r] = "scanning"
    /\ \E x \in page[r] :
          /\ \A y \in page[r] : UpTo(x, y)
          /\ page' = [page EXCEPT ![r] = @ \ {x}]
          /\ pos' = [pos EXCEPT ![r] = x]
          /\ queue' = Append(queue, <<r, x>>)
    /\ UNCHANGED <<tables, now, running, pc, api, collected, worker, more, pending, faults>>

WorkerDone(r) ==
    /\ worker[r] = "scanning"
    /\ page[r] = {} /\ ~more[r]
    /\ worker' = [worker EXCEPT ![r] = "finished"]
    /\ UNCHANGED <<tables, now, running, pc, api, collected, pos, page, more, queue, pending,
                   faults>>

\* Mutant: the pending cursor is the whole result.
ConsumeResult ==
    /\ pc = "scan"
    /\ queue # <<>>
    /\ LET x == Head(queue)[2]
       IN  /\ buffer' = buffer \cup Mentions[x[2]]
           /\ size' = size + Cardinality(Mentions[x[2]])
           /\ pending' = [pending EXCEPT ![Head(queue)[1]] = Head(queue)]
           /\ pc' = IF size' >= BatchSize THEN "insert" ELSE "scan"
    /\ queue' = Tail(queue)
    /\ UNCHANGED <<tables, now, running, api, worker, pos, page, more, faults>>

\* One (relays, cursor) result.
Consume ==
    /\ pc = "scan"
    /\ queue # <<>>
    /\ LET r == Head(queue)[1]
           x == Head(queue)[2]
       IN  /\ buffer' = buffer \cup Mentions[x[2]]
           /\ size' = size + Cardinality(Mentions[x[2]])
           /\ pending' = [pending EXCEPT ![r] = x]
           /\ pc' = IF size' >= BatchSize THEN "insert" ELSE "scan"
    /\ queue' = Tail(queue)
    /\ UNCHANGED <<tables, now, running, api, worker, pos, page, more, faults>>

ScanEnds ==
    /\ pc = "scan"
    /\ queue = <<>>
    /\ \A r \in Relay : worker[r] = "finished"
    /\ pc' = "final_insert"
    /\ UNCHANGED <<tables, now, running, api, collected, scan, faults>>

PendingRelays == {r \in Relay : pending[r] # NoCursor}

\* One chunk of upsert_finder_cursors.
UpsertCursors ==
    /\ pc \in {"upsert", "final_upsert"}
    /\ \E K \in Chunks(PendingRelays) :
          /\ cursor' = [r \in Relay |-> IF r \in K THEN pending[r] ELSE cursor[r]]
          /\ pending' = [r \in Relay |-> IF r \in K THEN NoCursor ELSE pending[r]]
    /\ UNCHANGED <<rows, known, age, now, running, pc, api, collected, worker, pos, page, more,
                   queue, faults>>

FlushDone ==
    /\ pc = "upsert"
    /\ PendingRelays = {}
    /\ pc' = "scan"
    /\ UNCHANGED <<tables, now, running, api, collected, scan, faults>>

CycleDone ==
    /\ pc = "final_upsert"
    /\ PendingRelays = {}
    /\ pc' = "idle"
    /\ NoScan
    /\ UNCHANGED <<tables, now, running, api, collected, faults>>

-----------------------------------------------------------------------------
(* Failures, shutdown and restart *)

\* A database call raises and ends the cycle, or the process dies and is
\* started again.
FinderFails ==
    /\ pc # "stopped"
    /\ Fault
    /\ pc' = "idle"
    /\ running' \in {running, TRUE}
    /\ NoApi /\ NoBuffer /\ NoScan
    /\ UNCHANGED <<tables, now>>

Shutdown ==
    /\ running
    /\ Fault
    /\ running' = FALSE
    /\ UNCHANGED <<tables, now, pc, api, collected, scan>>

Stop ==
    /\ pc = "idle"
    /\ ~running
    /\ pc' = "stopped"
    /\ UNCHANGED <<tables, now, running, api, collected, scan, faults>>

Restart ==
    /\ pc = "stopped"
    /\ pc' = "idle"
    /\ running' = TRUE
    /\ UNCHANGED <<tables, now, api, collected, scan, faults>>

-----------------------------------------------------------------------------

FinderStep ==
    \/ Cleanup \/ FetchCheckpoints
    \/ \E s \in Source : FetchSource(s)
    \/ SourcesDone \/ UpsertCheckpoints \/ CheckpointsDone
    \/ InsertCandidates \/ InsertDone
    \/ FetchCursors \/ Consume \/ ScanEnds
    \/ UpsertCursors \/ FlushDone \/ CycleDone
    \/ Stop \/ Restart

WorkerStep(r) == WorkerStart(r) \/ FetchPage(r) \/ WorkerYield(r) \/ WorkerDone(r)

Next ==
    \/ FinderStep
    \/ \E r \in Relay : WorkerStep(r) \/ WorkerEnds(r) \/ RowsCommitted(r)
    \/ \E s \in Source : FetchSourceFails(s)
    \/ Tick \/ FinderFails \/ Shutdown

Spec == Init /\ [][Next]_vars

\* The event loop runs the Finder and its workers, every request and query
\* has a timeout, time passes, a stopped service is started again.  Faults
\* are finitely many.  Nothing is assumed of the Synchronizer.
FairSpec ==
    /\ Spec
    /\ WF_vars(FinderStep)
    /\ \A r \in Relay : WF_vars(WorkerStep(r))
    /\ WF_vars(Tick)

-----------------------------------------------------------------------------
(* Properties *)

Pcs == {"idle", "cleaned", "sources", "checkpoints", "api_insert", "cursors", "scan",
        "insert", "upsert", "final_insert", "final_upsert", "stopped"}

TypeOK ==
    /\ rows \in [Relay -> SUBSET Row]
    /\ known \subseteq Url
    /\ cursor \in [Relay -> Row \cup {NoCursor}]
    /\ age \in [Source -> 0..Cooldown]
    /\ now \in Nat
    /\ running \in BOOLEAN
    /\ pc \in Pcs
    /\ todo \subseteq Source
    /\ DOMAIN fresh \subseteq Source
    /\ \A s \in DOMAIN fresh : fresh[s] \in 0..Cooldown
    /\ buffer \subseteq Url /\ size \in Nat
    /\ worker \in [Relay -> {"none", "waiting", "scanning", "finished"}]
    /\ pos \in [Relay -> Row \cup {NoCursor}]
    /\ page \in [Relay -> SUBSET Row]
    /\ more \in [Relay -> BOOLEAN]
    /\ queue \in Seq(Relay \X Row)
    /\ pending \in [Relay -> Row \cup {NoCursor}]
    /\ faults \in Nat

\* The scan never goes back to rows up to the cursor, so each of them must
\* have been searched and its URLs inserted, whatever was lost in memory.
\* Rows that come late are included: "historical events inserted by the
\* Synchronizer are eventually processed".
CursorCovers ==
    \A r \in Relay : \A x \in rows[r] : UpTo(x, cursor[r]) => Mentions[x[2]] \subseteq known

\* Once no more rows come, every URL in a stored row and every URL an enabled
\* source lists is a candidate, also when a crash has separated a checkpoint
\* from its URLs.
AllFound ==
    /\ \A r \in Relay : \A x \in rows[r] : Mentions[x[2]] \subseteq known
    /\ \A s \in Enabled : Lists[s] \subseteq known
EventuallyFound == <>[]AllFound
=============================================================================
