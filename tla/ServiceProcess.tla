--------------------------- MODULE ServiceProcess ---------------------------
(***************************************************************************)
(* One service process from __main__.main to its exit: the connection pool *)
(* (core/pool.py), the metrics server, the signal handlers, and the loop   *)
(* of core/base_service.py whose cycles call the database through          *)
(* core/brotr.py.  Other processes and the operator change the tables      *)
(* between any two attempts of a call.                                     *)
(*                                                                         *)
(* What a cycle asks of the database is any sequence of calls from Calls:  *)
(* cleanup() and run() of the services are sequences of such calls.        *)
(***************************************************************************)
EXTENDS Archive, Sequences

CONSTANTS
    Calls,        \* Brotr calls of cleanup() and run()
    Others,       \* calls that other processes make
    Cleanups,     \* clean-up functions they run
    MaxSize,      \* batch.max_size
    MaxAttempts,  \* pool.retry.max_attempts
    Limit,        \* max_consecutive_failures, 0 for no limit
    MaxCalls,     \* bound: calls per cycle
    MaxFaults     \* bound: connection errors, timeouts, crashes

ASSUME ProcessAssumption ==
    /\ MaxSize \in Nat \ {0} /\ MaxAttempts \in Nat \ {0} /\ Limit \in Nat
    /\ MaxCalls \in Nat \ {0} /\ MaxFaults \in Nat
    /\ \A c \in Calls \cup Others : WellFormed(c)

VARIABLES
    db,         \* the tables
    sweep,      \* an orphan clean-up under way in another session
    pc,         \* where the process is
    once,       \* --once
    connected,  \* Pool._is_connected
    metrics,    \* the metrics server listens
    shutdown,   \* BaseService._shutdown_event
    failures,   \* consecutive_failures
    attempt,    \* attempt of connect() or of the current call
    call,       \* the Brotr call under way
    calls,      \* calls made in this cycle
    code,       \* exit code
    faults,     \* ghost: faults so far
    signalled,  \* ghost: a signal was handled
    history,    \* ghost: outcomes of the last cycles, at most Limit
    before,     \* ghost: the tables when the call began
    alone       \* ghost: nobody else wrote since then

process == <<once, connected, metrics, shutdown, failures, code, signalled, history>>
work == <<attempt, call, calls, before, alone>>
store == <<db, sweep>>
vars == <<store, pc, process, work, faults>>

-----------------------------------------------------------------------------

NoSweep == [op |-> "none", rows |-> {}, found |-> {}]

NoWork == attempt' = 0 /\ call' = NoCall /\ calls' = 0 /\ before' = EmptyDb /\ alone' = TRUE

Recorded(outcome) ==
    LET h == Append(history, outcome)
    IN  IF Len(h) > Limit THEN Tail(h) ELSE h

Fault == faults < MaxFaults /\ faults' = faults + 1

Init ==
    /\ pc = "connecting" /\ connected = FALSE /\ metrics = FALSE /\ shutdown = FALSE
    /\ failures = 0 /\ code = 0 /\ signalled = FALSE /\ history = <<>>
    /\ attempt = 0 /\ call = NoCall /\ calls = 0 /\ before = EmptyDb /\ alone = TRUE
    /\ once \in BOOLEAN /\ db = EmptyDb /\ sweep = NoSweep /\ faults = 0

-----------------------------------------------------------------------------
(* Start-up *)

\* Pool.connect, under its lock.
Connect ==
    /\ pc = "connecting"
    /\ connected' = TRUE
    /\ pc' = "starting"
    /\ attempt' = 0
    /\ UNCHANGED <<store, once, metrics, shutdown, failures, code, signalled, history, call,
                   calls, before, alone, faults>>

\* create_pool raises: back off and try again, or raise ConnectionError, on
\* which main() returns 1 (the context was not entered, there is no pool).
ConnectFails ==
    /\ pc = "connecting"
    /\ Fault
    /\ IF attempt + 1 >= MaxAttempts
       THEN pc' = "exited" /\ code' = 1 /\ attempt' = 0
       ELSE pc' = pc /\ code' = code /\ attempt' = attempt + 1
    /\ UNCHANGED <<store, once, connected, metrics, shutdown, failures, signalled, history,
                   call, calls, before, alone>>

\* run_service up to the service's __aenter__: the metrics server and the
\* signal handlers, unless --once.  Nothing is awaited between the handlers
\* and the clear() of _shutdown_event.
StartService ==
    /\ pc = "starting"
    /\ metrics' = ~once
    /\ shutdown' = FALSE
    /\ pc' = "entering"
    /\ UNCHANGED <<store, once, connected, failures, code, signalled, history, work, faults>>

\* The port is taken: the exception leaves through `async with brotr'.
StartServiceFails ==
    /\ pc = "starting"
    /\ ~once
    /\ Fault
    /\ code' = 1
    /\ pc' = "closing"
    /\ UNCHANGED <<store, once, connected, metrics, shutdown, failures, signalled, history, work>>

\* Mutant: the event is cleared when the service has been entered.
EnterServiceClears ==
    /\ pc = "entering"
    /\ shutdown' = FALSE
    /\ pc' = IF once THEN "cycle" ELSE "loop"
    /\ UNCHANGED <<store, once, connected, metrics, failures, code, signalled, history, work,
                   faults>>

\* The rest of a subclass's __aenter__ (schema discovery, Nostr client).
EnterService ==
    /\ pc = "entering"
    /\ pc' = IF once THEN "cycle" ELSE "loop"
    /\ UNCHANGED <<store, process, work, faults>>

\* ... raises: __aexit__ does not run.
EnterServiceFails ==
    /\ pc = "entering"
    /\ Fault
    /\ code' = 1
    /\ pc' = IF once THEN "closing" ELSE "stopping"
    /\ UNCHANGED <<store, once, connected, metrics, shutdown, failures, signalled, history, work>>

-----------------------------------------------------------------------------
(* BaseService.run_forever *)

\* Mutant: while True; only wait() stops the loop.
StartCycleAlways ==
    /\ pc = "loop"
    /\ pc' = "cycle"
    /\ UNCHANGED <<store, process, work, faults>>

\* while self.is_running
StartCycle ==
    /\ pc = "loop"
    /\ pc' = IF shutdown THEN "leaving" ELSE "cycle"
    /\ UNCHANGED <<store, process, work, faults>>

\* Mutant: a success does not reset the counter.
CycleSucceedsKeeps ==
    /\ pc = "cycle"
    /\ pc' = IF once THEN "leaving" ELSE "waiting"
    /\ history' = Recorded("succeeded")
    /\ NoWork
    /\ UNCHANGED <<store, once, connected, metrics, shutdown, failures, code, signalled, faults>>

\* cleanup() and run() have returned.
CycleSucceeds ==
    /\ pc = "cycle"
    /\ pc' = IF once THEN "leaving" ELSE "waiting"
    /\ failures' = 0
    /\ history' = Recorded("succeeded")
    /\ NoWork
    /\ UNCHANGED <<store, once, connected, metrics, shutdown, code, signalled, faults>>

\* The error boundary of the loop, and of run_service with --once.
CycleFails ==
    /\ pc = "failed"
    /\ IF once
       THEN pc' = "leaving" /\ code' = 1 /\ UNCHANGED <<failures, history>>
       ELSE /\ failures' = failures + 1
            /\ history' = Recorded("failed")
            /\ pc' = IF Limit > 0 /\ failures' >= Limit THEN "leaving" ELSE "waiting"
            /\ UNCHANGED code
    /\ NoWork
    /\ UNCHANGED <<store, once, connected, metrics, shutdown, signalled, faults>>

\* wait(remaining) sees the event.
WaitInterrupted ==
    /\ pc = "waiting"
    /\ shutdown
    /\ pc' = "leaving"
    /\ UNCHANGED <<store, process, work, faults>>

\* It times out; with nothing remaining it does so even if the event is set.
WaitElapses ==
    /\ pc = "waiting"
    /\ pc' = "loop"
    /\ UNCHANGED <<store, process, work, faults>>

-----------------------------------------------------------------------------
(* Brotr calls, through Pool._execute_with_retry *)

\* A batch that is empty returns at once, one that is too large raises
\* ValueError; anything else goes to the pool.
BeginCall(c) ==
    /\ pc = "cycle"
    /\ calls < MaxCalls
    /\ c.op \in Batched => c.size # 0
    /\ IF c.op \in Batched /\ c.size > MaxSize
       THEN pc' = "failed" /\ UNCHANGED <<call, before, alone>>
       ELSE pc' = "call" /\ call' = c /\ before' = db /\ alone' = TRUE
    /\ calls' = calls + 1
    /\ attempt' = 0
    /\ UNCHANGED <<store, process, faults>>

\* The exception reaches run_forever, unless run() handles it: the Refresher
\* goes on with its next view.
Raise == pc' = IF call.op = "refresh" THEN "cycle" ELSE "failed"

CallDone == attempt' = 0 /\ call' = NoCall /\ before' = EmptyDb /\ alone' = TRUE

CallReturns ==
    /\ pc = "call"
    /\ Succeeds(db, call)
    /\ db' = Apply(db, call)
    /\ pc' = "cycle"
    /\ CallDone
    /\ UNCHANGED <<sweep, process, calls, faults>>

\* A foreign key is violated: query-level errors propagate immediately.
CallRaises ==
    /\ pc = "call"
    /\ ~Succeeds(db, call)
    /\ Raise
    /\ CallDone
    /\ UNCHANGED <<store, process, calls, faults>>

\* The statement's timeout, or an error of another class: it propagates; the
\* server may or may not have committed.
CallTimesOut(committed) ==
    /\ pc = "call"
    /\ Fault
    /\ committed => Succeeds(db, call)
    /\ db' = IF committed THEN Apply(db, call) ELSE db
    /\ Raise
    /\ CallDone
    /\ UNCHANGED <<sweep, process, calls>>

\* Mutant: one attempt too many.
ConnectionLostOneMore(committed) ==
    /\ pc = "call"
    /\ Fault
    /\ committed => Succeeds(db, call)
    /\ db' = IF committed THEN Apply(db, call) ELSE db
    /\ IF attempt < MaxAttempts
       THEN pc' = pc /\ attempt' = attempt + 1 /\ UNCHANGED <<call, before, alone>>
       ELSE Raise /\ CallDone
    /\ UNCHANGED <<sweep, process, calls>>

\* Mutant: the error is swallowed.
ConnectionLostSwallowed(committed) ==
    /\ pc = "call"
    /\ Fault
    /\ committed => Succeeds(db, call)
    /\ db' = IF committed THEN Apply(db, call) ELSE db
    /\ pc' = "cycle"
    /\ CallDone
    /\ UNCHANGED <<sweep, process, calls>>

\* InterfaceError or ConnectionDoesNotExistError, before or after the server
\* committed: back off and try again on another connection, or raise
\* ConnectionError.
ConnectionLost(committed) ==
    /\ pc = "call"
    /\ Fault
    /\ committed => Succeeds(db, call)
    /\ db' = IF committed THEN Apply(db, call) ELSE db
    /\ IF attempt < MaxAttempts - 1
       THEN pc' = pc /\ attempt' = attempt + 1 /\ UNCHANGED <<call, before, alone>>
       ELSE Raise /\ CallDone
    /\ UNCHANGED <<sweep, process, calls>>

\* What the tables were is of no use once another session has written.
NotAlone == alone' = (pc # "call") /\ before' = EmptyDb

\* Another process, or the operator, commits.
Elsewhere ==
    /\ \/ \E c \in Others : Succeeds(db, c) /\ db' = Apply(db, c)
       \/ \E url \in DOMAIN db.relay : db' = RelayDelete(db, url)
    /\ db' # db
    /\ NotAlone
    /\ UNCHANGED <<sweep, pc, process, attempt, call, calls, faults>>

\* orphan_event_delete or orphan_metadata_delete, in another session: a
\* DELETE selects with the snapshot it starts with ...
BeginCleanup ==
    /\ sweep = NoSweep
    /\ \E op \in Cleanups :
          /\ Orphans(db, op) # {}
          /\ sweep' = [op |-> op, rows |-> Orphans(db, op),
                       found |-> Referring(db, op, Orphans(db, op))]
    /\ UNCHANGED <<db, pc, process, work, faults>>

\* ... and deletes what it selected, with the junction rows that refer to it
\* by then.
EndCleanup ==
    /\ sweep # NoSweep
    /\ db' = OrphanDelete(db, sweep.op, sweep.rows)
    /\ sweep' = NoSweep
    /\ NotAlone
    /\ UNCHANGED <<pc, process, attempt, call, calls, faults>>

-----------------------------------------------------------------------------
(* Shutdown *)

\* SIGINT or SIGTERM once the handlers are installed: request_shutdown.
Signal ==
    /\ ~once
    /\ pc \notin {"connecting", "starting", "exited", "killed"}
    /\ ~signalled
    /\ shutdown' = TRUE
    /\ signalled' = TRUE
    /\ UNCHANGED <<store, pc, once, connected, metrics, failures, code, history, work, faults>>

\* BaseService.__aexit__
LeaveService ==
    /\ pc = "leaving"
    /\ shutdown' = TRUE
    /\ pc' = IF once THEN "closing" ELSE "stopping"
    /\ UNCHANGED <<store, once, connected, metrics, failures, code, signalled, history, work,
                   faults>>

\* MetricsServer.stop, in the finally of run_service.
StopMetrics ==
    /\ pc = "stopping"
    /\ metrics' = FALSE
    /\ pc' = "closing"
    /\ UNCHANGED <<store, once, connected, shutdown, failures, code, signalled, history, work,
                   faults>>

\* Pool.close: the state is reset whether or not asyncpg raises.
ClosePool(raises) ==
    /\ pc = "closing"
    /\ raises => Fault
    /\ ~raises => UNCHANGED faults
    /\ connected' = FALSE
    /\ code' = IF raises THEN 1 ELSE code
    /\ pc' = "exited"
    /\ UNCHANGED <<store, once, metrics, shutdown, failures, signalled, history, work>>

\* SIGKILL, a crash, or a signal before the handlers are there.
Kill ==
    /\ pc \notin {"exited", "killed"}
    /\ Fault
    /\ pc' = "killed"
    /\ UNCHANGED <<store, process, work>>

\* The container is started again.
Restart ==
    /\ pc \in {"exited", "killed"}
    /\ pc' = "connecting" /\ connected' = FALSE /\ metrics' = FALSE /\ shutdown' = FALSE
    /\ failures' = 0 /\ code' = 0 /\ signalled' = FALSE /\ history' = <<>>
    /\ NoWork
    /\ UNCHANGED <<store, once, faults>>

-----------------------------------------------------------------------------

ProcessStep ==
    \/ Connect \/ StartService \/ EnterService
    \/ StartCycle \/ CycleSucceeds \/ CycleFails \/ WaitInterrupted \/ WaitElapses
    \/ CallReturns \/ CallRaises
    \/ LeaveService \/ StopMetrics \/ ClosePool(FALSE)

Failure ==
    \/ ConnectFails \/ StartServiceFails \/ EnterServiceFails
    \/ \E committed \in BOOLEAN : CallTimesOut(committed) \/ ConnectionLost(committed)
    \/ ClosePool(TRUE) \/ Kill

Next ==
    \/ ProcessStep \/ Failure \/ Signal \/ Restart
    \/ Elsewhere \/ BeginCleanup \/ EndCleanup
    \/ \E c \in Calls : BeginCall(c)

Spec == Init /\ [][Next]_vars

\* The event loop runs, a statement ends (each has a timeout, except refreshes,
\* whose timeout is by default none: the server is trusted to end those), and
\* cleanup() and run() return after finitely many calls.
FairSpec == Spec /\ WF_vars(ProcessStep)

-----------------------------------------------------------------------------
(* Properties *)

Working == {"cycle", "call", "failed"}
InLoop == Working \cup {"loop", "waiting"}
Pcs == InLoop \cup {"connecting", "starting", "entering", "leaving", "stopping", "closing",
                     "exited", "killed"}

TypeOK ==
    /\ pc \in Pcs /\ once \in BOOLEAN /\ connected \in BOOLEAN /\ metrics \in BOOLEAN
    /\ shutdown \in BOOLEAN /\ failures \in Nat /\ code \in {0, 1}
    /\ attempt \in 0..(MaxAttempts - 1) /\ call \in Calls \cup {NoCall}
    /\ calls \in 0..MaxCalls /\ faults \in 0..MaxFaults
    /\ signalled \in BOOLEAN /\ history \in Seq({"succeeded", "failed"}) /\ alone \in BOOLEAN

\* However calls, retries, orphan clean-up and deletions of relays interleave,
\* every junction row has its relay and its event or document.
ReferentialIntegrity == ReferencesHold(db)

\* _execute_with_retry repeats a statement that may already be committed: as
\* long as nobody else writes, every attempt leaves the tables as if the call
\* had run once, or not at all.
RetriedOnce ==
    [][pc = "call" /\ alone /\ alone' => db' \in {before, Apply(before, call)}]_vars

\* A call that returns without an exception has stored its rows, whichever
\* of its attempts did it.
ReturnMeansStored ==
    [][pc = "call" /\ pc' = "cycle" /\ call.op # "refresh" => RowsStored(db', call)]_vars

\* A junction row may go with its relay, or when a clean-up deletes the orphan
\* it refers to and the row was added after the clean-up had selected it.
MayGo(k, url) == url \notin DOMAIN db'.relay \/ (sweep' # sweep /\ k \notin sweep.found)

\* Nothing is lost or rewritten: the first discovered_at and seen_at of a row
\* stay, junction rows disappear only with their relay or under a clean-up
\* that was already running when they were added, and what a clean-up finds
\* referred to when it starts, it leaves alone.
RowsKept ==
    [][/\ \A u \in DOMAIN db.relay \cap DOMAIN db'.relay : db'.relay[u] = db.relay[u]
       /\ \A k \in DOMAIN db.event_relay :
             IF k \in DOMAIN db'.event_relay THEN db'.event_relay[k] = db.event_relay[k]
             ELSE MayGo(k, k[2])
       /\ \A k \in DOMAIN db.relay_metadata :
             k \in DOMAIN db'.relay_metadata \/ MayGo(k, k[1])]_vars

\* No cycle starts once a signal was handled, whatever wait() returned.
ShutdownHeeded == [][signalled /\ pc' \in Working => pc \in Working]_vars

\* The loop is left without a signal exactly when the last
\* max_consecutive_failures cycles all failed.
StopsAtLimit ==
    ~once /\ ~shutdown =>
        LET spent == Limit > 0 /\ history = [i \in 1..Limit |-> "failed"]
        IN  (pc = "leaving" => spent) /\ (pc \in InLoop => ~spent)

\* A signal ends the process, whatever it is waiting for or retrying.
SignalEnds == (signalled /\ pc \in InLoop) ~> (pc \in {"exited", "killed"})
=============================================================================
