------------------------------ MODULE DvmJobs ------------------------------
(***************************************************************************)
(* The Dvm (services/dvm): NIP-90 jobs appear at the relays, each cycle    *)
(* fetches those created since the last one, and answers each with a page  *)
(* of a table, a price or an error.                                        *)
(*                                                                         *)
(* The relays answer a fetch with every matching job they hold, unless the *)
(* fetch ends at its own timeout with what has come so far (a fault).      *)
(***************************************************************************)
EXTENDS Catalog, SequencesExt

CONSTANTS
    Job,           \* jobs
    Requests,      \* what the tags of a job can ask for
    MaxProcessed,  \* _MAX_PROCESSED_IDS
    MaxDelay,      \* bound: seconds from created_at to arrival at the relays
    MaxAhead,      \* bound: seconds a customer's clock is ahead
    MaxNow,        \* bound on the clock
    MaxFaults      \* bound on failures

ASSUME DvmAssumption ==
    /\ IsFiniteSet(Job) /\ MaxProcessed \in Nat \ {0} /\ MaxDelay \in Nat
    /\ MaxAhead \in Nat /\ MaxNow \in Nat /\ MaxFaults \in Nat

VARIABLES
    created,        \* job -> created_at, or -1 while no relay has it
    request,        \* job -> what it asks for
    now,
    step,           \* where the process is
    last_fetch_ts,
    fetch_ts,
    processed,      \* _processed_ids
    events,         \* what is left of the fetched events
    job,            \* the job being answered
    reply,          \* the event being sent, and whether it is the error handler's
    faults,
    taken,          \* ghost: jobs this process has started to answer
    replay,         \* ghost: jobs it may take again, see ReplaysLimited
    missed          \* ghost: jobs cut off from a fetch that no later one asks for

ids == <<processed, last_fetch_ts>>
answer == <<job, reply>>
ghosts == <<taken, replay, missed>>
vars == <<created, request, now, step, ids, fetch_ts, events, answer, faults, ghosts>>

NoJob == "nojob"
NoReply == [kind |-> None, final |-> FALSE]

-----------------------------------------------------------------------------

Fault == faults < MaxFaults /\ faults' = faults + 1

Idle == events' = <<>> /\ job' = NoJob /\ reply' = NoReply

Init ==
    /\ request \in [Job -> Requests]
    /\ created = [j \in Job |-> -1] /\ now = 1 /\ step = "down"
    /\ last_fetch_ts = 0 /\ fetch_ts = 0 /\ processed = {} /\ events = <<>>
    /\ job = NoJob /\ reply = NoReply /\ faults = 0 /\ taken = {} /\ replay = {} /\ missed = {}

\* __aenter__: discover the schema, connect, announce.
Start ==
    /\ step = "down"
    /\ step' = "idle"
    /\ last_fetch_ts' = now
    /\ UNCHANGED <<created, request, now, fetch_ts, processed, events, answer, faults, ghosts>>

-----------------------------------------------------------------------------
(* run *)

\* The clock is read before the fetch.
BeginCycle ==
    /\ step = "idle"
    /\ fetch_ts' = now
    /\ step' = "fetching"
    /\ UNCHANGED <<created, request, now, ids, events, answer, faults, ghosts>>

Due == {j \in Job : created[j] >= last_fetch_ts}

\* What a fetch returns, in any order.
Fetched(jobs) ==
    /\ step = "fetching"
    /\ \E order \in SetToSeqs(jobs) :
          /\ events' = order
          /\ IF order = <<>> THEN step' = "idle" /\ last_fetch_ts' = fetch_ts
             ELSE step' = "events" /\ UNCHANGED last_fetch_ts
    /\ UNCHANGED <<created, request, now, fetch_ts, processed, answer, taken, replay>>

\* _fetch_job_requests
Fetch == Fetched(Due) /\ UNCHANGED <<faults, missed>>

\* Its timeout returns what has come; the next fetch starts at fetch_ts.
FetchCut ==
    /\ Fault
    /\ \E jobs \in (SUBSET Due) \ {Due} :
          /\ Fetched(jobs)
          /\ missed' = missed \cup {j \in Due \ jobs : created[j] < fetch_ts}

\* An exception that nothing catches ends the cycle: last_fetch_ts stays.
Abort == step' = "idle" /\ Idle

FetchRaises ==
    /\ step = "fetching"
    /\ Fault
    /\ Abort
    /\ UNCHANGED <<created, request, now, ids, fetch_ts, ghosts>>

Sending(j, kind, final) ==
    job' = j /\ reply' = [kind |-> kind, final |-> final] /\ step' = "sending"

\* parse_job_params: a "bid" tag is kept if it is a number (not -1), a "param"
\* tag as the string it is; the last tag wins.
Bid(tags) ==
    LET kept == SelectSeq(tags, LAMBDA t : t[1] = "param" \/ t[2] # -1)
    IN  IF kept = <<>> THEN <<"bid", 0>> ELSE Last(kept)

\* _handle_job up to its query, without an await: comparing a string bid with
\* a price raises TypeError.
Handle(j) ==
    LET r == request[j]
        bid == Bid(r.bids)
        priced == IF r.table \in Enabled THEN Price[r.table] ELSE 0
    IN  IF ~IsTableEnabled(r.table) THEN Sending(j, "error", FALSE) /\ UNCHANGED events
        ELSE IF priced > 0 /\ bid[1] = "param" THEN Abort
        ELSE IF priced > 0 /\ bid[2] < priced THEN Sending(j, "payment", FALSE) /\ UNCHANGED events
        ELSE IF ~r.numeric
             THEN Sending(j, "error", FALSE) /\ UNCHANGED events
        ELSE IF QueryRejected(r.table, r.filters, r.sort)
             THEN Sending(j, "error", TRUE) /\ UNCHANGED events
        ELSE job' = j /\ reply' = NoReply /\ step' = "counting" /\ UNCHANGED events

\* Mutant: the id is remembered once the job has been answered.
TakeEventUnmarked ==
    /\ step = "events" /\ events # <<>>
    /\ LET j == Head(events)
       IN  IF j \in processed \/ request[j].ptag = "other"
           THEN events' = Tail(events) /\ UNCHANGED <<processed, step, answer, taken>>
           ELSE /\ taken' = taken \cup {j}
                /\ Handle(j)
                /\ processed' = IF step' = "idle" THEN processed ELSE processed \cup {j}
    /\ UNCHANGED <<created, request, now, last_fetch_ts, fetch_ts, faults, replay, missed>>

\* _process_event: jobs that were processed or are addressed to others are
\* skipped; the id is remembered before the job is handled.
TakeEvent ==
    /\ step = "events" /\ events # <<>>
    /\ LET j == Head(events)
       IN  IF j \in processed \/ request[j].ptag = "other"
           THEN events' = Tail(events) /\ UNCHANGED <<processed, step, answer, taken>>
           ELSE /\ processed' = processed \cup {j}
                /\ taken' = taken \cup {j}
                /\ Handle(j)
    /\ UNCHANGED <<created, request, now, last_fetch_ts, fetch_ts, faults, replay, missed>>

\* Catalog.query: the count and the page are two statements.
Count ==
    /\ step = "counting"
    /\ IF DataError(request[job].table, request[job].filters)
       THEN Sending(job, "error", TRUE)
       ELSE step' = "selecting" /\ UNCHANGED answer
    /\ UNCHANGED <<created, request, now, ids, fetch_ts, events, faults, ghosts>>

Select ==
    /\ step = "selecting"
    /\ Sending(job, "result", FALSE)
    /\ UNCHANGED <<created, request, now, ids, fetch_ts, events, faults, ghosts>>

\* A statement fails: an OSError or TimeoutError is answered with an error,
\* anything else ends the cycle.
QueryRaises(caught) ==
    /\ step \in {"counting", "selecting"}
    /\ Fault
    /\ IF caught THEN Sending(job, "error", TRUE) /\ UNCHANGED events ELSE Abort
    /\ UNCHANGED <<created, request, now, ids, fetch_ts, ghosts>>

NextEvent ==
    /\ events' = Tail(events) /\ step' = "events"
    /\ job' = NoJob /\ reply' = NoReply

\* _send_event
Send ==
    /\ step = "sending"
    /\ NextEvent
    /\ UNCHANGED <<created, request, now, ids, fetch_ts, faults, ghosts>>

\* It raises (the event may have been delivered): an OSError or TimeoutError
\* is answered with an error event, whose own failure is suppressed.
SendRaises(caught) ==
    /\ step = "sending"
    /\ Fault
    /\ IF ~caught THEN Abort
       ELSE IF reply.final THEN NextEvent
       ELSE Sending(job, "error", TRUE) /\ UNCHANGED events
    /\ UNCHANGED <<created, request, now, ids, fetch_ts, ghosts>>

\* Mutant: the timestamp is not advanced when the set is cleared.
EndCycleKeepsTs ==
    /\ step = "events" /\ events = <<>>
    /\ LET clear == Cardinality(processed) >= MaxProcessed
       IN  /\ processed' = IF clear THEN {} ELSE processed
           /\ replay' = IF clear THEN {j \in processed \cup replay : created[j] >= fetch_ts}
                        ELSE replay \ processed
           /\ last_fetch_ts' = IF clear THEN last_fetch_ts ELSE fetch_ts
    /\ step' = "idle"
    /\ UNCHANGED <<created, request, now, fetch_ts, events, answer, faults, taken, missed>>

\* _manage_dedup_set, and the timestamp.
EndCycle ==
    /\ step = "events" /\ events = <<>>
    /\ LET clear == Cardinality(processed) >= MaxProcessed
       IN  /\ processed' = IF clear THEN {} ELSE processed
           /\ replay' = IF clear THEN {j \in processed \cup replay : created[j] >= fetch_ts}
                        ELSE replay \ processed
    /\ last_fetch_ts' = fetch_ts
    /\ step' = "idle"
    /\ UNCHANGED <<created, request, now, fetch_ts, events, answer, faults, taken, missed>>

-----------------------------------------------------------------------------
(* The environment *)

\* A job reaches the relays, up to MaxDelay after its created_at, or up to
\* MaxAhead before it: the customer's clock chooses it.
JobArrives(j) ==
    /\ created[j] = -1
    /\ \E t \in (now - MaxDelay)..(now + MaxAhead) :
          t >= 0 /\ created' = [created EXCEPT ![j] = t]
    /\ UNCHANGED <<request, now, step, ids, fetch_ts, events, answer, faults, ghosts>>

\* The process dies and is started again: nothing is persisted.
Crash ==
    /\ step # "down"
    /\ Fault
    /\ step' = "down" /\ Idle
    /\ processed' = {} /\ last_fetch_ts' = 0 /\ fetch_ts' = 0 /\ taken' = {} /\ replay' = {}
    /\ missed' = {}
    /\ UNCHANGED <<created, request, now>>

Tick ==
    /\ now < MaxNow
    /\ now' = now + 1
    /\ UNCHANGED <<created, request, step, ids, fetch_ts, events, answer, faults, ghosts>>

Step ==
    \/ Start \/ BeginCycle \/ Fetch \/ TakeEvent \/ Count \/ Select \/ Send \/ EndCycle

Failure ==
    \/ FetchRaises \/ FetchCut \/ Crash
    \/ \E caught \in BOOLEAN : QueryRaises(caught) \/ SendRaises(caught)

Next == Step \/ Failure \/ (\E j \in Job : JobArrives(j)) \/ Tick

Spec == Init /\ [][Next]_vars

\* run_forever starts the next cycle, and a fetch, a statement and a send end
\* (the first two have a timeout, the third one in the client library).
FairSpec == Spec /\ WF_vars(Step)

-----------------------------------------------------------------------------
(* Properties *)

\* What the since timestamp leaves of "limiting replays to the current cycle":
\* a process takes a job again only if the set was cleared and the job's
\* created_at is not before the clock's reading at the start of the clearing
\* cycle. A created_at ahead of the clock keeps it in reach of later cycles.
ReplaysLimited ==
    [][\A j \in taken : j \notin processed /\ j \in processed' => j \in replay]_vars

\* Jobs that arrive during processing are not lost, and a job that cannot be
\* answered does not hold up the others: every job addressed to the Dvm, if
\* it is not older than the fetch under way, is taken up, unless a fetch that
\* ended at its timeout left it out and no later one asks for its second.
Horizon == IF step \in {"idle", "fetching"} THEN last_fetch_ts ELSE fetch_ts

Awaited(j) ==
    /\ step # "down" /\ request[j].ptag # "other"
    /\ created[j] >= Horizon /\ j \notin taken \cup missed

JobsTaken ==
    \A j \in Job : Awaited(j) ~> (j \in taken \cup missed \/ step = "down")
=============================================================================
