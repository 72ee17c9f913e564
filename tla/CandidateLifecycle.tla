-------------------------- MODULE CandidateLifecycle --------------------------
(***************************************************************************)
(* How a relay URL becomes a relay: services/seeder, services/finder and   *)
(* services/validator, which run as separate processes over the tables     *)
(* relay and service_state (the Validator's CHECKPOINT rows).              *)
(*                                                                         *)
(* Seeder and Finder call insert_relays_as_candidates: a SELECT of the     *)
(* URLs nobody knows, then an upsert in chunks.  The Validator cleans up,  *)
(* fetches pages of candidates, probes them and promotes or fails them, in *)
(* chunks.  Every database call is a transaction of its own; steps of the  *)
(* other processes and crashes fall between any two of them.               *)
(*                                                                         *)
(* Timestamps are modelled by their age, in seconds up to Interval + 1:    *)
(* the code only asks whether a row is older than the retry interval, and  *)
(* which of two rows is older.                                             *)
(***************************************************************************)
EXTENDS Integers, FiniteSets

CONSTANTS
    Url,             \* relay URLs that may be discovered
    Enabled,         \* the ones on networks the Validator has enabled
    Inserter,        \* processes that may call insert_relays_as_candidates
    Seeder,          \* ... the one that is the Seeder
    ToValidate,      \* values of its seed.to_validate
    CleanupEnabled,  \* cleanup.enabled
    MaxFailures,     \* cleanup.max_failures
    Interval,        \* processing.interval
    PageSize,        \* processing.chunk_size
    MaxCandidates,   \* processing.max_candidates, 0 for None
    BatchSize,       \* brotr.config.batch.max_size
    MaxFaults        \* bound: crashes, database errors and shutdowns together

ASSUME LifecycleAssumption ==
    /\ IsFiniteSet(Url) /\ Enabled \subseteq Url /\ IsFiniteSet(Inserter)
    /\ ToValidate \subseteq BOOLEAN /\ CleanupEnabled \in BOOLEAN
    /\ MaxFailures \in Nat \ {0} /\ Interval \in Nat
    /\ PageSize \in Nat \ {0} /\ MaxCandidates \in Nat /\ BatchSize \in Nat \ {0}
    /\ MaxFaults \in Nat

VARIABLES
    relay,      \* table relay
    candidate,  \* keys of the Validator's CHECKPOINT rows
    failures,   \* their failures
    age,        \* age of their timestamp
    new,        \* inserters: new_relays still to be upserted
    new_age,    \* inserters: age of their `now'
    to_validate,\* the Seeder's seed.to_validate
    pc,         \* where the Validator is
    running,    \* its is_running
    due,        \* rows whose timestamp is before attempted_before
    processed,  \* validated + not_validated
    page,       \* candidates fetched and not probed yet
    read,       \* failures of the candidates, as fetched
    valid,      \* chunk_valid, less what is already promoted and deleted
    inserted,   \* the part of valid that promote_candidates has inserted
    invalid,    \* chunk_invalid, less what is already upserted
    fail_age,   \* age of `now' in fail_candidates
    faults,     \* ghost: faults so far
    answered,   \* ghost: URLs some probe found to be a relay
    seeded,     \* ghost: URLs the Seeder put in the relay table itself
    exhausted,  \* ghost: candidates removed for their failures
    known,      \* ghost: URLs that ever were candidates
    probed,     \* ghost: candidates whose row was probed in this cycle
    resets      \* ghost: how often the failures of a candidate's row went down

tables == <<relay, candidate, failures, age>>
inserters == <<new, new_age, to_validate>>
cycle == <<due, processed, page, read, valid, inserted, invalid, fail_age>>
ghosts == <<answered, seeded, exhausted, known, probed, resets>>
vars == <<tables, inserters, pc, running, cycle, faults, ghosts>>

-----------------------------------------------------------------------------

Old == Interval + 1
Older(a) == IF a < Old THEN a + 1 ELSE Old

\* The chunks batched_insert may cut from a set of records: the order of the
\* records is that of their discovery.
Chunks(S) == {K \in SUBSET S : K # {} /\ (Cardinality(K) = BatchSize \/ K = S)
                               /\ Cardinality(K) <= BatchSize}

\* The candidate rows in `gone' are deleted.
Delete(gone) ==
    /\ candidate' = candidate \ gone
    /\ failures' = [u \in Url |-> IF u \in gone THEN 0 ELSE failures[u]]
    /\ age' = [u \in Url |-> IF u \in gone THEN 0 ELSE age[u]]
    /\ due' = due \ gone
    /\ resets' = [u \in Url |-> IF u \in gone THEN 0 ELSE resets[u]]

\* What an upsert does to the counters; a new row starts at none.
CountResets ==
    resets' = [u \in Url |-> IF u \notin candidate THEN 0
                            ELSE resets[u] + (IF failures'[u] < failures[u] THEN 1 ELSE 0)]

Fault == faults < MaxFaults /\ faults' = faults + 1

\* The local state of validate() outside a cycle.
NoCycle ==
    /\ due' = {} /\ processed' = 0 /\ probed' = {}
    /\ page' = {} /\ read' = [u \in Url |-> 0]
    /\ valid' = {} /\ inserted' = {} /\ invalid' = {} /\ fail_age' = 0

Init ==
    /\ relay = {} /\ candidate = {}
    /\ failures = [u \in Url |-> 0] /\ age = [u \in Url |-> 0]
    /\ to_validate \in ToValidate
    /\ new = [i \in Inserter |-> {}] /\ new_age = [i \in Inserter |-> 0]
    /\ pc = "idle" /\ running = TRUE
    /\ due = {} /\ processed = 0
    /\ page = {} /\ read = [u \in Url |-> 0]
    /\ valid = {} /\ inserted = {} /\ invalid = {} /\ fail_age = 0
    /\ faults = 0
    /\ answered = {} /\ seeded = {} /\ exhausted = {} /\ known = {} /\ probed = {}
    /\ resets = [u \in Url |-> 0]

\* A second passes.
Tick ==
    /\ age' = [u \in Url |-> IF u \in candidate THEN Older(age[u]) ELSE 0]
    /\ new_age' = [i \in Inserter |-> IF new[i] # {} THEN Older(new_age[i]) ELSE 0]
    /\ fail_age' = IF pc = "fail" THEN Older(fail_age) ELSE 0
    /\ UNCHANGED <<relay, candidate, failures, new, to_validate, pc, running, due, processed,
                   page, read, valid, inserted, invalid, faults, ghosts>>

-----------------------------------------------------------------------------
(* insert_relays_as_candidates, called by Seeder and Finder *)

\* Without to_validate the Seeder inserts into the relay table instead.
Inserting == IF to_validate THEN Inserter ELSE Inserter \ {Seeder}

\* Mutant: only the relay table is consulted.
FilterNewRelaysOnly(i) ==
    /\ new[i] = {} /\ i \in Inserting
    /\ \E found \in SUBSET Url :
          /\ found \ relay # {}
          /\ new' = [new EXCEPT ![i] = found \ relay]
    /\ new_age' = [new_age EXCEPT ![i] = 0]
    /\ UNCHANGED <<tables, to_validate, pc, running, cycle, faults, ghosts>>

\* _filter_new_relays: the SELECT, and `now' right after it.
FilterNewRelays(i) ==
    /\ new[i] = {} /\ i \in Inserting
    /\ \E found \in SUBSET Url :
          /\ found \ (relay \cup candidate) # {}
          /\ new' = [new EXCEPT ![i] = found \ (relay \cup candidate)]
    /\ new_age' = [new_age EXCEPT ![i] = 0]
    /\ UNCHANGED <<tables, to_validate, pc, running, cycle, faults, ghosts>>

\* One upsert: a row that exists by now is replaced.
InsertCandidates(i) ==
    /\ new[i] # {}
    /\ \E K \in Chunks(new[i]) :
          /\ candidate' = candidate \cup K
          /\ failures' = [u \in Url |-> IF u \in K THEN 0 ELSE failures[u]]
          /\ age' = [u \in Url |-> IF u \in K THEN new_age[i] ELSE age[u]]
          /\ due' = due \ K
          /\ new' = [new EXCEPT ![i] = @ \ K]
          /\ new_age' = [new_age EXCEPT ![i] = IF new[i] = K THEN 0 ELSE @]
          /\ known' = known \cup K
          /\ exhausted' = exhausted \ K
          /\ probed' = probed \ K
    /\ CountResets
    /\ UNCHANGED <<relay, to_validate, pc, running, processed, page, read, valid, inserted,
                   invalid, fail_age, faults, answered, seeded>>

\* The inserter crashes or its database call fails.
InserterFails(i) ==
    /\ new[i] # {}
    /\ Fault
    /\ new' = [new EXCEPT ![i] = {}]
    /\ new_age' = [new_age EXCEPT ![i] = 0]
    /\ UNCHANGED <<tables, to_validate, pc, running, cycle, ghosts>>

\* seed() with to_validate off: the Seeder's relays skip validation.
SeedRelays ==
    /\ ~to_validate
    /\ \E K \in Chunks(Url) :
          /\ ~(K \subseteq relay)
          /\ relay' = relay \cup K
          /\ seeded' = seeded \cup K
    /\ UNCHANGED <<candidate, failures, age, inserters, pc, running, cycle, faults,
                   answered, exhausted, known, probed, resets>>

-----------------------------------------------------------------------------
(* Validator.cleanup *)

DeletePromoted ==
    /\ pc = "idle"
    /\ running
    /\ Delete(candidate \cap relay)
    /\ pc' = IF CleanupEnabled THEN "exhausted" ELSE "cleaned"
    /\ UNCHANGED <<relay, inserters, running, processed, page, read, valid, inserted, invalid,
                   fail_age, faults, answered, seeded, exhausted, known, probed>>

DeleteExhausted ==
    /\ pc = "exhausted"
    /\ LET gone == {u \in candidate : failures[u] >= MaxFailures}
       IN  /\ Delete(gone)
           /\ exhausted' = exhausted \cup gone
    /\ pc' = "cleaned"
    /\ UNCHANGED <<relay, inserters, running, processed, page, read, valid, inserted, invalid,
                   fail_age, faults, answered, seeded, known, probed>>

-----------------------------------------------------------------------------
(* Validator.validate *)

\* attempted_before is fixed for the whole cycle.
StartCycle ==
    /\ pc = "cleaned"
    /\ due' = {u \in candidate : age[u] > Interval}
    /\ processed' = 0
    /\ probed' = {}
    /\ pc' = "loop"
    /\ UNCHANGED <<tables, inserters, running, page, read, valid, inserted, invalid,
                   fail_age, faults, answered, seeded, exhausted, known, resets>>

\* _CANDIDATES_WHERE
Eligible == {u \in candidate \cap Enabled : failures[u] = 0 \/ u \in due}

\* chunk_size, or what max_candidates leaves of it.
PageLimit ==
    LET budget == MaxCandidates - processed
    IN  IF MaxCandidates # 0 /\ budget < PageSize THEN budget ELSE PageSize

\* ORDER BY failures, timestamp LIMIT limit
FirstPages(S, limit) ==
    {K \in SUBSET S :
        /\ Cardinality(K) = IF Cardinality(S) < limit THEN Cardinality(S) ELSE limit
        /\ \A k \in K, x \in S \ K :
              \/ failures[k] < failures[x]
              \/ failures[k] = failures[x] /\ age[k] >= age[x]}

\* The conditions of the page loop: is_running, the budget, a page that is
\* not empty.
MoreToDo == running /\ PageLimit > 0 /\ Eligible # {}

FetchCandidates ==
    /\ pc = "loop"
    /\ MoreToDo
    /\ page' \in FirstPages(Eligible, PageLimit)
    /\ read' = [u \in Url |-> IF u \in page' THEN failures[u] ELSE 0]
    /\ pc' = "probe"
    /\ UNCHANGED <<tables, inserters, running, due, processed, valid, inserted, invalid,
                   fail_age, faults, ghosts>>

EndCycle ==
    /\ pc = "loop"
    /\ ~MoreToDo
    /\ pc' = "idle"
    /\ NoCycle
    /\ UNCHANGED <<tables, inserters, running, faults, answered, seeded, exhausted, known,
                   resets>>

\* Mutant: the verdict is not looked at.
ProbeAlwaysValid(u, is_valid) ==
    /\ pc = "probe"
    /\ u \in page
    /\ page' = page \ {u}
    /\ valid' = valid \cup {u}
    /\ answered' = IF is_valid THEN answered \cup {u} ELSE answered
    /\ processed' = processed + 1
    /\ probed' = probed \cup {u}
    /\ UNCHANGED <<tables, inserters, pc, running, due, read, inserted, invalid, fail_age,
                   faults, seeded, exhausted, known, resets>>

\* A worker's verdict; a probe that raises counts as a failure.
Probe(u, is_valid) ==
    /\ pc = "probe"
    /\ u \in page
    /\ page' = page \ {u}
    /\ IF is_valid
       THEN valid' = valid \cup {u} /\ answered' = answered \cup {u} /\ UNCHANGED invalid
       ELSE invalid' = invalid \cup {u} /\ UNCHANGED <<valid, answered>>
    /\ processed' = processed + 1
    /\ probed' = probed \cup {u}
    /\ UNCHANGED <<tables, inserters, pc, running, due, read, inserted, fail_age, faults,
                   seeded, exhausted, known, resets>>

\* Mutant: the candidate rows are deleted before the relays are inserted.
PageProbedDeleteFirst ==
    /\ pc = "probe"
    /\ page = {}
    /\ pc' = "promote_delete"
    /\ UNCHANGED <<tables, inserters, running, cycle, faults, ghosts>>

\* All workers have answered.
PageProbed ==
    /\ pc = "probe"
    /\ page = {}
    /\ pc' = "promote_insert"
    /\ UNCHANGED <<tables, inserters, running, cycle, faults, ghosts>>

\* promote_candidates: insert the relays, then delete the candidate rows.
PromoteInsert ==
    /\ pc = "promote_insert"
    /\ valid # inserted
    /\ \E K \in Chunks(valid \ inserted) :
          /\ relay' = relay \cup K
          /\ inserted' = inserted \cup K
    /\ UNCHANGED <<candidate, failures, age, inserters, pc, running, due, processed, page,
                   read, valid, invalid, fail_age, faults, ghosts>>

PromoteInserted ==
    /\ pc = "promote_insert"
    /\ valid = inserted
    /\ pc' = "promote_delete"
    /\ UNCHANGED <<tables, inserters, running, cycle, faults, ghosts>>

PromoteDelete ==
    /\ pc = "promote_delete"
    /\ valid # {}
    /\ \E K \in Chunks(valid) :
          /\ Delete(K)
          /\ valid' = valid \ K
          /\ inserted' = inserted \ K
    /\ UNCHANGED <<relay, inserters, pc, running, processed, page, read, invalid, fail_age,
                   faults, answered, seeded, exhausted, known, probed>>

Promoted ==
    /\ pc = "promote_delete"
    /\ valid = {}
    /\ pc' = "fail"
    /\ fail_age' = 0
    /\ UNCHANGED <<tables, inserters, running, due, processed, page, read, valid, inserted,
                   invalid, faults, ghosts>>

\* Mutant: a failure counts once.
FailCandidatesOnce ==
    /\ pc = "fail"
    /\ invalid # {}
    /\ \E K \in Chunks(invalid) :
          /\ failures' = [u \in Url |-> IF u \in K THEN 1 ELSE failures[u]]
          /\ age' = [u \in Url |-> IF u \in K THEN fail_age ELSE age[u]]
          /\ due' = due \ K
          /\ invalid' = invalid \ K
    /\ UNCHANGED <<relay, candidate, inserters, pc, running, processed, page, read, valid,
                   inserted, fail_age, faults, ghosts>>

\* Mutant: the timestamp is not renewed.
FailCandidatesUnstamped ==
    /\ pc = "fail"
    /\ invalid # {}
    /\ \E K \in Chunks(invalid) :
          /\ failures' = [u \in Url |-> IF u \in K THEN read[u] + 1 ELSE failures[u]]
          /\ invalid' = invalid \ K
    /\ UNCHANGED <<relay, candidate, age, due, inserters, pc, running, processed, page, read,
                   valid, inserted, fail_age, faults, ghosts>>

\* fail_candidates: one upsert, of the failures that were fetched plus one.
FailCandidates ==
    /\ pc = "fail"
    /\ invalid # {}
    /\ \E K \in Chunks(invalid) :
          /\ candidate' = candidate \cup K
          /\ failures' = [u \in Url |-> IF u \in K THEN read[u] + 1 ELSE failures[u]]
          /\ age' = [u \in Url |-> IF u \in K THEN fail_age ELSE age[u]]
          /\ due' = due \ K
          /\ invalid' = invalid \ K
    /\ CountResets
    /\ UNCHANGED <<relay, inserters, pc, running, processed, page, read, valid, inserted,
                   fail_age, faults, answered, seeded, exhausted, known, probed>>

PageDone ==
    /\ pc = "fail"
    /\ invalid = {}
    /\ pc' = "loop"
    /\ fail_age' = 0
    /\ UNCHANGED <<tables, inserters, running, due, processed, page, read, valid, inserted,
                   invalid, faults, ghosts>>

-----------------------------------------------------------------------------
(* Failures, shutdown and restart of the Validator *)

\* A database call raises, or the process dies and is started again.
\* (run_forever ends the cycle in the first case.)
ValidatorFails ==
    /\ pc # "stopped"
    /\ Fault
    /\ pc' = "idle"
    /\ running' \in {running, TRUE}
    /\ NoCycle
    /\ UNCHANGED <<tables, inserters, answered, seeded, exhausted, known, resets>>

Shutdown ==
    /\ running
    /\ Fault
    /\ running' = FALSE
    /\ UNCHANGED <<tables, inserters, pc, cycle, ghosts>>

Stop ==
    /\ pc = "idle"
    /\ ~running
    /\ pc' = "stopped"
    /\ UNCHANGED <<tables, inserters, running, cycle, faults, ghosts>>

Restart ==
    /\ pc = "stopped"
    /\ pc' = "idle"
    /\ running' = TRUE
    /\ UNCHANGED <<tables, inserters, cycle, faults, ghosts>>

-----------------------------------------------------------------------------

ValidatorStep ==
    \/ DeletePromoted \/ DeleteExhausted
    \/ StartCycle \/ FetchCandidates \/ EndCycle
    \/ \E u \in Url, is_valid \in BOOLEAN : Probe(u, is_valid)
    \/ PageProbed \/ PromoteInsert \/ PromoteInserted \/ PromoteDelete \/ Promoted
    \/ FailCandidates \/ PageDone
    \/ Stop \/ Restart

InserterStep(i) == FilterNewRelays(i) \/ InsertCandidates(i) \/ InserterFails(i)

Next ==
    \/ ValidatorStep
    \/ \E i \in Inserter : InserterStep(i)
    \/ SeedRelays \/ Tick \/ ValidatorFails \/ Shutdown

Spec == Init /\ [][Next]_vars

\* The Validator's coroutine runs, every probe ends (it has a timeout), and
\* time passes.  Nothing is assumed of the inserters.
FairSpec == Spec /\ WF_vars(ValidatorStep) /\ WF_vars(Tick)

-----------------------------------------------------------------------------
(* Properties *)

Pcs == {"idle", "exhausted", "cleaned", "loop", "probe", "promote_insert",
        "promote_delete", "fail", "stopped"}

\* The types of the rows and of the Validator's local state.
TypeOK ==
    /\ relay \subseteq Url /\ candidate \subseteq Url
    /\ failures \in [Url -> Nat] /\ age \in [Url -> 0..Old]
    /\ new \in [Inserter -> SUBSET Url] /\ new_age \in [Inserter -> 0..Old]
    /\ to_validate \in BOOLEAN /\ resets \in [Url -> Nat]
    /\ pc \in Pcs /\ running \in BOOLEAN
    /\ due \subseteq Url /\ processed \in Nat
    /\ page \subseteq Url /\ read \in [Url -> Nat]
    /\ valid \subseteq Url /\ inserted \subseteq valid /\ invalid \subseteq Url
    /\ fail_age \in 0..Old
    /\ faults \in Nat
    /\ answered \subseteq Url /\ seeded \subseteq Url /\ exhausted \subseteq Url
    /\ known \subseteq Url /\ probed \subseteq Url

\* Wherever a crash falls, no discovered URL disappears: what is no longer a
\* candidate is a relay or was given up after max_failures.
NoCandidateLost == known \ candidate \subseteq relay \cup exhausted

\* Nothing enters the relay table unless a probe found it to be a relay, or
\* the operator's seed file vouches for it.
OnlyAnsweringPromoted == relay \subseteq answered \cup seeded

\* No candidate is probed twice in one cycle: a failed one is stamped, a
\* promoted one deleted, before the next page is fetched.  Only a row that an
\* inserter has replaced meanwhile counts as another candidate.
ProbedOnce == [][page' \ page \subseteq Url \ probed]_vars

\* However the SELECT of one inserter and the upserts of the others fall, the
\* failures of a candidate go back at most once for each other inserter, so
\* the count still reaches max_failures; with one inserter they never do.
ResetsLimited == \A u \in candidate : resets[u] < Cardinality(Inserting)

\* Every candidate on an enabled network is decided: it becomes a relay or
\* is given up.
EventuallyDecided == \A u \in Enabled : (u \in candidate) ~> (u \notin candidate)
=============================================================================
