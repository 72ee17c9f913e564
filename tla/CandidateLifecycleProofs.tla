----------------------- MODULE CandidateLifecycleProofs -----------------------
(***************************************************************************)
(* No candidate is lost and only answering relays are promoted, for any    *)
(* URLs, inserters, page and batch sizes and any number of faults; none is *)
(* probed twice in a cycle, and its failures are forgotten at most once    *)
(* for every inserter but one.                                             *)
(***************************************************************************)
EXTENDS CandidateLifecycle, FiniteSetTheorems, TLAPS

\* promote_candidates deletes rows only after their relays are inserted.
PromoteOrder ==
    /\ inserted \subseteq relay
    /\ pc = "promote_delete" => valid \subseteq relay

\* Only URLs that answered are about to be promoted.
ValidAnswered == valid \subseteq answered /\ inserted \subseteq valid

\* The inductive invariant.
CInv == NoCandidateLost /\ OnlyAnsweringPromoted /\ PromoteOrder /\ ValidAnswered

\* Nothing is known, promoted or in progress at the start.
LEMMA InitCInv == ASSUME Init PROVE CInv
BY DEF Init, CInv, NoCandidateLost, OnlyAnsweringPromoted, PromoteOrder, ValidAnswered

\* Steps that change neither the tables nor what is being promoted.
LEMMA QuietStep ==
    ASSUME CInv, UNCHANGED <<relay, candidate, known, exhausted, answered, seeded>>,
           valid' = valid, inserted' = inserted,
           pc' = "promote_delete" => valid \subseteq relay
    PROVE  CInv'
BY DEF CInv, NoCandidateLost, OnlyAnsweringPromoted, PromoteOrder, ValidAnswered

\* Steps that throw the cycle's local state away.
LEMMA NoCycleStep ==
    ASSUME CInv, NoCycle, UNCHANGED <<relay, candidate, known, exhausted, answered, seeded>>
    PROVE  CInv'
BY DEF CInv, NoCycle, NoCandidateLost, OnlyAnsweringPromoted, PromoteOrder, ValidAnswered

\* Chunks are subsets.
LEMMA ChunkSubset == ASSUME NEW S, NEW K \in Chunks(S) PROVE K \subseteq S
BY DEF Chunks

\* The Validator's steps.
LEMMA ValidatorCInv == ASSUME CInv, ValidatorStep PROVE CInv'
<1>1. CASE DeletePromoted
    BY <1>1 DEF DeletePromoted, Delete, CInv, NoCandidateLost, OnlyAnsweringPromoted,
                PromoteOrder, ValidAnswered
<1>2. CASE DeleteExhausted
    BY <1>2 DEF DeleteExhausted, Delete, CInv, NoCandidateLost, OnlyAnsweringPromoted,
                PromoteOrder, ValidAnswered
<1>3. CASE StartCycle \/ FetchCandidates
    BY <1>3, QuietStep DEF StartCycle, FetchCandidates, tables, ghosts
<1>4. CASE EndCycle
    BY <1>4, NoCycleStep DEF EndCycle, tables, ghosts
<1>5. ASSUME NEW u \in Url, NEW is_valid \in BOOLEAN, Probe(u, is_valid)
      PROVE  CInv'
    <2>1. /\ UNCHANGED <<relay, candidate, known, exhausted, seeded, inserted, pc>>
          /\ pc = "probe"
        BY <1>5 DEF Probe, tables
    <2>2. \/ valid' = valid \cup {u} /\ answered' = answered \cup {u}
          \/ valid' = valid /\ answered' = answered
        BY <1>5 DEF Probe
    <2> QED
        BY <2>1, <2>2 DEF CInv, NoCandidateLost, OnlyAnsweringPromoted, PromoteOrder,
                          ValidAnswered
<1>6. CASE PageProbed \/ PageDone \/ Promoted \/ Stop \/ Restart
    BY <1>6, QuietStep DEF PageProbed, PageDone, Promoted, Stop, Restart, tables, ghosts, cycle
<1>7. CASE PromoteInsert
    <2>1. PICK K \in Chunks(valid \ inserted) :
              relay' = relay \cup K /\ inserted' = inserted \cup K
        BY <1>7 DEF PromoteInsert
    <2>2. K \subseteq valid
        BY <2>1, ChunkSubset
    <2>3. UNCHANGED <<candidate, known, exhausted, answered, seeded, valid, pc>>
        BY <1>7 DEF PromoteInsert, ghosts
    <2> QED
        BY <2>1, <2>2, <2>3 DEF CInv, NoCandidateLost, OnlyAnsweringPromoted, PromoteOrder,
                                ValidAnswered
<1>8. CASE PromoteInserted
    BY <1>8, QuietStep DEF PromoteInserted, tables, ghosts, cycle, CInv, PromoteOrder
<1>9. CASE PromoteDelete
    <2>1. PICK K \in Chunks(valid) :
              candidate' = candidate \ K /\ valid' = valid \ K /\ inserted' = inserted \ K
        BY <1>9 DEF PromoteDelete, Delete
    <2>2. K \subseteq relay
        BY <1>9, <2>1, ChunkSubset DEF PromoteDelete, CInv, PromoteOrder
    <2>3. UNCHANGED <<relay, known, exhausted, answered, seeded, pc>>
        BY <1>9 DEF PromoteDelete
    <2> QED
        BY <2>1, <2>2, <2>3 DEF CInv, NoCandidateLost, OnlyAnsweringPromoted, PromoteOrder,
                                ValidAnswered
<1>10. CASE FailCandidates
    <2>1. /\ candidate \subseteq candidate'
          /\ UNCHANGED <<relay, known, exhausted, answered, seeded, valid, inserted, pc>>
        BY <1>10 DEF FailCandidates
    <2> QED
        BY <2>1 DEF CInv, NoCandidateLost, OnlyAnsweringPromoted, PromoteOrder, ValidAnswered
<1> QED
    BY <1>1, <1>2, <1>3, <1>4, <1>5, <1>6, <1>7, <1>8, <1>9, <1>10 DEF ValidatorStep

\* The inserters' steps.
LEMMA InserterCInv == ASSUME CInv, NEW i \in Inserter, InserterStep(i) PROVE CInv'
<1>1. CASE FilterNewRelays(i) \/ InserterFails(i)
    BY <1>1, QuietStep DEF FilterNewRelays, InserterFails, tables, ghosts, cycle, CInv,
                           PromoteOrder
<1>2. CASE InsertCandidates(i)
    <2>1. PICK K \in Chunks(new[i]) :
              /\ candidate' = candidate \cup K /\ known' = known \cup K
              /\ exhausted' = exhausted \ K
        BY <1>2 DEF InsertCandidates
    <2>2. UNCHANGED <<relay, answered, seeded, valid, inserted, pc>>
        BY <1>2 DEF InsertCandidates
    <2> QED
        BY <2>1, <2>2 DEF CInv, NoCandidateLost, OnlyAnsweringPromoted, PromoteOrder,
                          ValidAnswered
<1> QED
    BY <1>1, <1>2 DEF InserterStep

\* Every step preserves the invariant.
LEMMA NextCInv == ASSUME CInv, [Next]_vars PROVE CInv'
<1>1. CASE SeedRelays
    <2>1. PICK K \in Chunks(Url) : relay' = relay \cup K /\ seeded' = seeded \cup K
        BY <1>1 DEF SeedRelays
    <2>2. UNCHANGED <<candidate, known, exhausted, answered, valid, inserted, pc>>
        BY <1>1 DEF SeedRelays, cycle
    <2> QED
        BY <2>1, <2>2 DEF CInv, NoCandidateLost, OnlyAnsweringPromoted, PromoteOrder,
                          ValidAnswered
<1>2. CASE Tick \/ Shutdown
    BY <1>2, QuietStep DEF Tick, Shutdown, tables, ghosts, cycle, CInv, PromoteOrder
<1>3. CASE ValidatorFails
    BY <1>3, NoCycleStep DEF ValidatorFails, tables, ghosts
<1>4. CASE UNCHANGED vars
    BY <1>4, QuietStep DEF vars, tables, ghosts, cycle, CInv, PromoteOrder
<1> QED
    BY <1>1, <1>2, <1>3, <1>4, ValidatorCInv, InserterCInv DEF Next

\* The invariant holds of every behaviour of Seeder, Finder and Validator.
THEOREM Invariance == Spec => []CInv
<1>1. Init => CInv
    BY InitCInv
<1>2. CInv /\ [Next]_vars => CInv'
    BY NextCInv
<1> QED
    BY <1>1, <1>2, PTL DEF Spec

\* Whatever the inserters do between the Validator's transactions, and
\* wherever it crashes, a URL that was a candidate is a candidate, a relay or
\* was given up after max_failures.
THEOREM NoCandidateLostCorrect == Spec => []NoCandidateLost
<1>1. CInv => NoCandidateLost
    BY DEF CInv
<1> QED
    BY <1>1, Invariance, PTL

\* Only relays that answered a probe, or that the Seeder inserts itself, are
\* ever in the relay table.
THEOREM PromotionCorrect == Spec => []OnlyAnsweringPromoted
<1>1. CInv => OnlyAnsweringPromoted
    BY DEF CInv
<1> QED
    BY <1>1, Invariance, PTL

-----------------------------------------------------------------------------
(* Types *)

\* The types at the start.
LEMMA InitTypeOK == ASSUME Init PROVE TypeOK
BY LifecycleAssumption DEF Init, TypeOK, Pcs, Old

\* Ages stay below their bound.
LEMMA OlderType == ASSUME NEW a \in 0..Old PROVE Older(a) \in 0..Old
BY LifecycleAssumption DEF Old, Older

\* The types of the local state outside a cycle.
LEMMA NoCycleTypes ==
    ASSUME NoCycle
    PROVE  /\ due' \subseteq Url /\ processed' \in Nat /\ page' \subseteq Url
           /\ read' \in [Url -> Nat] /\ valid' \subseteq Url /\ inserted' \subseteq valid'
           /\ invalid' \subseteq Url /\ fail_age' \in 0..Old /\ probed' \subseteq Url
BY LifecycleAssumption DEF NoCycle, Old

\* The types of the rows that are left after a deletion.
LEMMA DeleteTypes ==
    ASSUME TypeOK, NEW gone, Delete(gone)
    PROVE  /\ candidate' \subseteq Url /\ failures' \in [Url -> Nat] /\ due' \subseteq Url
           /\ age' \in [Url -> 0..Old] /\ resets' \in [Url -> Nat]
<1>1. 0 \in 0..Old
    BY LifecycleAssumption DEF Old
<1> QED
    BY <1>1 DEF Delete, TypeOK

\* An upsert resets natural numbers of times.
LEMMA CountTypes ==
    ASSUME TypeOK, CountResets
    PROVE  resets' \in [Url -> Nat]
BY DEF CountResets, TypeOK

\* Every step keeps the types.
LEMMA NextTypeOK == ASSUME TypeOK, [Next]_vars PROVE TypeOK'
<1> USE DEF TypeOK
<1>1. CASE DeletePromoted \/ DeleteExhausted
    <2>1. \E gone : Delete(gone)
        BY <1>1 DEF DeletePromoted, DeleteExhausted
    <2> QED
        BY <1>1, <2>1, DeleteTypes DEF DeletePromoted, DeleteExhausted, Pcs, inserters
<1>2. CASE FetchCandidates
    <2>1. page' \subseteq Url
        BY <1>2 DEF FetchCandidates, FirstPages, Eligible
    <2> QED
        BY <1>2, <2>1 DEF FetchCandidates, Pcs, tables, inserters, ghosts
<1>3. CASE EndCycle
    BY <1>3, NoCycleTypes DEF EndCycle, Pcs, tables, inserters
<1>4. ASSUME NEW u \in Url, NEW is_valid \in BOOLEAN, Probe(u, is_valid) PROVE TypeOK'
    BY <1>4 DEF Probe, tables, inserters
<1>5. CASE PageProbed \/ PromoteInserted \/ PageDone \/ Promoted
    BY <1>5, LifecycleAssumption
       DEF PageProbed, PromoteInserted, PageDone, Promoted, Pcs, tables, inserters, cycle,
           ghosts, Old
<1>6. CASE PromoteInsert
    <2>1. PICK K \in Chunks(valid \ inserted) : relay' = relay \cup K /\ inserted' = inserted \cup K
        BY <1>6 DEF PromoteInsert
    <2>2. K \subseteq valid
        BY ChunkSubset
    <2> QED
        BY <1>6, <2>1, <2>2 DEF PromoteInsert, inserters, ghosts
<1>7. CASE PromoteDelete
    <2>1. PICK K \in Chunks(valid) :
              Delete(K) /\ valid' = valid \ K /\ inserted' = inserted \ K
        BY <1>7 DEF PromoteDelete
    <2> QED
        BY <1>7, <2>1, DeleteTypes DEF PromoteDelete, inserters
<1>8. CASE FailCandidates
    <2>1. PICK K \in Chunks(invalid) :
              /\ candidate' = candidate \cup K
              /\ failures' = [u \in Url |-> IF u \in K THEN read[u] + 1 ELSE failures[u]]
              /\ age' = [u \in Url |-> IF u \in K THEN fail_age ELSE age[u]]
              /\ due' = due \ K /\ invalid' = invalid \ K
        BY <1>8 DEF FailCandidates
    <2>2. K \subseteq invalid
        BY ChunkSubset
    <2>3. failures' \in [Url -> Nat] /\ age' \in [Url -> 0..Old]
        BY <2>1
    <2>4. resets' \in [Url -> Nat]
        BY <1>8, CountTypes DEF FailCandidates
    <2> QED
        BY <1>8, <2>1, <2>2, <2>3, <2>4 DEF FailCandidates, inserters
<1>9. CASE Stop \/ Restart \/ Shutdown
    <2>1. pc' \in Pcs /\ running' \in BOOLEAN
        BY <1>9, Zenon DEF Stop, Restart, Shutdown, Pcs, cycle
    <2>2. faults' \in Nat
        BY <1>9 DEF Stop, Restart, Shutdown, Fault
    <2>3. UNCHANGED <<tables, inserters, cycle, ghosts>>
        BY <1>9 DEF Stop, Restart, Shutdown
    <2> QED
        BY <2>1, <2>2, <2>3 DEF tables, inserters, cycle, ghosts
<1>10. ASSUME NEW i \in Inserter, FilterNewRelays(i) \/ InserterFails(i) PROVE TypeOK'
    <2>1. \E S \in SUBSET Url : new' = [new EXCEPT ![i] = S]
        BY <1>10 DEF FilterNewRelays, InserterFails
    <2>2. new_age' = [new_age EXCEPT ![i] = 0] /\ 0 \in 0..Old
        BY <1>10, LifecycleAssumption DEF FilterNewRelays, InserterFails, Old
    <2>3. new' \in [Inserter -> SUBSET Url] /\ new_age' \in [Inserter -> 0..Old]
        BY <2>1, <2>2
    <2> QED
        BY <1>10, <2>3 DEF FilterNewRelays, InserterFails, Fault, tables, cycle, ghosts
<1>11. ASSUME NEW i \in Inserter, InsertCandidates(i) PROVE TypeOK'
    <2>1. PICK K \in Chunks(new[i]) :
              /\ candidate' = candidate \cup K
              /\ failures' = [u \in Url |-> IF u \in K THEN 0 ELSE failures[u]]
              /\ age' = [u \in Url |-> IF u \in K THEN new_age[i] ELSE age[u]]
              /\ due' = due \ K
              /\ new' = [new EXCEPT ![i] = @ \ K]
              /\ new_age' = [new_age EXCEPT ![i] = IF new[i] = K THEN 0 ELSE @]
              /\ known' = known \cup K /\ exhausted' = exhausted \ K
              /\ probed' = probed \ K
        BY <1>11 DEF InsertCandidates
    <2>2. K \subseteq Url /\ 0 \in 0..Old
        BY ChunkSubset, LifecycleAssumption DEF Old
    <2>3. failures' \in [Url -> Nat] /\ age' \in [Url -> 0..Old]
        BY <2>1
    <2>4. new' \in [Inserter -> SUBSET Url] /\ new_age' \in [Inserter -> 0..Old]
        BY <2>1, <2>2
    <2>5. resets' \in [Url -> Nat]
        BY <1>11, CountTypes DEF InsertCandidates
    <2> QED
        BY <1>11, <2>1, <2>2, <2>3, <2>4, <2>5 DEF InsertCandidates
<1>12. CASE SeedRelays
    <2>1. PICK K \in Chunks(Url) : relay' = relay \cup K /\ seeded' = seeded \cup K
        BY <1>12 DEF SeedRelays
    <2>2. K \subseteq Url
        BY ChunkSubset
    <2> QED
        BY <1>12, <2>1, <2>2 DEF SeedRelays, inserters, cycle
<1>13. CASE Tick
    <2>1. 0 \in 0..Old
        BY LifecycleAssumption DEF Old
    <2>2. age' \in [Url -> 0..Old] /\ new_age' \in [Inserter -> 0..Old] /\ fail_age' \in 0..Old
        BY <1>13, <2>1, OlderType DEF Tick
    <2> QED
        BY <1>13, <2>2 DEF Tick, ghosts
<1>14. CASE ValidatorFails
    <2>1. /\ UNCHANGED <<tables, inserters, answered, seeded, exhausted, known, resets>>
          /\ pc' = "idle"
        BY <1>14 DEF ValidatorFails
    <2>2. running' \in BOOLEAN
        BY <1>14, Zenon DEF ValidatorFails
    <2>3. faults' \in Nat
        BY <1>14 DEF ValidatorFails, Fault
    <2> QED
        BY <1>14, <2>1, <2>2, <2>3, NoCycleTypes DEF ValidatorFails, Pcs, tables, inserters
<1>15. CASE UNCHANGED vars
    BY <1>15 DEF vars, tables, inserters, cycle, ghosts
<1>16. CASE StartCycle
    BY <1>16 DEF StartCycle, Pcs, tables, inserters
<1> QED
    BY <1>1, <1>2, <1>3, <1>4, <1>5, <1>6, <1>7, <1>8, <1>9, <1>10, <1>11, <1>12, <1>13,
       <1>14, <1>15, <1>16 DEF Next, ValidatorStep, InserterStep

\* The rows and the Validator's local state stay well typed.
THEOREM TypeCorrect == Spec => []TypeOK
<1>1. Init => TypeOK
    BY InitTypeOK
<1>2. TypeOK /\ [Next]_vars => TypeOK'
    BY NextTypeOK
<1> QED
    BY <1>1, <1>2, PTL DEF Spec

-----------------------------------------------------------------------------
(* The page loop beside any inserters *)

Cycle == {"loop", "probe", "promote_insert", "promote_delete", "fail"}

\* The inserters that still hold a URL they found to be new.
Holders(u) == {i \in Inserting : u \in new[i]}

\* Only they can reset the failures of a candidate, and one inserter has made
\* its row.
ResetsOK ==
    /\ \A i \in Inserter \ Inserting : new[i] = {}
    /\ \A u \in candidate : resets[u] + Cardinality(Holders(u)) < Cardinality(Inserting)

\* Each phase works on what the one before it left.
PhaseOK ==
    /\ pc # "probe" => page = {}
    /\ pc \notin {"probe", "promote_insert", "promote_delete"} => valid = {}
    /\ pc \notin Cycle \ {"loop"} => invalid = {}

\* A candidate in progress is in one place, and its row is there, with the
\* failures that were read unless an inserter has reset them.
HeldOK ==
    /\ page \subseteq candidate /\ valid \subseteq candidate /\ invalid \subseteq candidate
    /\ page \cap valid = {} /\ page \cap invalid = {} /\ valid \cap invalid = {}
    /\ \A u \in page \cup invalid : failures[u] <= read[u]

\* A probed candidate is in progress, is a relay, or has failed and is not due
\* again.
ProbedOK ==
    pc \in Cycle =>
        \A u \in probed :
            /\ u \in candidate \cup relay /\ u \notin page
            /\ u \in candidate => u \in valid \cup invalid \/ (failures[u] # 0 /\ u \notin due)

\* The inductive invariant of the Validator beside any inserters.
QInv == TypeOK /\ CInv /\ ResetsOK /\ PhaseOK /\ HeldOK /\ ProbedOK

\* What the steps below preserve together.
QParts == PhaseOK /\ HeldOK /\ ProbedOK

\* No cycle has begun.
LEMMA InitQ == ASSUME Init PROVE QParts
BY DEF Init, QParts, PhaseOK, HeldOK, ProbedOK, Cycle

\* Outside a cycle nothing is held and nothing has to be remembered.
LEMMA OutsideStep ==
    ASSUME page' = {}, valid' = {}, invalid' = {}, pc' \notin Cycle
    PROVE  QParts'
BY DEF QParts, PhaseOK, HeldOK, ProbedOK

\* cleanup and the start of a cycle.
LEMMA CleanupQ ==
    ASSUME QInv, DeletePromoted \/ DeleteExhausted \/ StartCycle \/ EndCycle \/ Stop \/ Restart
    PROVE  QParts'
<1>1. CASE DeletePromoted \/ DeleteExhausted
    <2>1. /\ candidate' \subseteq candidate /\ pc' \notin Cycle /\ pc \notin Cycle
          /\ UNCHANGED <<page, valid, invalid>>
        BY <1>1 DEF DeletePromoted, DeleteExhausted, Delete, Cycle
    <2>2. page = {} /\ valid = {} /\ invalid = {}
        BY <2>1 DEF QInv, PhaseOK, Cycle
    <2> QED
        BY <2>1, <2>2, OutsideStep
<1>2. CASE StartCycle
    <2>1. /\ pc = "cleaned" /\ pc' = "loop" /\ probed' = {}
          /\ UNCHANGED <<page, valid, invalid>>
        BY <1>2 DEF StartCycle
    <2>2. page = {} /\ valid = {} /\ invalid = {}
        BY <2>1 DEF QInv, PhaseOK, Cycle
    <2> QED
        BY <2>1, <2>2 DEF QParts, PhaseOK, HeldOK, ProbedOK, Cycle
<1>3. CASE EndCycle
    BY <1>3, OutsideStep DEF EndCycle, NoCycle, Cycle
<1>4. CASE Stop \/ Restart
    <2>1. /\ pc \in {"idle", "stopped"} /\ pc' \in {"idle", "stopped"}
          /\ UNCHANGED <<page, valid, invalid>>
        BY <1>4 DEF Stop, Restart, cycle
    <2>2. page = {} /\ valid = {} /\ invalid = {}
        BY <2>1 DEF QInv, PhaseOK, Cycle
    <2> QED
        BY <2>1, <2>2, OutsideStep DEF Cycle
<1> QED
    BY <1>1, <1>2, <1>3, <1>4

\* A page: no candidate on it was probed before.
LEMMA FreshPage == ASSUME QInv, FetchCandidates PROVE page' \subseteq candidate \ probed
<1>1. pc = "loop" /\ page' \subseteq Eligible
    BY DEF FetchCandidates, FirstPages
<1>2. valid = {} /\ invalid = {}
    BY <1>1 DEF QInv, PhaseOK, Cycle
<1>3. \A u \in probed : u \in candidate => failures[u] # 0 /\ u \notin due
    BY <1>1, <1>2 DEF QInv, ProbedOK, Cycle
<1> QED
    BY <1>1, <1>3 DEF Eligible

\* The page loop up to the verdicts.
LEMMA PageQ ==
    ASSUME QInv,
           \/ FetchCandidates \/ PageProbed
           \/ \E u \in Url, is_valid \in BOOLEAN : Probe(u, is_valid)
    PROVE  QParts'
<1>1. CASE FetchCandidates
    <2>1. /\ pc = "loop" /\ pc' = "probe"
          /\ UNCHANGED <<relay, candidate, failures, due, valid, invalid, probed>>
          /\ read' = [u \in Url |-> IF u \in page' THEN failures[u] ELSE 0]
        BY <1>1 DEF FetchCandidates, tables, ghosts
    <2>2. page' \subseteq candidate \ probed /\ candidate \subseteq Url
        BY <1>1, FreshPage DEF QInv, TypeOK
    <2>3. valid = {} /\ invalid = {}
        BY <2>1 DEF QInv, PhaseOK, Cycle
    <2>4. HeldOK'
        BY <2>1, <2>2, <2>3 DEF HeldOK, QInv, TypeOK
    <2>5. ProbedOK'
        BY <2>1, <2>2 DEF QInv, ProbedOK, Cycle
    <2> QED
        BY <2>1, <2>3, <2>4, <2>5 DEF QInv, QParts, PhaseOK, Cycle
<1>2. CASE PageProbed
    <2>1. /\ pc = "probe" /\ page = {} /\ pc' = "promote_insert"
          /\ UNCHANGED <<relay, candidate, failures, due, page, read, valid, invalid, probed>>
        BY <1>2 DEF PageProbed, tables, cycle, ghosts
    <2> QED
        BY <2>1 DEF QInv, QParts, PhaseOK, HeldOK, ProbedOK, Cycle
<1>3. ASSUME NEW u \in Url, NEW is_valid \in BOOLEAN, Probe(u, is_valid) PROVE QParts'
    <2>1. /\ pc = "probe" /\ u \in page /\ page' = page \ {u} /\ probed' = probed \cup {u}
          /\ UNCHANGED <<relay, candidate, failures, due, read, pc>>
        BY <1>3 DEF Probe, tables
    <2>2. \/ valid' = valid \cup {u} /\ invalid' = invalid
          \/ valid' = valid /\ invalid' = invalid \cup {u}
        BY <1>3 DEF Probe
    <2>3. u \in candidate /\ u \notin valid /\ u \notin invalid
        BY <2>1 DEF QInv, HeldOK
    <2>4. HeldOK'
        BY <2>1, <2>2, <2>3 DEF QInv, HeldOK
    <2>5. ProbedOK'
        BY <2>1, <2>2, <2>3 DEF QInv, ProbedOK
    <2>6. PhaseOK'
        BY <2>1, <2>2 DEF QInv, PhaseOK, Cycle
    <2> QED
        BY <2>4, <2>5, <2>6 DEF QParts
<1> QED
    BY <1>1, <1>2, <1>3

\* Promotion.
LEMMA PromoteQ ==
    ASSUME QInv, PromoteInsert \/ PromoteInserted \/ PromoteDelete \/ Promoted
    PROVE  QParts'
<1>1. CASE PromoteInsert \/ PromoteInserted \/ Promoted
    <2>1. relay \subseteq relay'
        <3>1. PromoteInsert => relay \subseteq relay'
            BY DEF PromoteInsert
        <3> QED
            BY <1>1, <3>1 DEF PromoteInserted, Promoted, tables
    <2>2. UNCHANGED <<candidate, failures, due, page, read, valid, invalid, probed>>
        BY <1>1 DEF PromoteInsert, PromoteInserted, Promoted, tables, cycle, ghosts
    <2>3. \/ pc = "promote_insert" /\ pc' \in {"promote_insert", "promote_delete"}
          \/ pc = "promote_delete" /\ pc' = "fail" /\ valid = {}
        BY <1>1 DEF PromoteInsert, PromoteInserted, Promoted
    <2> QED
        BY <2>1, <2>2, <2>3 DEF QInv, QParts, PhaseOK, HeldOK, ProbedOK, Cycle
<1>2. CASE PromoteDelete
    <2>1. PICK K \in Chunks(valid) :
              /\ candidate' = candidate \ K /\ valid' = valid \ K /\ due' = due \ K
              /\ failures' = [u \in Url |-> IF u \in K THEN 0 ELSE failures[u]]
        BY <1>2 DEF PromoteDelete, Delete
    <2>2. /\ pc = "promote_delete"
          /\ UNCHANGED <<relay, page, read, invalid, probed, pc>>
        BY <1>2 DEF PromoteDelete
    <2>3. K \subseteq valid /\ K \subseteq relay
        BY <2>2, ChunkSubset DEF QInv, CInv, PromoteOrder
    <2>4. HeldOK'
        BY <2>1, <2>2, <2>3 DEF QInv, HeldOK, TypeOK
    <2>5. ProbedOK'
        BY <2>1, <2>2, <2>3 DEF QInv, ProbedOK, TypeOK
    <2> QED
        BY <2>1, <2>2, <2>4, <2>5 DEF QInv, QParts, PhaseOK, Cycle
<1> QED
    BY <1>1, <1>2

\* Failed candidates keep their row, count one failure more and are not due.
LEMMA FailStep ==
    ASSUME QInv, FailCandidates
    PROVE  /\ candidate' = candidate
           /\ \E K \in Chunks(invalid) :
                 /\ K \subseteq invalid /\ due' = due \ K /\ invalid' = invalid \ K
                 /\ \A u \in K : failures'[u] = read[u] + 1 /\ failures[u] <= read[u]
                 /\ \A u \in Url \ K : failures'[u] = failures[u]
<1>1. PICK K \in Chunks(invalid) :
          /\ candidate' = candidate \cup K
          /\ failures' = [u \in Url |-> IF u \in K THEN read[u] + 1 ELSE failures[u]]
          /\ due' = due \ K /\ invalid' = invalid \ K
    BY DEF FailCandidates
<1>2. K \subseteq invalid /\ invalid \subseteq candidate /\ invalid \subseteq Url
    BY ChunkSubset DEF QInv, HeldOK, TypeOK
<1>3. \A u \in K : failures[u] <= read[u]
    BY <1>2 DEF QInv, HeldOK
<1>4. candidate' = candidate
    BY <1>1, <1>2
<1> QED
    BY <1>1, <1>2, <1>3, <1>4

\* The failed candidates and the end of the page.
LEMMA FailQ == ASSUME QInv, FailCandidates \/ PageDone PROVE QParts'
<1>1. CASE FailCandidates
    <2>1. PICK K \in Chunks(invalid) :
              /\ K \subseteq invalid /\ due' = due \ K /\ invalid' = invalid \ K
              /\ \A u \in K : failures'[u] = read[u] + 1 /\ failures[u] <= read[u]
              /\ \A u \in Url \ K : failures'[u] = failures[u]
        BY <1>1, FailStep
    <2>2. candidate' = candidate
        BY <1>1, FailStep
    <2>3. pc = "fail" /\ UNCHANGED <<relay, page, read, valid, probed, pc>>
        BY <1>1 DEF FailCandidates
    <2>4. /\ page = {} /\ invalid \subseteq Url /\ candidate \subseteq Url
          /\ failures \in [Url -> Nat] /\ read \in [Url -> Nat]
        BY <2>3 DEF QInv, PhaseOK, TypeOK
    <2>5. HeldOK'
        BY <2>1, <2>2, <2>3, <2>4 DEF QInv, HeldOK
    <2>6. ProbedOK'
        <3> SUFFICES ASSUME NEW u \in probed
                     PROVE  /\ u \in candidate \cup relay /\ u \notin page
                            /\ u \in candidate =>
                                  \/ u \in valid \cup invalid'
                                  \/ failures'[u] # 0 /\ u \notin due'
            BY <2>2, <2>3 DEF ProbedOK
        <3>1. /\ u \in candidate \cup relay /\ u \notin page
              /\ u \in candidate => u \in valid \cup invalid \/ (failures[u] # 0 /\ u \notin due)
            BY <2>3 DEF QInv, ProbedOK, Cycle
        <3>2. CASE u \in K
            <4>1. failures'[u] # 0 /\ u \notin due'
                BY <2>1, <2>4, <3>2
            <4> QED
                BY <3>1, <4>1
        <3>3. CASE u \notin K
            <4>1. u \in candidate => failures'[u] = failures[u]
                BY <2>1, <2>4, <3>3
            <4> QED
                BY <2>1, <3>1, <3>3, <4>1
        <3> QED
            BY <3>2, <3>3
    <2> QED
        BY <2>1, <2>2, <2>3, <2>5, <2>6 DEF QInv, QParts, PhaseOK, Cycle
<1>2. CASE PageDone
    <2>1. /\ pc = "fail" /\ invalid = {} /\ pc' = "loop"
          /\ UNCHANGED <<relay, candidate, failures, due, page, read, valid, invalid, probed>>
        BY <1>2 DEF PageDone, tables, ghosts
    <2> QED
        BY <2>1 DEF QInv, QParts, PhaseOK, HeldOK, ProbedOK, Cycle
<1> QED
    BY <1>1, <1>2

\* What an inserter writes counts no failure and was not probed.
LEMMA InsertStep ==
    ASSUME QInv, NEW i \in Inserter, InsertCandidates(i)
    PROVE  \E K \in SUBSET Url :
               /\ K \subseteq new[i] /\ candidate' = candidate \cup K /\ due' = due \ K
               /\ new' = [new EXCEPT ![i] = @ \ K] /\ probed' = probed \ K
               /\ \A u \in K : failures'[u] = 0
               /\ \A u \in Url \ K : failures'[u] = failures[u]
<1>1. PICK K \in Chunks(new[i]) :
          /\ candidate' = candidate \cup K /\ due' = due \ K
          /\ failures' = [u \in Url |-> IF u \in K THEN 0 ELSE failures[u]]
          /\ new' = [new EXCEPT ![i] = @ \ K] /\ probed' = probed \ K
    BY DEF InsertCandidates
<1>2. K \subseteq new[i] /\ K \subseteq Url
    BY ChunkSubset DEF QInv, TypeOK
<1> QED
    BY <1>1, <1>2

\* An inserter.
LEMMA InserterQ == ASSUME QInv, NEW i \in Inserter, InserterStep(i) PROVE QParts'
<1>1. CASE FilterNewRelays(i) \/ InserterFails(i)
    <2>1. UNCHANGED <<relay, candidate, failures, pc, due, page, read, valid, invalid, probed>>
        BY <1>1 DEF FilterNewRelays, InserterFails, tables, cycle, ghosts
    <2> QED
        BY <2>1 DEF QInv, QParts, PhaseOK, HeldOK, ProbedOK, Cycle
<1>2. CASE InsertCandidates(i)
    <2>1. PICK K \in SUBSET Url :
              /\ candidate' = candidate \cup K /\ due' = due \ K /\ probed' = probed \ K
              /\ \A u \in K : failures'[u] = 0
              /\ \A u \in Url \ K : failures'[u] = failures[u]
        BY <1>2, InsertStep
    <2>2. UNCHANGED <<relay, pc, page, read, valid, invalid>>
        BY <1>2 DEF InsertCandidates
    <2>3. /\ candidate \subseteq Url /\ page \subseteq Url /\ invalid \subseteq Url
          /\ read \in [Url -> Nat]
        BY DEF QInv, TypeOK
    <2>4. HeldOK'
        BY <2>1, <2>2, <2>3 DEF QInv, HeldOK
    <2>5. ProbedOK'
        BY <2>1, <2>2, <2>3 DEF QInv, ProbedOK
    <2> QED
        BY <2>2, <2>4, <2>5 DEF QInv, QParts, PhaseOK, Cycle
<1> QED
    BY <1>1, <1>2 DEF InserterStep

-----------------------------------------------------------------------------
(* Resets *)

\* Some inserters, fewer than all of them.
LEMMA HoldersFinite ==
    ASSUME NEW S \in SUBSET Inserting
    PROVE  /\ IsFiniteSet(S) /\ Cardinality(S) \in Nat /\ Cardinality(Inserting) \in Nat
           /\ \A T \in SUBSET S : Cardinality(T) <= Cardinality(S)
           /\ \A i \in S : Cardinality(S \ {i}) = Cardinality(S) - 1
           /\ \A i \in Inserting \ S : Cardinality(S) < Cardinality(Inserting)
<1>1. IsFiniteSet(Inserting)
    <2>1. Inserting \in SUBSET Inserter /\ IsFiniteSet(Inserter)
        BY LifecycleAssumption DEF Inserting
    <2> QED
        BY <2>1, FS_Subset
<1>2. IsFiniteSet(S) /\ Cardinality(S) \in Nat /\ Cardinality(Inserting) \in Nat
    BY <1>1, FS_Subset, FS_CardinalityType
<1>3. \A T \in SUBSET S : Cardinality(T) <= Cardinality(S)
    BY <1>2, FS_Subset
<1>4. \A i \in S : Cardinality(S \ {i}) = Cardinality(S) - 1
    BY <1>2, FS_RemoveElement
<1>5. ASSUME NEW i \in Inserting \ S
      PROVE  Cardinality(S) < Cardinality(Inserting)
    <2>1. Cardinality(S) <= Cardinality(Inserting) /\ S # Inserting
        BY <1>1, FS_Subset
    <2>2. Cardinality(S) # Cardinality(Inserting)
        BY <1>1, <2>1, FS_Subset
    <2> QED
        BY <1>2, <2>1, <2>2
<1> QED
    BY <1>2, <1>3, <1>4, <1>5

\* Steps after which no candidate is new, none was reset and no inserter has
\* taken one up.
LEMMA NoReset ==
    ASSUME QInv, to_validate' = to_validate, candidate' \subseteq candidate,
           new' \in [Inserter -> SUBSET Url],
           \A u \in candidate' : resets'[u] = resets[u],
           \A i \in Inserter : /\ new'[i] \cap candidate' \subseteq new[i]
                               /\ i \notin Inserting => new'[i] = {}
    PROVE  ResetsOK'
<1>1. Inserting' = Inserting
    BY DEF Inserting
<1>2. ASSUME NEW u \in candidate'
      PROVE  resets'[u] + Cardinality(Holders(u)') < Cardinality(Inserting')
    <2>1. Holders(u)' \in SUBSET Holders(u) /\ Holders(u) \in SUBSET Inserting
        BY <1>1, <1>2 DEF Holders, Inserting
    <2>2. /\ Cardinality(Holders(u)') \in Nat /\ Cardinality(Holders(u)) \in Nat
          /\ Cardinality(Holders(u)') <= Cardinality(Holders(u))
          /\ Cardinality(Inserting) \in Nat
        BY <2>1, HoldersFinite
    <2>3. resets[u] + Cardinality(Holders(u)) < Cardinality(Inserting)
        BY <1>2 DEF QInv, ResetsOK
    <2>4. resets[u] \in Nat /\ resets'[u] = resets[u]
        BY <1>2 DEF QInv, TypeOK
    <2> QED
        BY <1>1, <2>2, <2>3, <2>4
<1> QED
    BY <1>1, <1>2 DEF ResetsOK

\* An upsert: the inserter no longer holds what it has written.
LEMMA InsertResets ==
    ASSUME QInv, NEW i \in Inserter, InsertCandidates(i)
    PROVE  ResetsOK'
<1>1. PICK K \in SUBSET Url :
          /\ K \subseteq new[i] /\ candidate' = candidate \cup K
          /\ new' = [new EXCEPT ![i] = @ \ K]
          /\ \A u \in K : failures'[u] = 0
          /\ \A u \in Url \ K : failures'[u] = failures[u]
    BY InsertStep
<1>2. /\ new \in [Inserter -> SUBSET Url] /\ resets \in [Url -> Nat]
      /\ failures \in [Url -> Nat] /\ candidate \subseteq Url
    BY DEF QInv, TypeOK
<1>3. to_validate' = to_validate /\ Inserting' = Inserting /\ CountResets
    BY DEF InsertCandidates, Inserting
<1>4. i \in Inserting
    BY DEF QInv, ResetsOK, InsertCandidates
<1>5. ASSUME NEW u \in K
      PROVE  resets'[u] + Cardinality(Holders(u)') < Cardinality(Inserting)
    <2>1. u \in new[i] /\ i \in Holders(u) /\ Holders(u)' = Holders(u) \ {i}
        BY <1>1, <1>2, <1>3, <1>4, <1>5 DEF Holders
    <2>2. Holders(u) \in SUBSET Inserting
        BY DEF Holders
    <2>3. /\ Cardinality(Holders(u)') = Cardinality(Holders(u)) - 1
          /\ Cardinality(Holders(u)) \in Nat /\ Cardinality(Inserting) \in Nat
        BY <2>1, <2>2, HoldersFinite
    <2>4. CASE u \in candidate
        <3>1. resets'[u] \in Nat /\ resets'[u] <= resets[u] + 1 /\ resets[u] \in Nat
            BY <1>2, <1>3, <1>5 DEF CountResets
        <3>2. resets[u] + Cardinality(Holders(u)) < Cardinality(Inserting)
            BY <2>4 DEF QInv, ResetsOK
        <3> QED
            BY <2>3, <3>1, <3>2
    <2>5. CASE u \notin candidate
        <3>1. resets'[u] = 0
            BY <1>3, <1>5, <2>5 DEF CountResets
        <3>2. Holders(u)' \in SUBSET Inserting /\ i \in Inserting \ Holders(u)'
            BY <1>4, <2>1, <2>2
        <3>3. Cardinality(Holders(u)') < Cardinality(Inserting)
            BY <3>2, HoldersFinite
        <3> QED
            BY <2>3, <3>1, <3>3
    <2> QED
        BY <2>4, <2>5
<1>6. ASSUME NEW u \in candidate \ K
      PROVE  resets'[u] + Cardinality(Holders(u)') < Cardinality(Inserting)
    <2>1. resets'[u] = resets[u]
        <3>1. failures'[u] = failures[u] /\ failures[u] \in Nat /\ resets[u] \in Nat
            BY <1>1, <1>2, <1>6
        <3> QED
            BY <1>2, <1>3, <1>6, <3>1 DEF CountResets
    <2>2. Holders(u)' = Holders(u)
        BY <1>1, <1>2, <1>3, <1>6 DEF Holders
    <2> QED
        BY <1>6, <2>1, <2>2 DEF QInv, ResetsOK
<1>7. \A k \in Inserter \ Inserting : new'[k] = {}
    BY <1>1, <1>2, <1>4 DEF QInv, ResetsOK
<1> QED
    BY <1>1, <1>3, <1>5, <1>6, <1>7 DEF ResetsOK

\* The steps of the inserters.
LEMMA InserterResets == ASSUME QInv, NEW i \in Inserter, InserterStep(i) PROVE ResetsOK'
<1>1. CASE FilterNewRelays(i)
    <2>1. /\ UNCHANGED <<to_validate, candidate, resets>> /\ i \in Inserting
          /\ \E S \in SUBSET Url : S \cap candidate = {} /\ new' = [new EXCEPT ![i] = S]
        <3>1. PICK found \in SUBSET Url :
                  new' = [new EXCEPT ![i] = found \ (relay \cup candidate)]
            BY <1>1 DEF FilterNewRelays
        <3> QED
            BY <1>1, <3>1 DEF FilterNewRelays, tables, ghosts
    <2>2. PICK S \in SUBSET Url : S \cap candidate = {} /\ new' = [new EXCEPT ![i] = S]
        BY <2>1
    <2>3. new \in [Inserter -> SUBSET Url] /\ \A k \in Inserter \ Inserting : new[k] = {}
        BY DEF QInv, TypeOK, ResetsOK
    <2>4. /\ new' \in [Inserter -> SUBSET Url]
          /\ \A k \in Inserter : /\ new'[k] \cap candidate' \subseteq new[k]
                                 /\ k \notin Inserting => new'[k] = {}
        BY <2>1, <2>2, <2>3
    <2> QED
        BY <2>1, <2>4, NoReset
<1>2. CASE InserterFails(i)
    <2>1. /\ UNCHANGED <<to_validate, candidate, resets>> /\ new' = [new EXCEPT ![i] = {}]
        BY <1>2 DEF InserterFails, tables, ghosts
    <2>2. new \in [Inserter -> SUBSET Url] /\ \A k \in Inserter \ Inserting : new[k] = {}
        BY DEF QInv, TypeOK, ResetsOK
    <2>3. /\ new' \in [Inserter -> SUBSET Url]
          /\ \A k \in Inserter : /\ new'[k] \cap candidate' \subseteq new[k]
                                 /\ k \notin Inserting => new'[k] = {}
        BY <2>1, <2>2
    <2> QED
        BY <2>1, <2>3, NoReset
<1> QED
    BY <1>1, <1>2, InsertResets DEF InserterStep

\* The other steps: the failed candidates are written with at least the
\* failures that they have.
LEMMA OtherResets ==
    ASSUME QInv,
           ValidatorStep \/ SeedRelays \/ Tick \/ Shutdown \/ ValidatorFails \/ UNCHANGED vars
    PROVE  ResetsOK'
<1>1. UNCHANGED <<new, to_validate>>
    BY DEF ValidatorStep, DeletePromoted, DeleteExhausted, StartCycle, FetchCandidates,
           EndCycle, Probe, PageProbed, PromoteInsert, PromoteInserted, PromoteDelete,
           Promoted, FailCandidates, PageDone, Stop, Restart, SeedRelays, Tick, Shutdown,
           ValidatorFails, vars, inserters
<1>2. /\ new' \in [Inserter -> SUBSET Url]
      /\ \A i \in Inserter : i \notin Inserting => new'[i] = {}
      /\ candidate \subseteq Url /\ failures \in [Url -> Nat] /\ read \in [Url -> Nat]
      /\ resets \in [Url -> Nat]
    BY <1>1 DEF QInv, TypeOK, ResetsOK
<1>3. candidate' \subseteq candidate /\ \A u \in candidate' : resets'[u] = resets[u]
    <2>1. CASE FailCandidates
        <3>1. candidate' = candidate /\ CountResets
            BY <2>1, FailStep DEF FailCandidates
        <3>2. PICK K \in Chunks(invalid) :
                  /\ K \subseteq invalid
                  /\ \A u \in K : failures'[u] = read[u] + 1 /\ failures[u] <= read[u]
                  /\ \A u \in Url \ K : failures'[u] = failures[u]
            BY <2>1, FailStep
        <3>3. \A u \in candidate : ~(failures'[u] < failures[u])
            BY <1>2, <3>2
        <3> QED
            BY <1>2, <3>1, <3>3 DEF CountResets
    <2>2. ASSUME NEW gone, Delete(gone)
          PROVE  candidate' \subseteq candidate /\ \A u \in candidate' : resets'[u] = resets[u]
        BY <1>2, <2>2 DEF Delete
    <2>3. CASE UNCHANGED <<candidate, resets>>
        BY <2>3
    <2>4. \/ FailCandidates \/ UNCHANGED <<candidate, resets>> \/ \E gone : Delete(gone)
        <3>1. DeletePromoted \/ DeleteExhausted \/ PromoteDelete => \E gone : Delete(gone)
            BY DEF DeletePromoted, DeleteExhausted, PromoteDelete
        <3>2. ValidatorStep => \/ DeletePromoted \/ DeleteExhausted \/ PromoteDelete
                               \/ FailCandidates \/ UNCHANGED <<candidate, resets>>
            BY DEF ValidatorStep, StartCycle, FetchCandidates, EndCycle, Probe, PageProbed,
                   PromoteInsert, PromoteInserted, Promoted, PageDone, Stop, Restart, tables,
                   ghosts
        <3>3. SeedRelays \/ Tick \/ Shutdown \/ ValidatorFails \/ UNCHANGED vars
                  => UNCHANGED <<candidate, resets>>
            BY DEF SeedRelays, Tick, Shutdown, ValidatorFails, vars, tables, ghosts
        <3> QED
            BY <3>1, <3>2, <3>3
    <2> QED
        BY <2>1, <2>2, <2>3, <2>4
<1> QED
    BY <1>1, <1>2, <1>3, NoReset

\* Every step preserves the invariant.
LEMMA NextQInv == ASSUME QInv, [Next]_vars PROVE QInv'
<1>1. TypeOK' /\ CInv' /\ ResetsOK'
    BY NextTypeOK, NextCInv, InserterResets, OtherResets DEF QInv, Next
<1>2. CASE SeedRelays \/ Tick \/ Shutdown \/ UNCHANGED vars
    <2>1. relay \subseteq relay'
        <3>1. SeedRelays => relay \subseteq relay'
            BY DEF SeedRelays
        <3> QED
            BY <1>2, <3>1 DEF Tick, Shutdown, vars, tables
    <2>2. UNCHANGED <<candidate, failures, pc, due, page, read, valid, invalid, probed>>
        BY <1>2 DEF SeedRelays, Tick, Shutdown, vars, tables, cycle, ghosts
    <2>3. QParts'
        BY <2>1, <2>2 DEF QInv, QParts, PhaseOK, HeldOK, ProbedOK, Cycle
    <2> QED
        BY <1>1, <2>3 DEF QInv, QParts
<1>3. CASE ValidatorFails
    <2>1. QParts'
        BY <1>3, OutsideStep DEF ValidatorFails, NoCycle, Cycle
    <2> QED
        BY <1>1, <2>1 DEF QInv, QParts
<1>4. CASE ValidatorStep
    BY <1>1, <1>4, CleanupQ, PageQ, PromoteQ, FailQ DEF ValidatorStep, QInv, QParts
<1>5. ASSUME NEW i \in Inserter, InserterStep(i) PROVE QInv'
    BY <1>1, <1>5, InserterQ DEF QInv, QParts
<1> QED
    BY <1>2, <1>3, <1>4, <1>5 DEF Next

\* The invariant holds beside any inserters.
THEOREM PageLoopInvariance == Spec => []QInv
<1>1. Init => QInv
    <2>1. Init => ResetsOK
        BY DEF Init, ResetsOK
    <2> QED
        BY <2>1, InitTypeOK, InitCInv, InitQ DEF QInv, QParts
<1>2. QInv /\ [Next]_vars => QInv'
    BY NextQInv
<1> QED
    BY <1>1, <1>2, PTL DEF Spec

\* Whatever its page loop meets, the Validator does not probe a candidate
\* twice in a cycle, unless an inserter has replaced its row: a failed one is
\* stamped and a promoted one is gone before the next page is fetched.
THEOREM NoneIsProbedTwice == Spec => ProbedOnce
<1> DEFINE A == page' \ page \subseteq Url \ probed
<1>1. ASSUME QInv, [Next]_vars PROVE A
    <2>1. CASE FetchCandidates
        BY <1>1, <2>1, FreshPage DEF QInv, TypeOK
    <2>2. CASE ~FetchCandidates
        <3>1. page' \subseteq page
            <4>1. ValidatorStep => page' \subseteq page
                <5>1. \A u \in Url, is_valid \in BOOLEAN :
                          Probe(u, is_valid) => page' \subseteq page
                    BY DEF Probe
                <5>2. EndCycle => page' \subseteq page
                    BY DEF EndCycle, NoCycle
                <5> QED
                    BY <2>2, <5>1, <5>2
                       DEF ValidatorStep, DeletePromoted, DeleteExhausted, StartCycle, PageProbed,
                           PromoteInsert, PromoteInserted, PromoteDelete, Promoted,
                           FailCandidates, PageDone, Stop, Restart, cycle
            <4>2. \A i \in Inserter : InserterStep(i) => page' = page
                BY DEF InserterStep, FilterNewRelays, InsertCandidates, InserterFails, cycle
            <4>3. SeedRelays \/ Tick \/ Shutdown \/ UNCHANGED vars => page' = page
                BY DEF SeedRelays, Tick, Shutdown, vars, cycle
            <4>4. ValidatorFails => page' = {}
                BY DEF ValidatorFails, NoCycle
            <4> QED
                BY <1>1, <4>1, <4>2, <4>3, <4>4 DEF Next
        <3> QED
            BY <3>1
    <2> QED
        BY <2>1, <2>2
<1>2. ASSUME QInv, [Next]_vars PROVE [A]_vars
    BY <1>1, <1>2
<1> QED
    BY <1>2, PageLoopInvariance, PTL DEF Spec, ProbedOnce

\* However many processes insert candidates, and wherever their SELECTs and
\* upserts and the Validator's steps cross, the failures of a candidate go
\* back at most once for each inserter but the one that made its row: never,
\* when there is only one.
THEOREM ResetsAreLimited == Spec => []ResetsLimited
<1>1. ASSUME QInv PROVE ResetsLimited
    <2> SUFFICES ASSUME NEW u \in candidate PROVE resets[u] < Cardinality(Inserting)
        BY DEF ResetsLimited
    <2>1. resets[u] \in Nat /\ resets[u] + Cardinality(Holders(u)) < Cardinality(Inserting)
        BY <1>1 DEF QInv, TypeOK, ResetsOK
    <2>2. Cardinality(Holders(u)) \in Nat /\ Cardinality(Inserting) \in Nat
        BY HoldersFinite DEF Holders
    <2> QED
        BY <2>1, <2>2
<1> QED
    BY <1>1, PageLoopInvariance, PTL
=============================================================================
