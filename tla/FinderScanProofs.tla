-------------------------- MODULE FinderScanProofs --------------------------
(***************************************************************************)
(* Cursor safety of the Finder for any relays, events, sources, sizes of   *)
(* pages, buffers and chunks, and any crashes, errors and shutdowns, as    *)
(* long as the rows of one second are committed together.                  *)
(***************************************************************************)
EXTENDS FinderScan, FiniteSetTheorems, SequenceTheorems, TLAPS

Scanning == {"scan", "insert", "upsert", "final_insert", "final_upsert"}

\* What was found: inserted as candidates, or about to be.
Found == known \cup buffer

\* A place of relay r is one of its rows, or before all of them.
Places ==
    /\ \A r \in Relay : {cursor[r], pending[r], pos[r]} \subseteq rows[r] \cup {NoCursor}
    /\ \A r \in Relay : page[r] \subseteq rows[r]
    /\ \A i \in 1..Len(queue) : queue[i][2] \in rows[queue[i][1]]

\* Cursors are written only after the whole buffer was.
FlushOK == pc \in {"upsert", "final_upsert"} => buffer = {}

\* Between two scans there is no worker and no page.
QuietOK == pc \notin Scanning => \A r \in Relay : worker[r] = "none" /\ page[r] = {}

\* Up to a pending cursor everything is found.
PendingSafe ==
    \A r \in Relay : \A x \in rows[r] : UpTo(x, pending[r]) => Mentions[x[2]] \subseteq Found

\* Up to the last row a worker yielded everything is found or on its way.
PosSafe ==
    \A r \in Relay : \A x \in rows[r] : UpTo(x, pos[r]) =>
        Mentions[x[2]] \subseteq Found \/ \E j \in 1..Len(queue) : queue[j] = <<r, x>>

\* Up to a queued row everything is found or queued before it.
QueueSafe ==
    \A i \in 1..Len(queue) : \A x \in rows[queue[i][1]] : UpTo(x, queue[i][2]) =>
        \/ Mentions[x[2]] \subseteq Found
        \/ \E j \in 1..i : queue[j] = <<queue[i][1], x>>

\* A page has every row between the worker's place and its own rows.
PageOK ==
    \A r \in Relay : \A k \in page[r] :
        /\ Precedes(pos[r], k)
        /\ \A x \in rows[r] : Precedes(pos[r], x) /\ UpTo(x, k) => x \in page[r]

Safe == Places /\ CursorCovers /\ PendingSafe /\ PosSafe /\ QueueSafe /\ PageOK

\* The inductive invariant.
FInv == TypeOK /\ now \in 1..MaxTime /\ FlushOK /\ QuietOK /\ Safe

-----------------------------------------------------------------------------
(* Rows and their order *)

\* The fields of a row.
LEMMA RowFields == \A x \in Row : x \in Nat \X Nat /\ x[1] \in 1..MaxTime /\ x[2] \in EventId
<1> SUFFICES ASSUME NEW x \in Row
             PROVE  x \in Nat \X Nat /\ x[1] \in 1..MaxTime /\ x[2] \in EventId
    OBVIOUS
<1>1. x[1] \in 1..MaxTime /\ x[2] \in EventId /\ x = <<x[1], x[2]>>
    BY DEF Row
<1>2. x[1] \in Nat /\ x[2] \in Nat
    BY <1>1, FinderAssumption
<1> QED
    BY <1>1, <1>2

\* The order on places is total.
LEMMA OrderTotal ==
    ASSUME NEW x \in Nat \X Nat, NEW y \in Nat \X Nat
    PROVE  /\ UpTo(x, y) \/ Precedes(y, x)
           /\ ~(UpTo(x, y) /\ Precedes(y, x))
           /\ UpTo(x, y) /\ UpTo(y, x) => x = y
BY DEF UpTo, Precedes

LEMMA OrderTransitive ==
    ASSUME NEW x \in Nat \X Nat, NEW y \in Nat \X Nat, NEW z \in Nat \X Nat
    PROVE  /\ UpTo(x, y) /\ UpTo(y, z) => UpTo(x, z)
           /\ Precedes(x, y) /\ UpTo(y, z) => Precedes(x, z)
           /\ UpTo(x, y) /\ Precedes(y, z) => Precedes(x, z)
<1>1. x[1] \in Nat /\ x[2] \in Nat /\ y[1] \in Nat /\ y[2] \in Nat /\ z[1] \in Nat /\ z[2] \in Nat
    OBVIOUS
<1> QED
    BY <1>1 DEF UpTo, Precedes

\* Every row lies after the default cursor.
LEMMA AfterNoCursor == \A x \in Row : ~UpTo(x, NoCursor) /\ Precedes(NoCursor, x)
<1> SUFFICES ASSUME NEW x \in Row PROVE ~UpTo(x, NoCursor) /\ Precedes(NoCursor, x)
    OBVIOUS
<1>1. x \in Nat \X Nat /\ x[1] \in 1..MaxTime /\ MaxTime \in Nat
    BY RowFields, FinderAssumption
<1> QED
    BY <1>1 DEF NoCursor, UpTo, Precedes

\* The queue with one more result, and without its first.
LEMMA QueueAppend ==
    ASSUME NEW S, NEW s \in Seq(S), NEW x \in S
    PROVE  /\ Append(s, x) \in Seq(S) /\ Len(Append(s, x)) = Len(s) + 1
           /\ \A i \in 1..Len(s) : Append(s, x)[i] = s[i]
           /\ Append(s, x)[Len(s) + 1] = x
OBVIOUS

LEMMA QueueTail ==
    ASSUME NEW S, NEW s \in Seq(S), s # <<>>
    PROVE  /\ Tail(s) \in Seq(S) /\ Head(s) = s[1] /\ Head(s) \in S
           /\ Len(s) \in Nat \ {0} /\ Len(Tail(s)) = Len(s) - 1
           /\ \A i \in 1..Len(Tail(s)) : Tail(s)[i] = s[i + 1]
BY HeadTailProperties, EmptySeq, LenProperties

-----------------------------------------------------------------------------
(* Types *)

\* The URLs of a source, and of an event, are finitely many.
LEMMA UrlSets ==
    /\ \A s \in Source : Lists[s] \subseteq Url /\ Cardinality(Lists[s]) \in Nat
    /\ \A e \in EventId : Mentions[e] \subseteq Url /\ Cardinality(Mentions[e]) \in Nat
<1>1. \A S \in SUBSET Url : Cardinality(S) \in Nat
    BY FinderAssumption, FS_Subset, FS_CardinalityType
<1>2. (\A s \in Source : Lists[s] \in SUBSET Url) /\ \A e \in EventId : Mentions[e] \in SUBSET Url
    BY FinderAssumption
<1> QED
    BY <1>1, <1>2

LEMMA OlderType == \A a \in 0..Cooldown : Older(a) \in 0..Cooldown
BY FinderAssumption DEF Older

\* The parts of the type invariant.
TablesOK ==
    /\ rows \in [Relay -> SUBSET Row] /\ known \subseteq Url
    /\ cursor \in [Relay -> Row \cup {NoCursor}] /\ age \in [Source -> 0..Cooldown]
    /\ DOMAIN fresh \subseteq Source /\ \A s \in DOMAIN fresh : fresh[s] \in 0..Cooldown

ControlOK ==
    /\ running \in BOOLEAN /\ pc \in Pcs /\ todo \subseteq Source
    /\ buffer \subseteq Url /\ size \in Nat /\ faults \in Nat

ScanOK ==
    /\ worker \in [Relay -> {"none", "waiting", "scanning", "finished"}]
    /\ pos \in [Relay -> Row \cup {NoCursor}]
    /\ page \in [Relay -> SUBSET Row]
    /\ more \in [Relay -> BOOLEAN]
    /\ queue \in Seq(Relay \X Row)
    /\ pending \in [Relay -> Row \cup {NoCursor}]

LEMMA TypeParts == TypeOK <=> TablesOK /\ ControlOK /\ ScanOK /\ now \in Nat
BY DEF TypeOK, TablesOK, ControlOK, ScanOK

LEMMA TablesStep == ASSUME TablesOK, ControlOK, ScanOK, now \in 1..MaxTime, Next PROVE TablesOK'
<1>1. CASE Tick
    BY <1>1, OlderType DEF Tick, TablesOK
<1>2. CASE \E r \in Relay : RowsCommitted(r)
    <2>1. PICK r \in Relay, t \in 1..now, ids \in SUBSET EventId :
              rows' = [rows EXCEPT ![r] = @ \cup ({t} \X ids)]
        BY <1>2 DEF RowsCommitted
    <2>2. {t} \X ids \subseteq Row
        <3>1. t \in 1..MaxTime
            BY <2>1, FinderAssumption
        <3> QED
            BY <2>1, <3>1 DEF Row
    <2>3. rows' \in [Relay -> SUBSET Row]
        BY <2>1, <2>2 DEF TablesOK
    <2>4. UNCHANGED <<known, cursor, age, fresh>>
        BY <1>2 DEF RowsCommitted, api
    <2> QED
        BY <2>3, <2>4 DEF TablesOK
<1>3. CASE Cleanup \/ FetchCheckpoints \/ SourcesDone \/ CheckpointsDone
    BY <1>3, FinderAssumption DEF Cleanup, FetchCheckpoints, SourcesDone, CheckpointsDone,
       TablesOK, tables, api
<1>4. CASE \E s \in Source : FetchSource(s) \/ FetchSourceFails(s)
    BY <1>4, FinderAssumption DEF FetchSource, FetchSourceFails, TablesOK, tables
<1>5. CASE UpsertCheckpoints
    BY <1>5 DEF UpsertCheckpoints, Chunks, TablesOK
<1>6. CASE InsertCandidates
    BY <1>6 DEF InsertCandidates, Chunks, TablesOK, ControlOK, api
<1>7. CASE UpsertCursors
    BY <1>7 DEF UpsertCursors, TablesOK, ScanOK, api
<1>8. CASE FinderFails
    BY <1>8 DEF FinderFails, NoApi, TablesOK, tables
<1>9. UNCHANGED <<tables, fresh>> => TablesOK'
    BY DEF TablesOK, tables
<1>10. CASE \/ InsertDone \/ FetchCursors \/ Consume \/ ScanEnds \/ FlushDone \/ CycleDone
            \/ Stop \/ Restart \/ Shutdown \/ \E r \in Relay : WorkerStep(r) \/ WorkerEnds(r)
    BY <1>9, <1>10, Zenon DEF InsertDone, FetchCursors, Consume, ScanEnds, FlushDone, CycleDone,
       Stop, Restart, Shutdown, WorkerStep, WorkerStart, FetchPage, WorkerYield, WorkerDone,
       WorkerEnds, api
<1> QED
    BY <1>1, <1>2, <1>3, <1>4, <1>5, <1>6, <1>7, <1>8, <1>10 DEF Next, FinderStep

LEMMA ControlStep == ASSUME TablesOK, ControlOK, ScanOK, Next PROVE ControlOK'
<1> USE DEF ControlOK, Pcs
<1>1. CASE Tick \/ \E r \in Relay : RowsCommitted(r)
    BY <1>1 DEF Tick, RowsCommitted, api, collected
<1>2. CASE Cleanup \/ FetchCheckpoints \/ SourcesDone \/ CheckpointsDone
    BY <1>2, FinderAssumption DEF Cleanup, FetchCheckpoints, SourcesDone, CheckpointsDone, api,
       collected
<1>3. CASE \E s \in Source : FetchSource(s) \/ FetchSourceFails(s)
    BY <1>3, UrlSets DEF FetchSource, FetchSourceFails, Fault, collected
<1>4. CASE UpsertCheckpoints \/ InsertCandidates \/ InsertDone \/ UpsertCursors
    BY <1>4 DEF UpsertCheckpoints, InsertCandidates, InsertDone, Inserting, NoBuffer,
       UpsertCursors, api, collected
<1>5. CASE FetchCursors \/ ScanEnds \/ FlushDone \/ CycleDone \/ Stop \/ Restart
    BY <1>5 DEF FetchCursors, ScanEnds, FlushDone, CycleDone, Stop, Restart, api, collected
<1>6. CASE Consume
    <2>1. Head(queue)[2][2] \in EventId
        BY <1>6, QueueTail, RowFields DEF Consume, ScanOK
    <2> QED
        BY <1>6, <2>1, UrlSets DEF Consume, api
<1>7. CASE FinderFails \/ Shutdown
    <2>1. running' \in BOOLEAN
        BY <1>7, Zenon DEF FinderFails, Shutdown
    <2>2. /\ faults' = faults + 1 /\ pc' \in {pc, "idle"}
          /\ todo' \in {todo, {}} /\ buffer' \in {buffer, {}} /\ size' \in {size, 0}
        BY <1>7, Zenon DEF FinderFails, Shutdown, Fault, NoApi, NoBuffer, api, collected
    <2> QED
        BY <2>1, <2>2
<1>8. CASE \E r \in Relay : WorkerStep(r) \/ WorkerEnds(r)
    BY <1>8 DEF WorkerStep, WorkerStart, FetchPage, WorkerYield, WorkerDone, WorkerEnds, Fault,
       api, collected
<1> QED
    BY <1>1, <1>2, <1>3, <1>4, <1>5, <1>6, <1>7, <1>8 DEF Next, FinderStep

\* The steps that leave the scan alone.
LEMMA ScanSame ==
    ASSUME Next
    PROVE  \/ UNCHANGED scan
           \/ FetchCursors \/ Consume \/ UpsertCursors \/ CycleDone \/ FinderFails
           \/ \E r \in Relay : WorkerStep(r) \/ WorkerEnds(r)
BY Zenon DEF Next, FinderStep, Cleanup, FetchCheckpoints, FetchSource, FetchSourceFails,
   SourcesDone, UpsertCheckpoints, CheckpointsDone, InsertCandidates, InsertDone, ScanEnds,
   FlushDone, Stop, Restart, Tick, RowsCommitted, Shutdown

LEMMA ScanStep == ASSUME TablesOK, ScanOK, Next PROVE ScanOK'
<1>1. CASE UNCHANGED scan
    BY <1>1 DEF scan, ScanOK
<1>2. CASE FetchCursors
    BY <1>2 DEF FetchCursors, TablesOK, ScanOK
<1>3. CASE Consume
    <2>1. /\ Tail(queue) \in Seq(Relay \X Row) /\ queue' = Tail(queue)
          /\ Head(queue) \in Relay \X Row
        BY <1>3, QueueTail DEF Consume, ScanOK
    <2>2. /\ UNCHANGED <<worker, pos, page, more>>
          /\ pending' = [pending EXCEPT ![Head(queue)[1]] = Head(queue)[2]]
        BY <1>3 DEF Consume
    <2> QED
        BY <2>1, <2>2 DEF ScanOK
<1>4. CASE UpsertCursors
    BY <1>4 DEF UpsertCursors, ScanOK
<1>5. CASE CycleDone \/ FinderFails
    <2>1. NoScan
        BY <1>5, Zenon DEF CycleDone, FinderFails
    <2> QED
        BY <2>1 DEF NoScan, ScanOK
<1>6. ASSUME NEW r \in Relay, WorkerStart(r) \/ WorkerEnds(r) \/ WorkerDone(r) PROVE ScanOK'
    <2>1. UNCHANGED <<pos, page, more, queue, pending>>
        BY <1>6, Zenon DEF WorkerStart, WorkerEnds, WorkerDone
    <2>2. worker' \in [Relay -> {"none", "waiting", "scanning", "finished"}]
        BY <1>6 DEF WorkerStart, WorkerEnds, WorkerDone, ScanOK
    <2> QED
        BY <2>1, <2>2 DEF ScanOK
<1>7. ASSUME NEW r \in Relay, FetchPage(r) PROVE ScanOK'
    <2>1. PICK K \in SUBSET rows[r] :
              /\ page' = [page EXCEPT ![r] = K]
              /\ more' = [more EXCEPT ![r] = Cardinality(K) = ScanSize]
        BY <1>7 DEF FetchPage
    <2>2. K \subseteq Row
        BY <2>1 DEF TablesOK
    <2>3. page' \in [Relay -> SUBSET Row]
        BY <2>1, <2>2 DEF ScanOK
    <2>4. more' \in [Relay -> BOOLEAN]
        BY <2>1 DEF ScanOK
    <2>5. UNCHANGED <<worker, pos, queue, pending>>
        BY <1>7, Zenon DEF FetchPage
    <2> QED
        BY <2>3, <2>4, <2>5 DEF ScanOK
<1>8. ASSUME NEW r \in Relay, WorkerYield(r) PROVE ScanOK'
    <2>1. PICK x \in page[r] : /\ page' = [page EXCEPT ![r] = @ \ {x}]
                               /\ pos' = [pos EXCEPT ![r] = x]
                               /\ queue' = Append(queue, <<r, x>>)
        BY <1>8 DEF WorkerYield
    <2>2. x \in Row
        BY <2>1 DEF ScanOK
    <2>3. queue' \in Seq(Relay \X Row)
        BY <2>1, <2>2 DEF ScanOK
    <2>4. UNCHANGED <<worker, more, pending>>
        BY <1>8, Zenon DEF WorkerYield
    <2> QED
        BY <2>1, <2>2, <2>3, <2>4 DEF ScanOK
<1> QED
    BY <1>1, <1>2, <1>3, <1>4, <1>5, <1>6, <1>7, <1>8, ScanSame DEF WorkerStep

LEMMA ClockStep == ASSUME now \in 1..MaxTime, Next PROVE now' \in 1..MaxTime
<1>1. CASE Tick
    BY <1>1, FinderAssumption DEF Tick
<1>2. Tick \/ UNCHANGED now
    BY Zenon DEF Next, FinderStep, Cleanup, FetchCheckpoints, FetchSource, FetchSourceFails,
       SourcesDone, UpsertCheckpoints, CheckpointsDone, InsertCandidates, InsertDone,
       FetchCursors, Consume, ScanEnds, UpsertCursors, FlushDone, CycleDone, Stop, Restart,
       WorkerStep, WorkerStart, FetchPage, WorkerYield, WorkerDone, WorkerEnds, RowsCommitted,
       FinderFails, Shutdown
<1> QED
    BY <1>1, <1>2

\* The flush and the workers keep their order.
LEMMA PhaseStep ==
    ASSUME ScanOK, FlushOK, QuietOK, Next
    PROVE  FlushOK' /\ QuietOK'
<1>1. FlushOK'
    <2>1. CASE InsertDone \/ FinderFails
        <3>1. buffer' = {}
            BY <2>1, Zenon DEF InsertDone, FinderFails, NoBuffer
        <3> QED
            BY <3>1 DEF FlushOK
    <2>2. CASE \/ Cleanup \/ FetchCheckpoints \/ SourcesDone \/ CheckpointsDone
               \/ FetchCursors \/ ScanEnds \/ FlushDone \/ CycleDone \/ Stop \/ Restart
        BY <2>2 DEF Cleanup, FetchCheckpoints, SourcesDone, CheckpointsDone, FetchCursors,
           ScanEnds, FlushDone, CycleDone, Stop, Restart, FlushOK
    <2>3. CASE Consume \/ \E s \in Source : FetchSource(s)
        BY <2>3 DEF Consume, FetchSource, FlushOK
    <2>4. CASE UNCHANGED <<pc, buffer>>
        BY <2>4 DEF FlushOK
    <2>5. \/ UNCHANGED <<pc, buffer>> \/ InsertDone \/ FinderFails
          \/ Cleanup \/ FetchCheckpoints \/ SourcesDone \/ CheckpointsDone
          \/ FetchCursors \/ ScanEnds \/ FlushDone \/ CycleDone \/ Stop \/ Restart
          \/ Consume \/ \E s \in Source : FetchSource(s)
        BY Zenon DEF Next, FinderStep, FetchSourceFails, UpsertCheckpoints, InsertCandidates,
           UpsertCursors, WorkerStep, WorkerStart, FetchPage, WorkerYield, WorkerDone,
           WorkerEnds, RowsCommitted, Shutdown, Tick, collected
    <2> QED
        BY <2>1, <2>2, <2>3, <2>4, <2>5
<1>2. QuietOK'
    <2>1. CASE CycleDone \/ FinderFails
        <3>1. NoScan
            BY <2>1, Zenon DEF CycleDone, FinderFails
        <3> QED
            BY <3>1 DEF NoScan, QuietOK
    <2>2. CASE Consume \/ FetchCursors
        BY <2>2 DEF Consume, FetchCursors, QuietOK, Scanning
    <2>3. CASE \E r \in Relay : WorkerStep(r) \/ WorkerEnds(r)
        <3>1. PICK r \in Relay : worker[r] # "none"
            BY <2>3 DEF WorkerStep, WorkerStart, FetchPage, WorkerYield, WorkerDone, WorkerEnds
        <3>2. pc' = pc
            BY <2>3, Zenon DEF WorkerStep, WorkerStart, FetchPage, WorkerYield, WorkerDone,
               WorkerEnds
        <3> QED
            BY <3>1, <3>2 DEF QuietOK
    <2>4. CASE UNCHANGED scan
        <3>1. pc \in Scanning => pc' \in Scanning \/ CycleDone \/ FinderFails
            <4>1. \/ UNCHANGED pc \/ CycleDone \/ FinderFails \/ InsertDone
                  \/ Cleanup \/ FetchCheckpoints \/ SourcesDone \/ CheckpointsDone
                  \/ FetchCursors \/ Consume \/ ScanEnds \/ FlushDone \/ Stop \/ Restart
                BY Zenon DEF Next, FinderStep, FetchSource, FetchSourceFails,
                   UpsertCheckpoints, InsertCandidates, UpsertCursors, WorkerStep,
                   WorkerStart, FetchPage, WorkerYield, WorkerDone, WorkerEnds,
                   RowsCommitted, Shutdown, Tick
            <4>2. CASE InsertDone \/ FetchCursors \/ Consume
                BY <4>2 DEF InsertDone, Inserting, FetchCursors, Consume, Scanning
            <4>3. CASE \/ Cleanup \/ FetchCheckpoints \/ SourcesDone \/ CheckpointsDone
                       \/ ScanEnds \/ FlushDone \/ Stop \/ Restart
                BY <4>3 DEF Cleanup, FetchCheckpoints, SourcesDone, CheckpointsDone,
                   ScanEnds, FlushDone, Stop, Restart, Scanning
            <4> QED
                BY <4>1, <4>2, <4>3
        <3> QED
            BY <2>1, <2>4, <3>1 DEF QuietOK, scan
    <2>5. CASE UpsertCursors
        BY <2>5 DEF UpsertCursors, QuietOK
    <2> QED
        BY <2>1, <2>2, <2>3, <2>4, <2>5, ScanSame
<1> QED
    BY <1>1, <1>2

-----------------------------------------------------------------------------
(* The cursors *)

\* Finding more, with all places as they are, disturbs nothing.
LEMMA SafeGrows ==
    ASSUME Safe, UNCHANGED <<rows, cursor, pending, pos, page, queue>>,
           known \subseteq known', Found \subseteq Found'
    PROVE  Safe'
<1>1. Places' /\ PageOK'
    BY DEF Safe, Places, PageOK
<1>2. CursorCovers' /\ PendingSafe'
    BY DEF Safe, CursorCovers, PendingSafe
<1>3. PosSafe'
    BY DEF Safe, PosSafe
<1>4. QueueSafe'
    BY DEF Safe, QueueSafe
<1> QED
    BY <1>1, <1>2, <1>3, <1>4 DEF Safe

\* The steps that only find more.
LEMMA GrowSteps ==
    ASSUME TypeOK, FlushOK, Safe, Next
    PROVE  \/ Safe'
           \/ FetchCursors \/ Consume \/ UpsertCursors \/ CycleDone \/ FinderFails
           \/ \E r \in Relay : RowsCommitted(r) \/ FetchPage(r) \/ WorkerYield(r)
<1>1. ASSUME UNCHANGED <<rows, cursor, pending, pos, page, queue, known, buffer>> PROVE Safe'
    BY <1>1, SafeGrows DEF Found
<1>2. CASE \E s \in Source : FetchSource(s)
    BY <1>2, SafeGrows DEF FetchSource, tables, scan, Found
<1>3. CASE InsertCandidates
    BY <1>3, SafeGrows DEF InsertCandidates, collected, scan, Found
<1>4. CASE InsertDone
    <2>1. Found' = Found /\ known' = known
        BY <1>4 DEF InsertDone, NoBuffer, Found, tables
    <2> QED
        BY <1>4, <2>1, SafeGrows DEF InsertDone, tables, scan
<1>5. \/ UNCHANGED <<rows, cursor, pending, pos, page, queue, known, buffer>>
      \/ FetchCursors \/ Consume \/ UpsertCursors \/ CycleDone \/ FinderFails
      \/ \E r \in Relay : RowsCommitted(r) \/ FetchPage(r) \/ WorkerYield(r)
      \/ InsertCandidates \/ InsertDone \/ \E s \in Source : FetchSource(s)
    BY Zenon DEF Next, FinderStep, Cleanup, FetchCheckpoints, FetchSourceFails, SourcesDone,
       UpsertCheckpoints, CheckpointsDone, ScanEnds, FlushDone, Stop, Restart, Tick, Shutdown,
       WorkerStep, WorkerStart, WorkerDone, WorkerEnds, tables, collected, scan
<1> QED
    BY <1>1, <1>2, <1>3, <1>4, <1>5

\* With nothing pending, queued or fetched, only the cursors matter.
LEMMA SafeForgotten ==
    ASSUME TypeOK, Safe, NoScan, UNCHANGED tables
    PROVE  Safe'
<1>1. \A r \in Relay : pos'[r] = NoCursor /\ pending'[r] = NoCursor /\ page'[r] = {}
    BY DEF NoScan
<1>2. queue' = <<>> /\ Len(queue') = 0 /\ UNCHANGED <<rows, cursor, known>>
    BY DEF NoScan, tables
<1>3. \A r \in Relay : \A x \in rows[r] : ~UpTo(x, NoCursor)
    BY AfterNoCursor DEF TypeOK
<1>4. Places' /\ PageOK'
    BY <1>1, <1>2 DEF Safe, Places, PageOK
<1>5. CursorCovers' /\ PendingSafe' /\ PosSafe'
    BY <1>1, <1>2, <1>3 DEF Safe, CursorCovers, PendingSafe, PosSafe
<1>6. QueueSafe'
    BY <1>2 DEF QueueSafe
<1> QED
    BY <1>4, <1>5, <1>6 DEF Safe

\* The rows of a new transaction lie after every place.
LEMMA NewRowsAreLate ==
    ASSUME TypeOK, now \in 1..MaxTime, ~SplitSeconds, NEW r \in Relay, RowsCommitted(r)
    PROVE  /\ \A q \in Relay : rows[q] \subseteq rows'[q]
           /\ \A q \in Relay : \A x \in rows'[q] \ rows[q], y \in rows[q] \cup {NoCursor} :
                 ~UpTo(x, y)
<1>1. PICK t \in 1..now, ids \in SUBSET EventId :
          /\ \A x \in rows[r] : x[1] < t
          /\ rows' = [rows EXCEPT ![r] = @ \cup ({t} \X ids)]
    BY DEF RowsCommitted
<1>2. rows \in [Relay -> SUBSET Row]
    BY DEF TypeOK
<1>3. \A q \in Relay : rows[q] \subseteq rows'[q]
    BY <1>1, <1>2
<1>4. ASSUME NEW q \in Relay, NEW x \in rows'[q] \ rows[q], NEW y \in rows[q] \cup {NoCursor}
      PROVE  ~UpTo(x, y)
    <2>1. q = r /\ x \in {t} \X ids
        BY <1>1, <1>2, <1>4
    <2>2. x[1] = t /\ t \in Nat /\ t > 0
        BY <2>1, <1>1
    <2>3. y[1] < t /\ y[1] \in Nat
        <3>1. CASE y = NoCursor
            BY <2>2, <3>1 DEF NoCursor
        <3>2. CASE y \in rows[r]
            BY <1>1, <1>2, <2>2, <3>2, RowFields
        <3> QED
            BY <1>4, <2>1, <3>1, <3>2
    <2> QED
        BY <2>2, <2>3 DEF UpTo, Precedes
<1> QED
    BY <1>3, <1>4

LEMMA CommitSafe ==
    ASSUME TypeOK, now \in 1..MaxTime, ~SplitSeconds, Safe, NEW r \in Relay, RowsCommitted(r)
    PROVE  Safe'
<1>1. UNCHANGED <<cursor, pending, pos, page, queue, known, buffer>>
    BY Zenon DEF RowsCommitted, collected, scan
<1>2. /\ \A q \in Relay : rows[q] \subseteq rows'[q]
      /\ \A q \in Relay : \A x \in rows'[q] \ rows[q], y \in rows[q] \cup {NoCursor} : ~UpTo(x, y)
    BY NewRowsAreLate
<1>3. /\ \A r1 \in Relay : {cursor[r1], pending[r1], pos[r1]} \subseteq rows[r1] \cup {NoCursor}
      /\ \A r1 \in Relay : page[r1] \subseteq rows[r1]
      /\ \A i \in 1..Len(queue) : queue[i][2] \in rows[queue[i][1]] /\ queue[i][1] \in Relay
    BY DEF Safe, Places, TypeOK
<1>4. Places'
    BY <1>1, <1>2, <1>3 DEF Places
<1>5. CursorCovers' /\ PendingSafe'
    BY <1>1, <1>2, <1>3 DEF Safe, CursorCovers, PendingSafe, Found
<1>6. PosSafe'
    BY <1>1, <1>2, <1>3 DEF Safe, PosSafe, Found
<1>7. QueueSafe'
    <2> SUFFICES ASSUME NEW i \in 1..Len(queue), NEW x \in rows'[queue[i][1]],
                        UpTo(x, queue[i][2])
                 PROVE  \/ Mentions[x[2]] \subseteq Found
                        \/ \E j \in 1..i : queue[j] = <<queue[i][1], x>>
        BY <1>1 DEF QueueSafe, Found
    <2>1. x \in rows[queue[i][1]]
        BY <1>2, <1>3
    <2> QED
        BY <2>1 DEF Safe, QueueSafe
<1>8. PageOK'
    BY <1>1, <1>2, <1>3 DEF Safe, PageOK
<1> QED
    BY <1>4, <1>5, <1>6, <1>7, <1>8 DEF Safe

\* A scan starts where the cursors are.
LEMMA FetchCursorsSafe == ASSUME TypeOK, QuietOK, Safe, FetchCursors PROVE Safe'
<1>1. /\ pos' = cursor /\ UNCHANGED <<rows, cursor, pending, page, queue, known, buffer>>
      /\ \A r \in Relay : page[r] = {}
    BY DEF FetchCursors, tables, collected, QuietOK, Scanning
<1>2. Places' /\ PageOK'
    BY <1>1 DEF Safe, Places, PageOK
<1>3. CursorCovers' /\ PendingSafe' /\ PosSafe'
    BY <1>1 DEF Safe, CursorCovers, PendingSafe, PosSafe, Found
<1>4. QueueSafe'
    <2>1. UNCHANGED <<rows, queue, known, buffer>> /\ QueueSafe
        BY <1>1 DEF Safe
    <2> QED
        BY <2>1 DEF QueueSafe, Found
<1> QED
    BY <1>2, <1>3, <1>4 DEF Safe

\* A page holds the first rows after the worker's place.
LEMMA FetchPageSafe == ASSUME TypeOK, Safe, NEW r \in Relay, FetchPage(r) PROVE Safe'
<1> DEFINE after == {x \in rows[r] : Precedes(pos[r], x)}
<1>1. PICK K \in SUBSET after : /\ \A k \in K, x \in after \ K : Precedes(k, x)
                                /\ page' = [page EXCEPT ![r] = K]
    BY DEF FetchPage
<1>2. UNCHANGED <<rows, cursor, pending, pos, queue, known, buffer>>
    BY Zenon DEF FetchPage, tables, collected
<1>3. /\ page'[r] = K /\ \A q \in Relay : q # r => page'[q] = page[q]
      /\ \A x \in rows[r] : x \in Nat \X Nat
    BY <1>1, RowFields DEF TypeOK
<1>4. Places'
    BY <1>1, <1>2, <1>3 DEF Safe, Places
<1>5. CursorCovers' /\ PendingSafe' /\ PosSafe'
    BY <1>2 DEF Safe, CursorCovers, PendingSafe, PosSafe, Found
<1>6. QueueSafe'
    BY <1>2 DEF Safe, QueueSafe, Found
<1>7. PageOK'
    <2>1. ASSUME NEW k \in K
          PROVE  /\ Precedes(pos[r], k)
                 /\ \A x \in rows[r] : Precedes(pos[r], x) /\ UpTo(x, k) => x \in K
        <3>1. k \in rows[r] /\ Precedes(pos[r], k)
            BY <1>1, <2>1
        <3>2. ASSUME NEW x \in rows[r], Precedes(pos[r], x), UpTo(x, k), x \notin K PROVE FALSE
            <4>1. Precedes(k, x)
                BY <1>1, <3>2
            <4> QED
                BY <1>3, <3>1, <3>2, <4>1, OrderTotal
        <3> QED
            BY <3>1, <3>2
    <2>2. ASSUME NEW q \in Relay, NEW k \in page'[q]
          PROVE  /\ Precedes(pos[q], k)
                 /\ \A x \in rows[q] : Precedes(pos[q], x) /\ UpTo(x, k) => x \in page'[q]
        <3>1. CASE q = r
            BY <1>3, <2>1, <2>2, <3>1
        <3>2. CASE q # r
            BY <1>3, <2>2, <3>2 DEF Safe, PageOK
        <3> QED
            BY <3>1, <3>2
    <2> QED
        BY <1>2, <2>2 DEF PageOK
<1> QED
    BY <1>4, <1>5, <1>6, <1>7 DEF Safe

\* The row a worker yields is the next one after its place.
LEMMA NextRow ==
    ASSUME TypeOK, Safe, NEW r \in Relay, NEW x \in page[r], \A y \in page[r] : UpTo(x, y),
           NEW y \in rows[r], UpTo(y, x)
    PROVE  y = x \/ UpTo(y, pos[r])
<1>1. /\ x \in rows[r] /\ pos[r] \in rows[r] \cup {NoCursor}
      /\ rows[r] \subseteq Row /\ NoCursor \in Nat \X Nat
    BY DEF Safe, Places, TypeOK, NoCursor
<1>2. x \in Nat \X Nat /\ y \in Nat \X Nat /\ pos[r] \in Nat \X Nat
    BY <1>1, RowFields
<1>3. UpTo(y, pos[r]) \/ Precedes(pos[r], y)
    BY <1>2, OrderTotal
<1>4. CASE Precedes(pos[r], y)
    <2>1. y \in page[r]
        BY <1>4 DEF Safe, PageOK
    <2>2. UpTo(x, y)
        BY <2>1
    <2> QED
        BY <1>2, <2>2, OrderTotal
<1> QED
    BY <1>3, <1>4

LEMMA YieldSafe == ASSUME TypeOK, Safe, NEW r \in Relay, WorkerYield(r) PROVE Safe'
<1>1. PICK x \in page[r] : /\ \A y \in page[r] : UpTo(x, y)
                           /\ page' = [page EXCEPT ![r] = @ \ {x}]
                           /\ pos' = [pos EXCEPT ![r] = x]
                           /\ queue' = Append(queue, <<r, x>>)
    BY DEF WorkerYield
<1>2. UNCHANGED <<rows, cursor, pending, known, buffer>>
    BY Zenon DEF WorkerYield, tables, collected
<1>3. /\ pos'[r] = x /\ \A q \in Relay : q # r => pos'[q] = pos[q]
      /\ page'[r] = page[r] \ {x} /\ \A q \in Relay : q # r => page'[q] = page[q]
    BY <1>1 DEF TypeOK
<1>4. x \in rows[r] /\ x \in Row
    BY <1>1 DEF Safe, Places, TypeOK
<1> DEFINE n == Len(queue)
<1>5. /\ n \in Nat /\ Len(queue') = n + 1 /\ queue'[n + 1] = <<r, x>>
      /\ \A i \in 1..n : queue'[i] = queue[i] /\ queue[i][1] \in Relay
    BY <1>1, <1>4, QueueAppend, LenProperties DEF TypeOK
<1> HIDE DEF n
<1>6. Places'
    <2>1. \A i \in 1..n : queue[i][2] \in rows[queue[i][1]]
        BY DEF Safe, Places, n
    <2>2. ASSUME NEW i \in 1..(n + 1) PROVE queue'[i][2] \in rows[queue'[i][1]]
        <3>1. i \in 1..n \/ i = n + 1
            BY <1>5, <2>2
        <3> QED
            BY <1>4, <1>5, <2>1, <3>1
    <2>3. \A q \in Relay : /\ {cursor[q], pending[q], pos'[q]} \subseteq rows[q] \cup {NoCursor}
                           /\ page'[q] \subseteq rows[q]
        BY <1>3, <1>4 DEF Safe, Places
    <2> QED
        BY <1>2, <1>5, <2>2, <2>3 DEF Places
<1>7. CursorCovers' /\ PendingSafe'
    BY <1>2 DEF Safe, CursorCovers, PendingSafe, Found
<1>8. ASSUME NEW y \in rows[r], UpTo(y, x)
      PROVE  Mentions[y[2]] \subseteq Found \/ \E j \in 1..(n + 1) : queue'[j] = <<r, y>>
    <2>1. CASE y = x
        BY <1>5, <2>1
    <2>2. CASE UpTo(y, pos[r])
        <3>1. Mentions[y[2]] \subseteq Found \/ \E j \in 1..n : queue[j] = <<r, y>>
            BY <2>2 DEF Safe, PosSafe, n
        <3> QED
            BY <1>5, <3>1
    <2> QED
        BY <1>1, <1>8, <2>1, <2>2, NextRow
<1>9. PosSafe'
    <2> SUFFICES ASSUME NEW q \in Relay, NEW y \in rows[q], UpTo(y, pos'[q])
                 PROVE  \/ Mentions[y[2]] \subseteq Found
                        \/ \E j \in 1..(n + 1) : queue'[j] = <<q, y>>
        BY <1>2, <1>5 DEF PosSafe, Found
    <2>1. CASE q = r
        BY <1>3, <1>8, <2>1
    <2>2. CASE q # r
        <3>1. Mentions[y[2]] \subseteq Found \/ \E j \in 1..n : queue[j] = <<q, y>>
            BY <1>3, <2>2 DEF Safe, PosSafe, n
        <3> QED
            BY <1>5, <3>1
    <2> QED
        BY <2>1, <2>2
<1>10. QueueSafe'
    <2> SUFFICES ASSUME NEW i \in 1..(n + 1), NEW y \in rows[queue'[i][1]],
                        UpTo(y, queue'[i][2])
                 PROVE  \/ Mentions[y[2]] \subseteq Found
                        \/ \E j \in 1..i : queue'[j] = <<queue'[i][1], y>>
        BY <1>2, <1>5 DEF QueueSafe, Found
    <2>1. CASE i \in 1..n
        <3>1. \/ Mentions[y[2]] \subseteq Found
              \/ \E j \in 1..i : queue[j] = <<queue[i][1], y>>
            BY <1>5, <2>1 DEF Safe, QueueSafe, n
        <3>2. \A j \in 1..i : queue'[j] = queue[j]
            BY <1>5, <2>1
        <3> QED
            BY <1>5, <2>1, <3>1, <3>2
    <2>2. CASE i = n + 1
        <3>1. queue'[i] = <<r, x>> /\ queue'[i][1] = r /\ queue'[i][2] = x
            BY <1>5, <2>2
        <3>2. y \in rows[r] /\ UpTo(y, x)
            BY <3>1
        <3> QED
            BY <1>8, <2>2, <3>1, <3>2
    <2> QED
        BY <1>5, <2>1, <2>2
<1>11. PageOK'
    <2>1. ASSUME NEW k \in page[r] \ {x}
          PROVE  /\ Precedes(x, k)
                 /\ \A y \in rows[r] : Precedes(x, y) /\ UpTo(y, k) => y \in page[r] \ {x}
        <3>1. Precedes(x, k)
            BY <1>1, <2>1 DEF UpTo
        <3>2. ASSUME NEW y \in rows[r], Precedes(x, y), UpTo(y, k) PROVE y \in page[r] \ {x}
            <4>1. x \in Nat \X Nat /\ y \in Nat \X Nat /\ pos[r] \in Nat \X Nat
                BY <1>4, RowFields DEF TypeOK, NoCursor
            <4>2. Precedes(pos[r], x)
                BY <1>1 DEF Safe, PageOK
            <4>3. Precedes(pos[r], y)
                BY <3>2, <4>1, <4>2, OrderTransitive DEF UpTo
            <4>4. y # x
                BY <3>2, <4>1 DEF Precedes
            <4> QED
                BY <2>1, <3>2, <4>3, <4>4 DEF Safe, PageOK
        <3> QED
            BY <3>1, <3>2
    <2>2. ASSUME NEW q \in Relay, NEW k \in page'[q]
          PROVE  /\ Precedes(pos'[q], k)
                 /\ \A y \in rows[q] : Precedes(pos'[q], y) /\ UpTo(y, k) => y \in page'[q]
        <3>1. CASE q = r
            BY <1>3, <2>1, <2>2, <3>1
        <3>2. CASE q # r
            BY <1>3, <2>2, <3>2 DEF Safe, PageOK
        <3> QED
            BY <3>1, <3>2
    <2> QED
        BY <1>2, <2>2 DEF PageOK
<1> QED
    BY <1>6, <1>7, <1>9, <1>10, <1>11 DEF Safe

\* The consumer takes the first result, whose URLs go to the buffer.
LEMMA ConsumeSafe == ASSUME TypeOK, Safe, Consume PROVE Safe'
<1> DEFINE r == Head(queue)[1]
           x == Head(queue)[2]
           m == Len(Tail(queue))
<1>1. /\ queue \in Seq(Relay \X Row) /\ queue # <<>> /\ queue' = Tail(queue)
      /\ buffer' = buffer \cup Mentions[x[2]]
      /\ pending' = [pending EXCEPT ![r] = x]
      /\ UNCHANGED <<rows, cursor, known, pos, page>>
    BY DEF Consume, TypeOK, tables
<1>2. /\ queue[1] = Head(queue) /\ Head(queue) \in Relay \X Row
      /\ Len(queue) = m + 1 /\ m \in Nat /\ Len(queue') = m
      /\ \A i \in 1..m : queue'[i] = queue[i + 1]
    BY <1>1, QueueTail, LenProperties
<1>3. r \in Relay /\ x \in Row /\ queue[1] = <<r, x>>
    BY <1>2
<1>4. Found \subseteq Found' /\ Mentions[x[2]] \subseteq Found'
    BY <1>1 DEF Found
<1>5. /\ pending'[r] = x /\ \A q \in Relay : q # r => pending'[q] = pending[q]
    BY <1>1, <1>3 DEF TypeOK
<1> HIDE DEF r, x, m
<1>6. x \in rows[r]
    BY <1>2, <1>3 DEF Safe, Places
<1>7. ASSUME NEW y \in rows[r], UpTo(y, x) PROVE Mentions[y[2]] \subseteq Found'
    <2>1. 1 \in 1..Len(queue) /\ queue[1][1] = r /\ queue[1][2] = x
        BY <1>2, <1>3
    <2>2. Mentions[y[2]] \subseteq Found \/ \E j \in 1..1 : queue[j] = <<queue[1][1], y>>
        BY <1>7, <2>1 DEF Safe, QueueSafe
    <2>3. Mentions[y[2]] \subseteq Found \/ y = x
        BY <1>3, <2>1, <2>2
    <2> QED
        BY <1>4, <2>3
<1>8. Places'
    <2>1. \A i \in 1..m : queue'[i][2] \in rows[queue'[i][1]]
        BY <1>2 DEF Safe, Places
    <2>2. \A q \in Relay : {cursor[q], pending'[q], pos[q]} \subseteq rows[q] \cup {NoCursor}
        BY <1>5, <1>6 DEF Safe, Places
    <2> QED
        BY <1>1, <1>2, <2>1, <2>2 DEF Safe, Places
<1>9. CursorCovers' /\ PageOK'
    BY <1>1 DEF Safe, CursorCovers, PageOK
<1>10. PendingSafe'
    <2> SUFFICES ASSUME NEW q \in Relay, NEW y \in rows[q], UpTo(y, pending'[q])
                 PROVE  Mentions[y[2]] \subseteq Found'
        BY <1>1 DEF PendingSafe
    <2>1. CASE q = r
        BY <1>5, <1>7, <2>1
    <2>2. CASE q # r
        BY <1>4, <1>5, <2>2 DEF Safe, PendingSafe
    <2> QED
        BY <2>1, <2>2
<1>11. PosSafe'
    <2> SUFFICES ASSUME NEW q \in Relay, NEW y \in rows[q], UpTo(y, pos[q])
                 PROVE  \/ Mentions[y[2]] \subseteq Found'
                        \/ \E j \in 1..m : queue'[j] = <<q, y>>
        BY <1>1, <1>2 DEF PosSafe
    <2>1. Mentions[y[2]] \subseteq Found \/ \E j \in 1..(m + 1) : queue[j] = <<q, y>>
        BY <1>2 DEF Safe, PosSafe
    <2>2. ASSUME NEW j \in 1..(m + 1), queue[j] = <<q, y>>
          PROVE  Mentions[y[2]] \subseteq Found' \/ \E l \in 1..m : queue'[l] = <<q, y>>
        <3>1. CASE j = 1
            BY <1>3, <1>4, <2>2, <3>1
        <3>2. CASE j # 1
            <4>1. j - 1 \in 1..m /\ (j - 1) + 1 = j
                BY <1>2, <3>2
            <4> QED
                BY <1>2, <2>2, <4>1
        <3> QED
            BY <3>1, <3>2
    <2> QED
        BY <1>4, <2>1, <2>2
<1>12. QueueSafe'
    <2> SUFFICES ASSUME NEW i \in 1..m, NEW y \in rows[queue'[i][1]], UpTo(y, queue'[i][2])
                 PROVE  \/ Mentions[y[2]] \subseteq Found'
                        \/ \E j \in 1..i : queue'[j] = <<queue'[i][1], y>>
        BY <1>1, <1>2 DEF QueueSafe
    <2> DEFINE q == queue'[i][1]
    <2>1. i + 1 \in 1..Len(queue) /\ queue[i + 1] = queue'[i]
        BY <1>2
    <2>2. Mentions[y[2]] \subseteq Found \/ \E j \in 1..(i + 1) : queue[j] = <<q, y>>
        BY <2>1 DEF Safe, QueueSafe
    <2> HIDE DEF q
    <2>3. ASSUME NEW j \in 1..(i + 1), queue[j] = <<q, y>>
          PROVE  Mentions[y[2]] \subseteq Found' \/ \E l \in 1..i : queue'[l] = <<q, y>>
        <3>1. CASE j = 1
            BY <1>3, <1>4, <2>3, <3>1
        <3>2. CASE j # 1
            <4>1. j - 1 \in 1..i /\ j - 1 \in 1..m /\ (j - 1) + 1 = j
                BY <1>2, <3>2
            <4> QED
                BY <1>2, <2>3, <4>1
        <3> QED
            BY <3>1, <3>2
    <2> QED
        BY <1>4, <2>2, <2>3 DEF q
<1> QED
    BY <1>8, <1>9, <1>10, <1>11, <1>12 DEF Safe

\* Cursors are written when everything up to them is inserted.
LEMMA UpsertSafe == ASSUME TypeOK, FlushOK, Safe, UpsertCursors PROVE Safe'
<1>1. PICK K \in SUBSET Relay :
          /\ cursor' = [r \in Relay |-> IF r \in K THEN pending[r] ELSE cursor[r]]
          /\ pending' = [r \in Relay |-> IF r \in K THEN NoCursor ELSE pending[r]]
    BY DEF UpsertCursors, Chunks, PendingRelays
<1>2. UNCHANGED <<rows, known, buffer, pos, page, queue>> /\ Found = known /\ Found' = Found
    BY DEF UpsertCursors, FlushOK, Found, collected
<1>3. \A r \in Relay : \A x \in rows[r] : ~UpTo(x, NoCursor)
    BY AfterNoCursor DEF TypeOK
<1>4. Places' /\ PageOK'
    BY <1>1, <1>2 DEF Safe, Places, PageOK
<1>5. CursorCovers' /\ PendingSafe'
    BY <1>1, <1>2, <1>3 DEF Safe, CursorCovers, PendingSafe
<1>6. PosSafe'
    BY <1>2 DEF Safe, PosSafe
<1>7. QueueSafe'
    BY <1>2 DEF Safe, QueueSafe
<1> QED
    BY <1>4, <1>5, <1>6, <1>7 DEF Safe

LEMMA SafeStep ==
    ASSUME TypeOK, now \in 1..MaxTime, FlushOK, QuietOK, Safe, ~SplitSeconds, Next
    PROVE  Safe'
<1>1. CASE CycleDone \/ FinderFails
    <2>1. NoScan /\ UNCHANGED tables
        BY <1>1, Zenon DEF CycleDone, FinderFails
    <2> QED
        BY <2>1, SafeForgotten
<1> QED
    BY <1>1, GrowSteps, FetchCursorsSafe, ConsumeSafe, UpsertSafe, CommitSafe, FetchPageSafe,
       YieldSafe

-----------------------------------------------------------------------------
(* The invariant *)

LEMMA InitInv == Init => FInv
<1> SUFFICES ASSUME Init PROVE FInv
    OBVIOUS
<1>1. Cooldown \in Nat /\ MaxTime \in Nat \ {0}
    BY FinderAssumption
<1>2. TablesOK
    BY <1>1 DEF Init, TablesOK
<1>3. ControlOK /\ ScanOK
    BY DEF Init, ControlOK, ScanOK, Pcs
<1>4. now \in 1..MaxTime /\ now \in Nat
    BY <1>1 DEF Init
<1>5. FlushOK /\ QuietOK
    BY DEF Init, FlushOK, QuietOK
<1>6. \A r \in Relay : rows[r] = {} /\ page[r] = {}
    BY DEF Init
<1>7. Places
    BY <1>6 DEF Init, Places
<1>8. CursorCovers /\ PendingSafe /\ PosSafe /\ PageOK
    BY <1>6 DEF CursorCovers, PendingSafe, PosSafe, PageOK
<1>9. QueueSafe
    BY DEF Init, QueueSafe
<1> QED
    BY <1>2, <1>3, <1>4, <1>5, <1>7, <1>8, <1>9, TypeParts DEF FInv, Safe

LEMMA NextInv == ~SplitSeconds /\ FInv /\ [Next]_vars => FInv'
<1> SUFFICES ASSUME ~SplitSeconds, FInv, [Next]_vars PROVE FInv'
    OBVIOUS
<1>1. CASE Next
    <2>1. TablesOK /\ ControlOK /\ ScanOK
        BY TypeParts DEF FInv
    <2>2. TablesOK' /\ ControlOK' /\ ScanOK'
        BY <1>1, <2>1, TablesStep, ControlStep, ScanStep DEF FInv
    <2>3. now' \in 1..MaxTime /\ FlushOK' /\ QuietOK'
        BY <1>1, <2>1, ClockStep, PhaseStep DEF FInv
    <2>4. now' \in Nat
        BY <2>3, FinderAssumption
    <2>5. TypeOK'
        BY <2>2, <2>4 DEF TypeOK, TablesOK, ControlOK, ScanOK
    <2>6. Safe'
        BY <1>1, SafeStep DEF FInv
    <2> QED
        BY <2>3, <2>5, <2>6 DEF FInv
<1>2. CASE UNCHANGED vars
    <2>1. UNCHANGED <<rows, cursor, pending, pos, page, queue, known, buffer, pc, worker, now>>
        BY <1>2 DEF vars, tables, collected, scan
    <2>2. Safe'
        BY <2>1, SafeGrows DEF FInv, Found
    <2>3. TypeOK'
        BY <1>2 DEF vars, tables, api, collected, scan, FInv, TypeOK
    <2>4. FlushOK' /\ QuietOK' /\ now' \in 1..MaxTime
        BY <2>1 DEF FInv, FlushOK, QuietOK
    <2> QED
        BY <2>2, <2>3, <2>4 DEF FInv
<1> QED
    BY <1>1, <1>2

\* The inductive invariant, if rows of one second are committed together.
THEOREM Invariance == ~SplitSeconds => (Spec => []FInv)
<1> SUFFICES ASSUME ~SplitSeconds PROVE Spec => []FInv
    OBVIOUS
<1>1. FInv /\ [Next]_vars => FInv'
    BY NextInv
<1> QED
    BY <1>1, InitInv, PTL DEF Spec

\* The cursor of a relay never passes a row whose URLs are not candidates,
\* whatever fails or is lost between two of its writes.  The hypothesis is
\* needed: the rows of a second that are committed later lie behind it.
THEOREM CursorsCover == ~SplitSeconds => (Spec => []CursorCovers)
<1> SUFFICES ASSUME ~SplitSeconds PROVE Spec => []CursorCovers
    OBVIOUS
<1>1. FInv => CursorCovers
    BY DEF FInv, Safe
<1> QED
    BY <1>1, Invariance, PTL

\* The types do not depend on how the rows are committed.
THEOREM TypeCorrect == Spec => []TypeOK
<1> DEFINE T == TypeOK /\ now \in 1..MaxTime
<1>1. Init => T
    BY InitInv DEF FInv
<1>2. ASSUME T, [Next]_vars PROVE T'
    <2>1. CASE Next
        <3>1. TablesOK /\ ControlOK /\ ScanOK /\ now \in 1..MaxTime
            BY <1>2, TypeParts
        <3>2. TablesOK' /\ ControlOK' /\ ScanOK'
            BY <2>1, <3>1, TablesStep, ControlStep, ScanStep
        <3>3. now' \in 1..MaxTime /\ now' \in Nat
            BY <2>1, <3>1, ClockStep, FinderAssumption
        <3> QED
            BY <3>2, <3>3 DEF TypeOK, TablesOK, ControlOK, ScanOK
    <2>2. CASE UNCHANGED vars
        BY <1>2, <2>2 DEF vars, tables, api, collected, scan, TypeOK
    <2> QED
        BY <1>2, <2>1, <2>2
<1>3. T => TypeOK
    OBVIOUS
<1> QED
    BY <1>1, <1>2, <1>3, PTL DEF Spec
=============================================================================
