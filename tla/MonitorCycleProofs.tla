------------------------- MODULE MonitorCycleProofs -------------------------
(***************************************************************************)
(* The Monitor's cycles for any relays, networks, checks, retries, chunk   *)
(* and batch sizes, and any failures, deletions, crashes and shutdowns.    *)
(***************************************************************************)
EXTENDS MonitorCycle, FiniteSetTheorems, WellFoundedInduction, SequenceTheorems, TLAPS

Workers == Relay \cup {"main"}

\* Every set of naturals that is not empty has a least element.
LEMMA MinFacts ==
    ASSUME NEW S \in SUBSET Nat, S # {}
    PROVE  Min(S) \in S /\ \A n \in S : Min(S) <= n
<1> DEFINE R == OpToRel(<, Nat)
<1>1. IsWellFoundedOn(R, Nat)
    BY NatLessThanWellFounded
<1>2. \A m, n \in Nat : m < n => <<m, n>> \in R
    BY DEF OpToRel
<1> HIDE DEF R
<1>3. PICK m \in S : \A n \in S : ~(<<n, m>> \in R)
    BY <1>1, WFMin
<1>4. ASSUME NEW n \in S PROVE m <= n
    <2>1. m \in Nat /\ n \in Nat /\ ~(<<n, m>> \in R)
        BY <1>3
    <2>2. ~(n < m)
        BY <1>2, <2>1
    <2> QED
        BY <2>1, <2>2
<1> QED
    BY <1>4 DEF Min

-----------------------------------------------------------------------------
(* The inductive invariant *)

Task == [step : Steps, todo : SUBSET Compute, tries : [Compute -> Nat], got : SUBSET Compute,
         born : 0..MaxNow, next : Nat, held : SUBSET Targets]

Cache == [clients : SUBSET Targets, failed : SUBSET Targets, open : [Targets -> Nat]]

\* The types that TypeOK leaves open.
ShapeOK == task \in [Workers -> Task] /\ cache \in Cache /\ displaced \in [Targets -> Nat]

Active == {"queued", "checking", "connecting", "sending"}

\* run() uses the clients only while it publishes a periodic event.
MainOK ==
    /\ task["main"].step \in {"none", "connecting", "sending"}
    /\ task["main"].step # "none" => phase = "publish" /\ key \in 1..Len(Keys)
    /\ phase = "saving" => key \in 1..Len(Keys)
    /\ phase = "publish" => key > 0

\* A worker is active only while its chunk is checked.
WorkersOK ==
    /\ \A r \in Relay : task[r].step \in Active => phase = "checking" /\ r \in chunk
    /\ \A r \in Relay : task[r].step \notin {"none", "queued"} => task[r].born > 0
    /\ \A r \in Relay : task[r].step = "failed" => task[r].got = {}
    /\ phase \in {"inserting", "marking"} => \A r \in chunk : task[r].step \in Ended

\* A connection is made to one of the targets.
NextOK == \A w \in Workers : task[w].step = "connecting" => task[w].next \in 1..Len(Target)

\* What was consumed is what the workers yielded.
ResultsOK ==
    phase \in {"checking", "inserting", "marking"} =>
        /\ successful = {r \in chunk : task[r].step = "yielded"}
        /\ failed = {r \in chunk : task[r].step \in {"failed", "raised"}}

\* A connection that is open is in the pool, or was displaced from it.
ClientsOK ==
    /\ \A t \in Targets :
          cache.open[t] = displaced[t] + (IF t \in cache.clients THEN 1 ELSE 0)
    /\ phase \in {"idle", "geo", "open"} => cache.clients = {}

\* What the checks produced and is stored: in the database, or on its way.
StoredOK ==
    /\ \A r \in successful \ deleted : \A c \in task[r].got \cap Store :
          /\ phase = "inserting" => <<r, c, task[r].born>> \in records \cup metadata
          /\ phase = "marking" => <<r, c, task[r].born>> \in metadata
    /\ phase = "marking" => marks \subseteq successful \cup failed

MInv ==
    /\ TypeOK /\ now \in 1..MaxNow /\ chunk_size \in ChunkSizes
    /\ ShapeOK /\ MainOK /\ WorkersOK /\ NextOK /\ ResultsOK
    /\ ClientsOK /\ StoredOK

-----------------------------------------------------------------------------
(* Constants *)

\* The sequences that are given, and their elements.
LEMMA Given ==
    /\ Found \in Seq(Relay) /\ Target \in Seq(Targets) /\ Keys \in Seq(ToSet(Keys))
    /\ Len(Target) \in Nat /\ Len(Keys) \in Nat /\ MaxNow \in Nat \ {0}
    /\ \A i \in 1..Len(Target) : Target[i] \in Targets
    /\ \A i \in 1..Len(Keys) : Keys[i] \in ToSet(Keys)
    /\ Databases = (IF "nip66_geo" \in Compute THEN {"city"} ELSE {})
                   \cup (IF "nip66_net" \in Compute THEN {"asn"} ELSE {})
BY MonitorAssumption DEF Targets, ToSet, Databases

\* run() is not a worker.
LEMMA MainNotRelay == "main" \notin Relay /\ "main" \in Workers /\ Relay \subseteq Workers
BY MonitorAssumption DEF Workers

LEMMA NoTaskType == NoTask \in Task /\ NoTask.step = "none" /\ NoTask.got = {}
BY Given DEF NoTask, Task, Steps

\* Only the main task, or one worker, changes.
Others(t, w) == t \in [Workers -> Task] /\ \A v \in Workers \ {w} : t[v] = task[v]

LEMMA OneTask ==
    ASSUME task \in [Workers -> Task], NEW w \in Workers, NEW x \in Task
    PROVE  Others([task EXCEPT ![w] = x], w) /\ [task EXCEPT ![w] = x][w] = x
BY DEF Others

\* A task with one other field.
LEMMA StepField ==
    ASSUME NEW y \in Task, NEW s \in Steps
    PROVE  LET x == [y EXCEPT !.step = s]
           IN  x \in Task /\ x.step = s /\ x.next = y.next /\ x.got = y.got /\ x.born = y.born
BY DEF Task

LEMMA NextField ==
    ASSUME NEW y \in Task, NEW n \in Nat
    PROVE  LET x == [y EXCEPT !.next = n]
           IN  x \in Task /\ x.step = y.step /\ x.next = n /\ x.got = y.got /\ x.born = y.born
BY DEF Task

LEMMA HeldField ==
    ASSUME NEW y \in Task, NEW h \in SUBSET Targets
    PROVE  LET x == [y EXCEPT !.held = h]
           IN  x \in Task /\ x.step = y.step /\ x.next = y.next /\ x.got = y.got
               /\ x.born = y.born
BY DEF Task

LEMMA GotField ==
    ASSUME NEW y \in Task, NEW g \in SUBSET Compute
    PROVE  LET x == [y EXCEPT !.got = g]
           IN  x \in Task /\ x.step = y.step /\ x.next = y.next /\ x.got = g /\ x.born = y.born
BY DEF Task

LEMMA TriesField ==
    ASSUME NEW y \in Task, NEW n \in [Compute -> Nat]
    PROVE  LET x == [y EXCEPT !.tries = n]
           IN  x \in Task /\ x.step = y.step /\ x.next = y.next /\ x.got = y.got
               /\ x.born = y.born
BY DEF Task

LEMMA GetManyFacts ==
    ASSUME task \in [Workers -> Task], NEW w \in Workers, NEW c \in Cache, NEW i \in Nat \ {0},
           NEW held \in SUBSET Targets
    PROVE  LET t == GetMany(w, c, i, held)
           IN  /\ Others(t, w) /\ t[w].step \in {"connecting", "sending"}
               /\ t[w].got = task[w].got /\ t[w].born = task[w].born
               /\ t[w].step = "connecting" => t[w].next \in 1..Len(Target)
<1> DEFINE unknown == {j \in i..Len(Target) : Target[j] \notin c.clients \cup c.failed}
           stop == IF unknown = {} THEN Len(Target) + 1 ELSE Min(unknown)
           step == IF unknown = {} THEN "sending" ELSE "connecting"
           got == held \cup (c.clients \cap {Target[j] : j \in i..(stop - 1)})
           x == [[[task[w] EXCEPT !.step = step] EXCEPT !.next = stop] EXCEPT !.held = got]
<1>1. /\ stop \in Nat
      /\ unknown # {} => stop \in 1..Len(Target)
    <2>1. unknown \in SUBSET Nat /\ unknown \subseteq 1..Len(Target)
        BY Given
    <2> HIDE DEF unknown
    <2>2. CASE unknown = {}
        BY <2>2, Given
    <2>3. CASE unknown # {}
        BY <2>1, <2>3, MinFacts
    <2> QED
        BY <2>2, <2>3
<1>2. got \in SUBSET Targets /\ step \in {"connecting", "sending"}
    BY DEF Cache
<1>3. GetMany(w, c, i, held) = [task EXCEPT ![w] = x]
    BY DEF GetMany
<1>4. step = "connecting" => unknown # {}
    OBVIOUS
<1> HIDE DEF unknown, stop, step, got
<1>5. /\ x \in Task /\ x.step = step /\ x.next = stop /\ x.got = task[w].got
      /\ x.born = task[w].born
    <2> DEFINE a == [task[w] EXCEPT !.step = step]
               b == [a EXCEPT !.next = stop]
    <2>1. task[w] \in Task /\ step \in Steps
        BY <1>2 DEF Steps
    <2>2. a \in Task /\ a.step = step /\ a.got = task[w].got /\ a.born = task[w].born
        BY <2>1, StepField
    <2> HIDE DEF a
    <2>3. b \in Task /\ b.step = a.step /\ b.next = stop /\ b.got = a.got /\ b.born = a.born
        BY <1>1, <2>2, NextField
    <2> HIDE DEF b
    <2>4. LET y == [b EXCEPT !.held = got]
          IN  y \in Task /\ y.step = b.step /\ y.next = b.next /\ y.got = b.got
              /\ y.born = b.born
        BY <1>2, <2>3, HeldField
    <2>5. x = [b EXCEPT !.held = got]
        BY DEF a, b
    <2> QED
        BY <2>2, <2>3, <2>4, <2>5
<1> HIDE DEF x
<1>6. Others([task EXCEPT ![w] = x], w) /\ [task EXCEPT ![w] = x][w] = x
    BY <1>5, OneTask
<1> DEFINE t == GetMany(w, c, i, held)
<1>7. Others(t, w) /\ t[w] = x
    BY <1>3, <1>6
<1> HIDE DEF t
<1>8. /\ t[w].step \in {"connecting", "sending"} /\ t[w].got = task[w].got
      /\ t[w].born = task[w].born
      /\ t[w].step = "connecting" => t[w].next \in 1..Len(Target)
    BY <1>1, <1>2, <1>4, <1>5, <1>7
<1> QED
    BY <1>7, <1>8 DEF t

LEMMA YieldsFacts ==
    ASSUME task \in [Workers -> Task], NEW w \in Workers, NEW step \in Steps,
           Yields(w, step)
    PROVE  /\ Others(task', w) /\ task'[w].step = step /\ task'[w].got = task[w].got
           /\ task'[w].born = task[w].born
<1> DEFINE got == task[w].got
           x == [[[NoTask EXCEPT !.step = step] EXCEPT !.got = got] EXCEPT !.born = task[w].born]
<1>1. task' = [task EXCEPT ![w] = x]
    BY DEF Yields
<1>2. task[w].born \in 0..MaxNow /\ task[w].got \in SUBSET Compute
    BY DEF Task
<1>3. x \in Task /\ x.step = step /\ x.got = got /\ x.born = task[w].born
    BY <1>2, NoTaskType DEF Task
<1> QED
    BY <1>1, <1>3, OneTask

-----------------------------------------------------------------------------
(* What becomes of a worker, and of run() while it publishes *)

Frame == UNCHANGED <<plan, chunk, records, marks, metadata, deleted>>

\* A worker of the chunk goes on with its check, ...
Moved(r) ==
    /\ Others(task', r) /\ task[r].step \in Active
    /\ task'[r].step \in {"checking", "connecting", "sending"} /\ task'[r].born > 0
    /\ task'[r].step = "connecting" => task'[r].next \in 1..Len(Target)
    /\ UNCHANGED <<phase, key, successful, failed>> /\ Frame

\* ... or yields its result.
Yielded(r) ==
    /\ Others(task', r) /\ task[r].step \in Active
    /\ task'[r].step \in Ended /\ task'[r].born > 0 /\ task'[r].got = task[r].got
    /\ task'[r].step = "failed" => task'[r].got = {}
    /\ successful' = IF task'[r].step = "yielded" THEN successful \cup {r} ELSE successful
    /\ failed' = IF task'[r].step # "yielded" THEN failed \cup {r} ELSE failed
    /\ UNCHANGED <<phase, key>> /\ Frame

\* run() goes on to connect or to send, ...
MainMoved ==
    /\ Others(task', "main") /\ phase = "publish" /\ key \in 1..Len(Keys)
    /\ task'["main"].step \in {"connecting", "sending"}
    /\ task'["main"].step = "connecting" => task'["main"].next \in 1..Len(Target)
    /\ UNCHANGED <<phase, key, successful, failed>> /\ Frame

\* ... or has sent, or tried to.
MainDone ==
    /\ Others(task', "main") /\ phase = "publish" /\ key \in 1..Len(Keys)
    /\ task'["main"].step = "none"
    /\ \/ phase' = "publish" /\ key' = key + 1
       \/ phase' \in {"saving", "ending"} /\ key' = key
    /\ UNCHANGED <<successful, failed>> /\ Frame

\* A task that is at a step and those fields.
LEMMA TaskFields ==
    ASSUME task \in [Workers -> Task], NEW w \in Workers
    PROVE  /\ task[w] \in Task /\ task[w].step \in Steps /\ task[w].got \in SUBSET Compute
           /\ task[w].born \in 0..MaxNow /\ task[w].next \in Nat
           /\ task[w].tries \in [Compute -> Nat] /\ task[w].todo \in SUBSET Compute
           /\ task[w].held \in SUBSET Targets
BY DEF Task

LEMMA StartMoves ==
    ASSUME MInv, NEW r \in Relay, StartCheck(r)
    PROVE  Moved(r)
<1> DEFINE a == [task[r] EXCEPT !.step = "checking"]
           b == [a EXCEPT !.todo = Applicable(r)]
           x == [b EXCEPT !.born = now]
<1>1. task \in [Workers -> Task] /\ r \in Workers /\ task[r] \in Task /\ now \in 1..MaxNow
    BY MainNotRelay DEF MInv, ShapeOK
<1>2. task' = [task EXCEPT ![r] = x]
    BY DEF StartCheck
<1>3. a \in Task /\ a.step = "checking"
    BY <1>1, StepField DEF Steps
<1> HIDE DEF a
<1>4. b \in Task /\ b.step = "checking"
    BY <1>3 DEF Task, Applicable
<1> HIDE DEF b
<1>5. x \in Task /\ x.step = "checking" /\ x.born = now
    BY <1>1, <1>4 DEF Task
<1> HIDE DEF x
<1>6. Others(task', r) /\ task'[r] = x
    BY <1>1, <1>2, <1>5, OneTask
<1>7. now > 0 /\ task[r].step = "queued"
    BY <1>1, Given DEF StartCheck
<1> QED
    BY <1>5, <1>6, <1>7 DEF Moved, Active, Frame, StartCheck, chunked, flush, tables

LEMMA CheckingBorn ==
    ASSUME MInv, NEW r \in Relay, task[r].step \in {"checking", "connecting", "sending"}
    PROVE  task[r].born > 0
BY DEF MInv, WorkersOK

LEMMA AttemptMoves ==
    ASSUME MInv, NEW r \in Relay, NEW c \in Compute, NEW result \in BOOLEAN,
           NEW success \in BOOLEAN, Attempt(r, c, result, success)
    PROVE  Moved(r)
<1>1. /\ task \in [Workers -> Task] /\ r \in Workers /\ task[r] \in Task
      /\ task[r].step = "checking" /\ task[r].born > 0
    BY MainNotRelay, CheckingBorn DEF MInv, ShapeOK, Attempt
<1>2. \E x \in Task : /\ task' = [task EXCEPT ![r] = x]
                      /\ x.step = "checking" /\ x.born = task[r].born
    <2>1. CASE task' = [task EXCEPT ![r].tries[c] = @ + 1]
        <3> DEFINE n == [task[r].tries EXCEPT ![c] = @ + 1]
                   x == [task[r] EXCEPT !.tries = n]
        <3>1. n \in [Compute -> Nat]
            BY <1>1, TaskFields
        <3>2. task' = [task EXCEPT ![r].tries = n]
            BY <2>1
        <3>3. task' = [task EXCEPT ![r] = x]
            <4> HIDE DEF n
            <4> QED
                BY <3>2
        <3>4. x \in Task /\ x.step = "checking" /\ x.born = task[r].born
            <4> HIDE DEF n
            <4> QED
                BY <1>1, <3>1, TriesField
        <3> HIDE DEF x
        <3> QED
            BY <3>3, <3>4
    <2>2. ASSUME NEW kept \in BOOLEAN,
                 task' = [task EXCEPT ![r].todo = @ \ {c},
                                      ![r].got = IF kept THEN @ \cup {c} ELSE @]
          PROVE  \E x \in Task : /\ task' = [task EXCEPT ![r] = x]
                                 /\ x.step = "checking" /\ x.born = task[r].born
        <3> DEFINE a == [task[r] EXCEPT !.todo = @ \ {c}]
                   g == IF kept THEN task[r].got \cup {c} ELSE task[r].got
                   x == [a EXCEPT !.got = g]
                   u == [task EXCEPT ![r] = a]
        <3>1. /\ a \in Task /\ a.step = "checking" /\ a.born = task[r].born
              /\ a.got = task[r].got
            BY <1>1 DEF Task
        <3>2. g \in SUBSET Compute
            BY <1>1, TaskFields
        <3>3. x \in Task /\ x.step = "checking" /\ x.born = task[r].born
            <4> HIDE DEF a, g
            <4> QED
                BY <3>1, <3>2, GotField
        <3>4. task' = [u EXCEPT ![r] = [u[r] EXCEPT !.got = IF kept THEN @ \cup {c} ELSE @]]
            BY <2>2
        <3>5. u[r] = a /\ a.got = task[r].got
            BY <1>1, <3>1
        <3>6. task' = [u EXCEPT ![r] = x]
            <4> HIDE DEF a, u
            <4> QED
                BY <3>4, <3>5
        <3>7. task' = [task EXCEPT ![r] = x]
            BY <3>6
        <3> HIDE DEF a, g, x, u
        <3> QED
            BY <3>3, <3>7
    <2>3. \/ task' = [task EXCEPT ![r].tries[c] = @ + 1]
          \/ \E kept \in BOOLEAN : task' = [task EXCEPT ![r].todo = @ \ {c},
                                               ![r].got = IF kept THEN @ \cup {c} ELSE @]
        BY Zenon DEF Attempt
    <2> QED
        BY <2>1, <2>2, <2>3
<1>3. PICK x \in Task : /\ task' = [task EXCEPT ![r] = x]
                        /\ x.step = "checking" /\ x.born = task[r].born
    BY <1>2
<1>4. Others(task', r) /\ task'[r] = x
    BY <1>1, <1>3, OneTask
<1>5. UNCHANGED <<phase, key, successful, failed>> /\ Frame
    BY Zenon DEF Attempt, Frame, chunked, flush, tables, ghosts
<1> QED
    BY <1>1, <1>3, <1>4, <1>5 DEF Moved, Active

\* A worker yields: its result goes to the set it belongs to.
LEMMA YieldMoves ==
    ASSUME MInv, NEW r \in Relay, NEW step \in Ended, Yields(r, step),
           step = "failed" => task[r].got = {},
           task[r].step \in {"checking", "connecting", "sending"}, Frame, UNCHANGED <<phase, key>>
    PROVE  Yielded(r)
<1>1. task \in [Workers -> Task] /\ r \in Workers /\ task[r].born > 0
    BY MainNotRelay, CheckingBorn DEF MInv, ShapeOK
<1>2. /\ Others(task', r) /\ task'[r].step = step /\ task'[r].got = task[r].got
      /\ task'[r].born = task[r].born
    BY <1>1, YieldsFacts DEF Steps
<1>3. /\ successful' = IF step = "yielded" THEN successful \cup {r} ELSE successful
      /\ failed' = IF step # "yielded" THEN failed \cup {r} ELSE failed
    BY DEF Yields, Ended
<1> QED
    BY <1>1, <1>2, <1>3 DEF Yielded, Active

\* An exception: the boundary of the worker yields a failure.
LEMMA RaiseMoves ==
    ASSUME MInv, NEW r \in Relay, Raises(r), UNCHANGED <<tables, key, flush, ghosts>>,
           task[r].step \in {"checking", "connecting", "sending"}
    PROVE  Yielded(r)
<1>1. Yields(r, "raised") /\ UNCHANGED <<phase, plan, chunk>> /\ "raised" \in Ended
    BY MainNotRelay DEF Raises, Ended
<1>2. Frame /\ UNCHANGED <<phase, key>>
    BY <1>1 DEF Frame, tables, flush, ghosts
<1> QED
    BY <1>1, <1>2, YieldMoves

LEMMA CheckRaisesMoves ==
    ASSUME MInv, NEW r \in Relay, NEW c \in Compute, CheckRaises(r, c)
    PROVE  Moved(r) \/ Yielded(r)
<1>1. task[r].step = "checking" /\ UNCHANGED <<tables, key, flush, ghosts>>
    BY DEF CheckRaises
<1>2. CASE Raises(r)
    BY <1>1, <1>2, RaiseMoves
<1>3. CASE task' = [task EXCEPT ![r].todo = @ \ {c}] /\ UNCHANGED <<chunked, phase>>
    <2> DEFINE x == [task[r] EXCEPT !.todo = @ \ {c}]
    <2>1. /\ task \in [Workers -> Task] /\ r \in Workers /\ task[r] \in Task
          /\ task[r].born > 0
        BY <1>1, MainNotRelay, CheckingBorn DEF MInv, ShapeOK
    <2>2. x \in Task /\ x.step = "checking" /\ x.born = task[r].born
        BY <1>1, <2>1 DEF Task
    <2>3. task' = [task EXCEPT ![r] = x]
        BY <1>3
    <2> HIDE DEF x
    <2>4. Others(task', r) /\ task'[r] = x
        BY <2>1, <2>2, <2>3, OneTask
    <2> QED
        BY <1>1, <1>3, <2>1, <2>2, <2>4 DEF Moved, Active, Frame, chunked, tables, flush, ghosts
<1> QED
    BY <1>2, <1>3 DEF CheckRaises

LEMMA CheckDoneMoves ==
    ASSUME MInv, NEW r \in Relay, CheckDone(r)
    PROVE  Moved(r) \/ Yielded(r)
<1>1. /\ task \in [Workers -> Task] /\ r \in Workers /\ task[r].step = "checking"
      /\ task[r].born > 0 /\ task[r].got \in SUBSET Compute /\ cache \in Cache
    BY MainNotRelay, CheckingBorn, TaskFields DEF MInv, ShapeOK, CheckDone
<1>2. Frame /\ UNCHANGED <<phase, key>>
    BY DEF CheckDone, Frame, tables, flush, ghosts
<1>3. ASSUME NEW step \in {"yielded", "failed"}, Yields(r, step),
             step = "failed" => task[r].got = {}
      PROVE  Yielded(r)
    <2>1. step \in Ended
        BY DEF Ended
    <2> QED
        BY <1>1, <1>2, <1>3, <2>1, YieldMoves
<1>4. CASE task' = GetMany(r, cache, 1, {}) /\ UNCHANGED <<successful, failed>>
    <2>1. /\ Others(task', r) /\ task'[r].step \in {"connecting", "sending"}
          /\ task'[r].born = task[r].born
          /\ task'[r].step = "connecting" => task'[r].next \in 1..Len(Target)
        <3>1. {} \in SUBSET Targets /\ 1 \in Nat \ {0}
            OBVIOUS
        <3> QED
            BY <1>1, <1>4, <3>1, GetManyFacts
    <2> QED
        BY <1>1, <1>2, <1>4, <2>1 DEF Moved, Active
<1> QED
    BY <1>3, <1>4 DEF CheckDone

LEMMA DiscoveryMoves ==
    ASSUME MInv, NEW r \in Relay, DiscoveryDone(r)
    PROVE  Yielded(r)
<1>1. Frame /\ UNCHANGED <<phase, key>> /\ task[r].step = "sending"
    BY DEF DiscoveryDone, Frame, tables, flush, ghosts
<1>2. Yields(r, "yielded") /\ "yielded" \in Ended
    BY DEF DiscoveryDone, Ended
<1> QED
    BY <1>1, <1>2, YieldMoves

\* The pool with one more client.
LEMMA OneMoreClient ==
    ASSUME cache \in Cache, NEW t \in Targets
    PROVE  LET c == [cache EXCEPT !.clients = @ \cup {t}, !.open[t] = @ + 1]
           IN  /\ c \in Cache /\ c.clients = cache.clients \cup {t}
               /\ c.open = [cache.open EXCEPT ![t] = @ + 1]
<1> DEFINE a == [cache EXCEPT !.clients = @ \cup {t}]
           n == [cache.open EXCEPT ![t] = @ + 1]
           b == [a EXCEPT !.open = n]
           c == [cache EXCEPT !.clients = @ \cup {t}, !.open[t] = @ + 1]
<1>1. /\ a \in Cache /\ a.clients = cache.clients \cup {t} /\ a.open = cache.open
    BY DEF Cache
<1>2. n \in [Targets -> Nat]
    BY DEF Cache
<1>3. b \in Cache /\ b.clients = a.clients /\ b.open = n
    <2> HIDE DEF a, n
    <2> QED
        BY <1>1, <1>2 DEF Cache
<1>4. c = [a EXCEPT !.open[t] = @ + 1]
    OBVIOUS
<1>5. c = b
    <2>1. c = [a EXCEPT !.open = [a.open EXCEPT ![t] = a.open[t] + 1]]
        BY <1>4
    <2> HIDE DEF a
    <2> QED
        BY <1>1, <2>1
<1> HIDE DEF a, b, c
<1> QED
    BY <1>1, <1>3, <1>5 DEF c, n

\* A connection succeeds or is refused: get_many goes on.
LEMMA ClientTask ==
    ASSUME MInv, NEW w \in Workers, ClientStep(w)
    PROVE  /\ Others(task', w) /\ task[w].step = "connecting"
           /\ task'[w].step \in {"connecting", "sending"} /\ task'[w].born = task[w].born
           /\ task'[w].step = "connecting" => task'[w].next \in 1..Len(Target)
<1> DEFINE t == Target[task[w].next]
<1>1. /\ task \in [Workers -> Task] /\ task[w].step = "connecting"
      /\ task[w].next \in 1..Len(Target) /\ t \in Targets /\ cache \in Cache
      /\ task[w].held \in SUBSET Targets
    BY Given, TaskFields DEF MInv, ShapeOK, NextOK, ClientStep, ClientConnected, ClientRefused
<1>2. \E c \in Cache, held \in SUBSET Targets : task' = GetMany(w, c, task[w].next + 1, held)
    <2>1. CASE ClientConnected(w)
        <3>1. task' = GetMany(w, [cache EXCEPT !.clients = @ \cup {t}, !.open[t] = @ + 1],
                              task[w].next + 1, task[w].held \cup {t})
            BY <2>1 DEF ClientConnected
        <3>2. [cache EXCEPT !.clients = @ \cup {t}, !.open[t] = @ + 1] \in Cache
            BY <1>1, OneMoreClient
        <3>3. task[w].held \cup {t} \in SUBSET Targets
            BY <1>1
        <3> QED
            BY <3>1, <3>2, <3>3
    <2>2. CASE ClientRefused(w)
        <3>1. task' = GetMany(w, [cache EXCEPT !.failed = @ \cup {t}], task[w].next + 1,
                              task[w].held)
            BY <2>2 DEF ClientRefused
        <3>2. [cache EXCEPT !.failed = @ \cup {t}] \in Cache
            BY <1>1 DEF Cache
        <3> QED
            BY <1>1, <3>1, <3>2
    <2> QED
        BY <2>1, <2>2 DEF ClientStep
<1>3. PICK c \in Cache, held \in SUBSET Targets : task' = GetMany(w, c, task[w].next + 1, held)
    BY <1>2
<1>4. task[w].next + 1 \in Nat \ {0}
    BY <1>1, Given
<1> QED
    BY <1>1, <1>3, <1>4, GetManyFacts

LEMMA ClientFrame ==
    ASSUME NEW w, ClientStep(w)
    PROVE  UNCHANGED <<phase, key, successful, failed>> /\ Frame
BY Zenon DEF ClientStep, ClientConnected, ClientRefused, Frame, tables, chunked, flush, ghosts

LEMMA ClientMoves ==
    ASSUME MInv, NEW r \in Relay, ClientStep(r)
    PROVE  Moved(r)
<1>1. r \in Workers /\ task[r].step = "connecting" /\ task[r].born > 0
    BY MainNotRelay, ClientTask, CheckingBorn
<1>2. /\ Others(task', r) /\ task'[r].step \in {"connecting", "sending"}
      /\ task'[r].born = task[r].born
      /\ task'[r].step = "connecting" => task'[r].next \in 1..Len(Target)
    BY <1>1, ClientTask
<1>3. UNCHANGED <<phase, key, successful, failed>> /\ Frame
    BY ClientFrame
<1> QED
    BY <1>1, <1>2, <1>3 DEF Moved, Active

LEMMA WorkerMoves ==
    ASSUME MInv, NEW r \in Relay,
           \/ WorkerStep(r) \/ ClientStep(r) \/ ClientRaises(r)
           \/ \E c \in Compute : CheckRaises(r, c)
    PROVE  Moved(r) \/ Yielded(r)
<1>1. CASE ClientRaises(r)
    BY <1>1, RaiseMoves DEF ClientRaises
<1> QED
    BY <1>1, StartMoves, AttemptMoves, CheckDoneMoves, DiscoveryMoves, ClientMoves,
       CheckRaisesMoves DEF WorkerStep

\* run() while it publishes: on to the next event, or with a client.
LEMMA MainMoves ==
    ASSUME MInv,
           \/ Publish \/ ClientStep("main") \/ ClientRaises("main")
           \/ \E reached \in SUBSET Targets : Broadcast(reached)
    PROVE  \/ MainMoved \/ MainDone
           \/ /\ phase = "publish" /\ task["main"].step = "none"
              /\ UNCHANGED <<task, successful, failed>> /\ Frame
              /\ \/ phase' = "publish" /\ key' = key + 1 /\ key \in 1..Len(Keys)
                 \/ phase' = "fetch" /\ key' = key
<1>1. /\ task \in [Workers -> Task] /\ "main" \in Workers /\ cache \in Cache
      /\ key \in 0..(Len(Keys) + 1) /\ Len(Keys) \in Nat
    BY MainNotRelay, Given DEF MInv, ShapeOK, TypeOK
<1>2. task["main"].step \in {"connecting", "sending"} => phase = "publish" /\ key \in 1..Len(Keys)
    BY DEF MInv, MainOK
<1>3. ASSUME Yields("main", "none")
      PROVE  /\ Others(task', "main") /\ task'["main"].step = "none"
             /\ UNCHANGED <<successful, failed>>
    <2>1. "none" \in Steps
        BY DEF Steps
    <2>2. UNCHANGED <<successful, failed>>
        BY <1>3 DEF Yields
    <2> QED
        BY <1>1, <1>3, <2>1, <2>2, YieldsFacts
<1>4. CASE ClientStep("main")
    <2>1. /\ Others(task', "main") /\ task["main"].step = "connecting"
          /\ task'["main"].step \in {"connecting", "sending"}
          /\ task'["main"].step = "connecting" => task'["main"].next \in 1..Len(Target)
        BY <1>1, <1>4, ClientTask
    <2> QED
        BY <1>2, <1>4, <2>1, ClientFrame DEF MainMoved
<1>5. CASE ClientRaises("main")
    <2>1. /\ Yields("main", "none") /\ phase' = "ending" /\ key' = key
          /\ task["main"].step \in {"connecting", "sending"}
          /\ Frame
        BY <1>5 DEF ClientRaises, Raises, Frame, tables, flush, ghosts
    <2> QED
        BY <1>2, <1>3, <2>1 DEF MainDone
<1>6. CASE \E reached \in SUBSET Targets : Broadcast(reached)
    <2>1. /\ Yields("main", "none") /\ task["main"].step = "sending" /\ Frame
          /\ (key' = key + 1 /\ phase' = phase) \/ (phase' = "saving" /\ key' = key)
        BY <1>6 DEF Broadcast, Frame, tables, flush, ghosts
    <2> QED
        BY <1>2, <1>3, <2>1 DEF MainDone
<1>7. CASE Publish
    <2>1. /\ phase = "publish" /\ task["main"].step = "none"
          /\ UNCHANGED <<successful, failed>> /\ Frame
        BY <1>7 DEF Publish, Frame, chunked, tables, flush, ghosts
    <2>2. \/ phase' = "fetch" /\ UNCHANGED <<key, task>>
          \/ key <= Len(Keys) /\ task' = GetMany("main", cache, 1, {}) /\ UNCHANGED <<key, phase>>
          \/ key <= Len(Keys) /\ key' = key + 1 /\ UNCHANGED <<task, phase>>
        BY <1>1, <1>7 DEF Publish
    <2>3. key > 0
        BY <2>1 DEF MInv, MainOK
    <2>4. ASSUME key <= Len(Keys), task' = GetMany("main", cache, 1, {}), UNCHANGED <<key, phase>>
          PROVE  MainMoved
        <3>1. {} \in SUBSET Targets /\ 1 \in Nat \ {0}
            OBVIOUS
        <3>2. /\ Others(task', "main") /\ task'["main"].step \in {"connecting", "sending"}
              /\ task'["main"].step = "connecting" => task'["main"].next \in 1..Len(Target)
            BY <1>1, <2>4, <3>1, GetManyFacts
        <3> QED
            BY <1>1, <2>1, <2>3, <2>4, <3>2 DEF MainMoved
    <2> QED
        BY <1>1, <2>1, <2>2, <2>3, <2>4
<1> QED
    BY <1>4, <1>5, <1>6, <1>7

-----------------------------------------------------------------------------
(* The steps *)

\* The steps that leave the tasks and the results alone ...
Aside ==
    \/ Cleanup \/ UpdateGeoDatabases \/ OpenReaders \/ SavePublished \/ FetchRelays
    \/ \E suppressed \in BOOLEAN : DownloadFails(suppressed)
    \/ DatabaseFails \/ Shutdown \/ Tick \/ \E r \in Relay : DeleteRelay(r)

\* ... or forget them.
Forgets == EndCycle \/ Crash \/ Restart

PublishNext ==
    /\ phase = "publish" /\ task["main"].step = "none"
    /\ UNCHANGED <<task, successful, failed>> /\ Frame
    /\ \/ phase' = "publish" /\ key' = key + 1 /\ key \in 1..Len(Keys)
       \/ phase' = "fetch" /\ key' = key

LEMMA AllSteps ==
    ASSUME MInv, Next
    PROVE  \/ \E r \in Relay : Moved(r) \/ Yielded(r)
           \/ MainMoved \/ MainDone \/ PublishNext
           \/ NextChunk \/ ChunkChecked \/ InsertMetadata \/ MarkChecked
           \/ Aside \/ Forgets
<1>1. DOMAIN task = Relay \cup {"main"}
    BY DEF MInv, ShapeOK, Workers
<1>2. ASSUME NEW w \in DOMAIN task, ClientStep(w) \/ ClientRaises(w)
      PROVE  (\E r \in Relay : Moved(r) \/ Yielded(r)) \/ MainMoved \/ MainDone \/ PublishNext
    <2>1. CASE w \in Relay
        BY <1>2, <2>1, WorkerMoves
    <2>2. CASE w = "main"
        BY <1>2, <2>2, MainMoves DEF PublishNext
    <2> QED
        BY <1>1, <1>2, <2>1, <2>2
<1>3. CASE Publish \/ \E reached \in SUBSET Targets : Broadcast(reached)
    BY <1>3, MainMoves DEF PublishNext
<1>4. ASSUME NEW r \in Relay, WorkerStep(r) \/ \E c \in Compute : CheckRaises(r, c)
      PROVE  Moved(r) \/ Yielded(r)
    BY <1>4, WorkerMoves
<1>5. CASE MainStep \/ Tick
    BY <1>3, <1>5 DEF MainStep, Aside, Forgets
<1>6. CASE Failure
    BY <1>2, <1>4, <1>6 DEF Failure, Aside, Forgets
<1>7. CASE (\E r \in Relay : WorkerStep(r)) \/ \E w \in DOMAIN task : ClientStep(w)
    BY <1>2, <1>4, <1>7
<1> QED
    BY <1>5, <1>6, <1>7 DEF Next, Step

LEMMA AsideFacts ==
    ASSUME Aside
    PROVE  /\ UNCHANGED <<task, chunk, successful, failed, records, marks, cache, displaced>>
           /\ phase' = phase \/ phase' \notin {"checking", "inserting", "marking"}
           /\ phase = "checking" => phase' = phase
           /\ phase' = phase \/ phase' \notin {"idle", "geo", "open"}
              \/ phase \in {"idle", "geo", "open"}
<1>1. UNCHANGED <<task, chunk, successful, failed, records, marks, cache, displaced>>
    BY Zenon DEF Aside, Cleanup, UpdateGeoDatabases, OpenReaders, SavePublished, FetchRelays,
       DownloadFails, DatabaseFails, Shutdown, Tick, DeleteRelay, chunked, flush, ghosts
<1>2. \/ UNCHANGED phase
      \/ phase = "idle" /\ phase' = "geo"
      \/ phase = "geo" /\ phase' \in {"open", "idle"}
      \/ phase = "open" /\ phase' \in {"publish", "idle"}
      \/ phase = "saving" /\ phase' = "publish"
      \/ phase = "fetch" /\ phase' = "chunks"
      \/ phase # "checking" /\ phase' = "ending"
    BY DEF Aside, Cleanup, UpdateGeoDatabases, OpenReaders, SavePublished, FetchRelays,
       DownloadFails, DatabaseFails, Shutdown, Tick, DeleteRelay
<1> QED
    BY <1>1, <1>2

LEMMA ForgetFacts ==
    ASSUME Forgets
    PROVE  /\ phase' = "idle" /\ task' = NoTasks /\ chunk' = {} /\ plan' = <<>> /\ key' = 0
           /\ successful' = {} /\ failed' = {} /\ records' = {} /\ marks' = {} /\ stamp' = 0
           /\ readers' = {} /\ UNCHANGED <<tables, disk, now, chunk_size>>
BY Zenon DEF Forgets, EndCycle, Crash, Restart, NewProcess

LEMMA NoTasksFacts ==
    /\ NoTasks \in [Workers -> Task]
    /\ \A w \in Workers : NoTasks[w].step = "none" /\ NoTasks[w].got = {}
BY NoTaskType DEF NoTasks, Workers

\* The tasks of the next chunk are queued, with nothing else.
LEMMA NextChunkFacts ==
    ASSUME MInv, NextChunk
    PROVE  /\ phase = "chunks" /\ successful' = {} /\ failed' = {} /\ deleted' = {}
           /\ UNCHANGED <<key, records, marks, metadata>>
           /\ \/ phase' = "ending" /\ UNCHANGED <<plan, chunk, task>>
              \/ /\ phase' = "checking" /\ chunk' \subseteq Relay /\ plan' \in Seq(Relay)
                 /\ task' \in [Workers -> Task]
                 /\ \A w \in Workers : task'[w].step = IF w \in chunk' THEN "queued" ELSE "none"
<1>1. /\ phase = "chunks" /\ successful' = {} /\ failed' = {} /\ deleted' = {}
      /\ UNCHANGED <<key, records, marks, metadata>>
    BY DEF NextChunk, flush, tables
<1>2. \/ phase' = "ending" /\ UNCHANGED <<plan, chunk, task>>
      \/ /\ phase' = "checking"
         /\ \E n \in {Min({chunk_size, Len(plan)})} :
               /\ chunk' = ToSet(SubSeq(plan, 1, n))
               /\ plan' = SubSeq(plan, n + 1, Len(plan))
         /\ task' = [w \in DOMAIN task |->
                        IF w \in chunk' THEN [NoTask EXCEPT !.step = "queued"] ELSE NoTask]
    BY DEF NextChunk
<1>3. plan \in Seq(Relay) /\ chunk_size \in Nat /\ Len(plan) \in Nat /\ DOMAIN task = Workers
    BY MonitorAssumption DEF MInv, TypeOK, ShapeOK
<1>4. ASSUME NEW n \in {Min({chunk_size, Len(plan)})}
      PROVE  n \in Nat /\ n <= Len(plan) /\ SubSeq(plan, 1, n) \in Seq(Relay)
             /\ SubSeq(plan, n + 1, Len(plan)) \in Seq(Relay)
    <2>1. n \in Nat /\ n <= Len(plan)
        BY <1>3, MinFacts
    <2>2. \A i \in 1..Len(plan) : plan[i] \in Relay
        BY <1>3
    <2>3. SubSeq(plan, 1, n) \in Seq(Relay)
        BY <1>3, <2>1, <2>2, SubSeqProperties
    <2>4. SubSeq(plan, n + 1, Len(plan)) \in Seq(Relay)
        BY <1>3, <2>1, <2>2, SubSeqProperties
    <2> QED
        BY <2>1, <2>3, <2>4
<1>5. \A s \in Seq(Relay) : ToSet(s) \subseteq Relay
    BY DEF ToSet
<1>6. /\ [NoTask EXCEPT !.step = "queued"] \in Task
      /\ [NoTask EXCEPT !.step = "queued"].step = "queued"
    BY NoTaskType, StepField DEF Steps
<1> QED
    BY <1>1, <1>2, <1>3, <1>4, <1>5, <1>6, NoTaskType

LEMMA MarkFacts ==
    ASSUME MarkChecked
    PROVE  /\ phase = "marking" /\ UNCHANGED <<key, successful, failed, records, metadata, deleted>>
           /\ marks' \subseteq marks
           /\ \/ phase' = "chunks" /\ stamp' = 0 /\ chunk' = {} /\ task' = NoTasks
              \/ phase' = phase /\ UNCHANGED <<stamp, chunk, task>>
BY Zenon DEF MarkChecked, ghosts

LEMMA InsertFacts ==
    ASSUME InsertMetadata
    PROVE  /\ phase = "inserting"
           /\ UNCHANGED <<key, successful, failed, deleted, task, chunk>>
           /\ records' \subseteq records /\ records \cup metadata \subseteq records' \cup metadata'
           /\ \/ /\ phase' = "marking" /\ marks' = successful \cup failed /\ stamp' = now
                 /\ records' = {}
              \/ UNCHANGED <<phase, marks, stamp>>
<1>1. /\ phase = "inserting"
      /\ UNCHANGED <<key, successful, failed, deleted, task, chunk>>
      /\ \/ phase' = "marking" /\ marks' = successful \cup failed /\ stamp' = now /\ records' = {}
         \/ UNCHANGED <<phase, marks, stamp>>
    BY Zenon DEF InsertMetadata, chunked, ghosts
<1>2. PICK batch \in SUBSET records : metadata' = metadata \cup batch /\ records' = records \ batch
    BY DEF InsertMetadata
<1> QED
    BY <1>1, <1>2

LEMMA CheckedFacts ==
    ASSUME MInv, ChunkChecked
    PROVE  /\ phase = "checking" /\ phase' = "inserting"
           /\ UNCHANGED <<key, successful, failed, deleted, task, chunk, marks, metadata>>
           /\ \A r \in chunk : task[r].step \in Ended
           /\ records' = {<<r, c, task[r].born>> : r \in successful, c \in Store}
                         \cap UNION {{<<r, c, task[r].born>> : c \in task[r].got}
                                       : r \in successful}
<1>1. /\ phase = "checking" /\ phase' = "inserting"
      /\ UNCHANGED <<key, successful, failed, deleted, task, chunk, marks, metadata>>
      /\ \A r \in chunk : task[r].step \in Ended \cup {"silent"}
      /\ records' = {<<r, c, task[r].born>> : r \in successful, c \in Store}
                    \cap UNION {{<<r, c, task[r].born>> : c \in task[r].got} : r \in successful}
    BY DEF ChunkChecked, chunked, tables, ghosts
<1>2. \A r \in chunk : task[r].step # "silent"
    BY MainNotRelay, TaskFields DEF MInv, ShapeOK, TypeOK, Steps, Ended
<1> QED
    BY <1>1, <1>2

-----------------------------------------------------------------------------
(* The invariant is preserved: workers and results *)

LEMMA TasksKeepShape ==
    ASSUME MInv, Next
    PROVE  task' \in [Workers -> Task]
<1>1. task \in [Workers -> Task]
    BY DEF MInv, ShapeOK
<1> QED
    BY <1>1, AllSteps, AsideFacts, ForgetFacts, NoTasksFacts, NextChunkFacts, MarkFacts,
       InsertFacts, CheckedFacts DEF Moved, Yielded, MainMoved, MainDone, PublishNext, Others

LEMMA MainIsKept ==
    ASSUME MInv, Next
    PROVE  MainOK'
<1>1. /\ MainOK /\ "main" \in Workers /\ "main" \notin Relay /\ key \in Nat /\ Len(Keys) \in Nat
      /\ task \in [Workers -> Task] /\ key \in 0..(Len(Keys) + 1)
    BY MainNotRelay, Given DEF MInv, TypeOK, ShapeOK
<1>2. ASSUME NEW r \in Relay, Moved(r) \/ Yielded(r)
      PROVE  MainOK'
    <2>1. task'["main"] = task["main"] /\ UNCHANGED <<phase, key>>
        BY <1>1, <1>2 DEF Moved, Yielded, Others
    <2> QED
        BY <1>1, <2>1 DEF MainOK
<1>3. CASE MainMoved \/ MainDone
    BY <1>1, <1>3 DEF MainOK, MainMoved, MainDone
<1>4. CASE PublishNext
    BY <1>1, <1>4 DEF MainOK, PublishNext
<1>5. CASE NextChunk
    <2>1. phase = "chunks" /\ phase' \in {"ending", "checking"} /\ key' = key
        BY <1>5, NextChunkFacts
    <2>2. task["main"].step = "none"
        BY <1>1, <2>1 DEF MainOK
    <2>3. task'["main"].step = "none"
        BY <1>1, <1>5, <2>2, NextChunkFacts
    <2> QED
        BY <2>1, <2>3 DEF MainOK
<1>6. CASE ChunkChecked \/ InsertMetadata \/ MarkChecked
    <2>1. phase \in {"checking", "inserting", "marking"}
        BY <1>6, CheckedFacts, InsertFacts, MarkFacts
    <2>2. phase' \in {"inserting", "marking", "chunks"} /\ (task' = task \/ task' = NoTasks)
        BY <1>6, CheckedFacts, InsertFacts, MarkFacts
    <2>3. task["main"].step = "none"
        BY <1>1, <2>1 DEF MainOK
    <2>4. task'["main"].step = "none"
        BY <1>1, <2>2, <2>3, NoTasksFacts
    <2> QED
        BY <2>2, <2>4 DEF MainOK
<1>7. CASE Forgets
    BY <1>1, <1>7, ForgetFacts, NoTasksFacts DEF MainOK
<1>8. CASE Aside
    <2>1. task' = task
        BY <1>8, AsideFacts
    <2>2. \/ UNCHANGED <<phase, key>>
          \/ phase' \notin {"publish", "saving"} /\ task["main"].step = "none"
          \/ phase \in {"saving", "open"} /\ phase' = "publish" /\ (key' = 1 \/ key' = key + 1)
        <3>1. phase # "publish" => task["main"].step = "none"
            BY <1>1 DEF MainOK
        <3> QED
            BY <1>8, <3>1 DEF Aside, Cleanup, UpdateGeoDatabases, OpenReaders, SavePublished,
               FetchRelays, DownloadFails, DatabaseFails, Shutdown, Tick, DeleteRelay
    <2> QED
        BY <1>1, <2>1, <2>2 DEF MainOK
<1> QED
    BY <1>2, <1>3, <1>4, <1>5, <1>6, <1>7, <1>8, AllSteps

LEMMA WorkersAreKept ==
    ASSUME MInv, Next
    PROVE  WorkersOK'
<1>1. WorkersOK /\ Relay \subseteq Workers /\ "main" \notin Relay /\ task \in [Workers -> Task]
    BY MainNotRelay DEF MInv, ShapeOK
<1>2. ASSUME NEW r \in Relay, Moved(r) \/ Yielded(r)
      PROVE  WorkersOK'
    <2>1. phase = "checking" /\ r \in chunk /\ UNCHANGED <<phase, chunk>>
        BY <1>1, <1>2 DEF WorkersOK, Moved, Yielded, Frame
    <2>2. \A v \in Relay \ {r} : task'[v] = task[v]
        BY <1>1, <1>2 DEF Moved, Yielded, Others
    <2>3. /\ task'[r].born > 0
          /\ task'[r].step = "failed" => task'[r].got = {}
        BY <1>2 DEF Moved, Yielded
    <2> QED
        BY <1>1, <2>1, <2>2, <2>3 DEF WorkersOK
<1>3. CASE MainMoved \/ MainDone \/ PublishNext
    <2>1. /\ phase = "publish" /\ phase' \in {"publish", "saving", "fetch", "ending"}
          /\ \A r \in Relay : task'[r] = task[r]
        BY <1>1, <1>3 DEF MainMoved, MainDone, PublishNext, Others
    <2> QED
        BY <1>1, <2>1 DEF WorkersOK
<1>4. CASE NextChunk
    <2>1. \/ phase = "chunks" /\ phase' = "ending" /\ task' = task
          \/ /\ phase' = "checking"
             /\ \A w \in Relay : task'[w].step = IF w \in chunk' THEN "queued" ELSE "none"
        BY <1>1, <1>4, NextChunkFacts
    <2> QED
        BY <1>1, <2>1 DEF WorkersOK, Active
<1>5. CASE ChunkChecked
    BY <1>1, <1>5, CheckedFacts DEF WorkersOK, Active, Ended
<1>6. CASE InsertMetadata
    BY <1>1, <1>6, InsertFacts DEF WorkersOK
<1>7. CASE MarkChecked \/ Forgets
    <2>1. \/ phase' \in {"chunks", "idle"} /\ task' = NoTasks
          \/ UNCHANGED <<phase, chunk, task>>
        BY <1>7, MarkFacts, ForgetFacts
    <2> QED
        BY <1>1, <2>1, NoTasksFacts DEF WorkersOK, Active
<1>8. CASE Aside
    BY <1>1, <1>8, AsideFacts DEF WorkersOK
<1> QED
    BY <1>2, <1>3, <1>4, <1>5, <1>6, <1>7, <1>8, AllSteps

LEMMA NextIsKept ==
    ASSUME MInv, Next
    PROVE  NextOK'
<1>1. NextOK /\ task \in [Workers -> Task] /\ Relay \subseteq Workers /\ "main" \in Workers
    BY MainNotRelay DEF MInv, ShapeOK
<1>2. ASSUME NEW r \in Relay, Moved(r) \/ Yielded(r)
      PROVE  NextOK'
    BY <1>1, <1>2 DEF NextOK, Moved, Yielded, Others, Ended
<1>3. CASE MainMoved \/ MainDone
    BY <1>1, <1>3 DEF NextOK, MainMoved, MainDone, Others
<1>4. CASE NextChunk
    BY <1>1, <1>4, NextChunkFacts DEF NextOK
<1>5. CASE PublishNext \/ ChunkChecked \/ InsertMetadata \/ MarkChecked \/ Aside \/ Forgets
    <2>1. task' = task \/ task' = NoTasks
        BY <1>5, CheckedFacts, InsertFacts, MarkFacts, AsideFacts, ForgetFacts DEF PublishNext
    <2> QED
        BY <1>1, <2>1, NoTasksFacts DEF NextOK
<1> QED
    BY <1>2, <1>3, <1>4, <1>5, AllSteps

LEMMA ResultsAreKept ==
    ASSUME MInv, Next
    PROVE  ResultsOK'
<1>1. /\ ResultsOK /\ Relay \subseteq Workers /\ "main" \notin Relay /\ chunk \subseteq Relay
      /\ task \in [Workers -> Task]
    BY MainNotRelay DEF MInv, ShapeOK, TypeOK
<1>2. ASSUME NEW r \in Relay, Moved(r) \/ Yielded(r)
      PROVE  ResultsOK'
    <2>1. /\ phase = "checking" /\ r \in chunk /\ UNCHANGED <<phase, chunk>>
          /\ task[r].step \notin Ended
        BY <1>2 DEF MInv, WorkersOK, Moved, Yielded, Frame, Active, Ended
    <2>2. \A v \in chunk \ {r} : task'[v] = task[v]
        BY <1>1, <1>2 DEF Moved, Yielded, Others
    <2>3. /\ successful = {v \in chunk : task[v].step = "yielded"}
          /\ failed = {v \in chunk : task[v].step \in {"failed", "raised"}}
        BY <1>1, <2>1 DEF ResultsOK
    <2>4. CASE Moved(r)
        <3>1. UNCHANGED <<successful, failed>> /\ task'[r].step \notin Ended
            BY <2>4 DEF Moved, Ended
        <3>2. successful' = {v \in chunk' : task'[v].step = "yielded"}
            BY <2>1, <2>2, <2>3, <3>1 DEF Ended
        <3>3. failed' = {v \in chunk' : task'[v].step \in {"failed", "raised"}}
            BY <2>1, <2>2, <2>3, <3>1 DEF Ended
        <3> QED
            BY <3>2, <3>3 DEF ResultsOK
    <2>5. CASE Yielded(r)
        <3>1. /\ task'[r].step \in Ended
              /\ successful' = IF task'[r].step = "yielded" THEN successful \cup {r}
                                                           ELSE successful
              /\ failed' = IF task'[r].step # "yielded" THEN failed \cup {r} ELSE failed
            BY <2>5 DEF Yielded
        <3>2. successful' = {v \in chunk' : task'[v].step = "yielded"}
            BY <2>1, <2>2, <2>3, <3>1 DEF Ended
        <3>3. failed' = {v \in chunk' : task'[v].step \in {"failed", "raised"}}
            BY <2>1, <2>2, <2>3, <3>1 DEF Ended
        <3> QED
            BY <3>2, <3>3 DEF ResultsOK
    <2> QED
        BY <1>2, <2>4, <2>5
<1>3. CASE MainMoved \/ MainDone \/ PublishNext
    <2>1. phase' \in {"publish", "saving", "fetch", "ending"}
        BY <1>3 DEF MainMoved, MainDone, PublishNext
    <2> QED
        BY <2>1 DEF ResultsOK
<1>4. CASE NextChunk
    <2>1. \/ phase' = "ending"
          \/ /\ successful' = {} /\ failed' = {} /\ chunk' \subseteq Relay
             /\ \A w \in Relay : task'[w].step \in {"queued", "none"}
        BY <1>1, <1>4, NextChunkFacts
    <2> QED
        BY <2>1 DEF ResultsOK
<1>5. CASE ChunkChecked
    BY <1>1, <1>5, CheckedFacts DEF ResultsOK
<1>6. CASE InsertMetadata
    BY <1>1, <1>6, InsertFacts DEF ResultsOK
<1>7. CASE MarkChecked
    BY <1>1, <1>7, MarkFacts DEF ResultsOK
<1>8. CASE Forgets
    BY <1>8, ForgetFacts DEF ResultsOK
<1>9. CASE Aside
    BY <1>1, <1>9, AsideFacts DEF ResultsOK
<1> QED
    BY <1>2, <1>3, <1>4, <1>5, <1>6, <1>7, <1>8, <1>9, AllSteps

-----------------------------------------------------------------------------
(* The invariant is preserved: clients and metadata *)

LEMMA CacheSteps ==
    ASSUME MInv, Next
    PROVE  \/ UNCHANGED <<cache, displaced>> \/ Forgets
           \/ \E w \in Workers : ClientConnected(w) \/ ClientRefused(w)
<1>1. DOMAIN task = Workers
    BY DEF MInv, ShapeOK
<1>2. CASE Aside
    BY <1>2, AsideFacts
<1>3. CASE \/ Publish \/ NextChunk \/ ChunkChecked \/ InsertMetadata \/ MarkChecked
           \/ \E reached \in SUBSET Targets : Broadcast(reached)
    <2>1. Publish \/ NextChunk \/ ChunkChecked => UNCHANGED <<cache, displaced>>
        BY DEF Publish, NextChunk, ChunkChecked, ghosts
    <2>2. InsertMetadata \/ MarkChecked => UNCHANGED <<cache, displaced>>
        BY DEF InsertMetadata, MarkChecked, ghosts
    <2>3. \A reached \in SUBSET Targets : Broadcast(reached) => UNCHANGED <<cache, displaced>>
        BY DEF Broadcast, ghosts
    <2> QED
        BY <1>3, <2>1, <2>2, <2>3
<1>4. CASE \E r \in Relay : WorkerStep(r)
    <2>1. PICK r \in Relay : WorkerStep(r)
        BY <1>4
    <2>2. ASSUME NEW c \in Compute, NEW result \in BOOLEAN, NEW success \in BOOLEAN,
                 Attempt(r, c, result, success)
          PROVE  UNCHANGED <<cache, displaced>>
        BY <2>2 DEF Attempt, ghosts
    <2>3. StartCheck(r) \/ CheckDone(r) \/ DiscoveryDone(r) => UNCHANGED <<cache, displaced>>
        BY DEF StartCheck, CheckDone, DiscoveryDone, ghosts
    <2> QED
        BY <2>1, <2>2, <2>3 DEF WorkerStep
<1>5. CASE \/ \E w \in DOMAIN task : ClientRaises(w)
           \/ \E r \in Relay, c \in Compute : CheckRaises(r, c)
    <2>1. \A w \in DOMAIN task : ClientRaises(w) => UNCHANGED <<cache, displaced>>
        BY DEF ClientRaises, ghosts
    <2>2. \A r \in Relay, c \in Compute : CheckRaises(r, c) => UNCHANGED <<cache, displaced>>
        BY DEF CheckRaises, ghosts
    <2> QED
        BY <1>5, <2>1, <2>2
<1>6. CASE \E w \in DOMAIN task : ClientStep(w)
    BY <1>1, <1>6 DEF ClientStep
<1>7. CASE MainStep \/ Tick
    BY <1>2, <1>3, <1>7 DEF MainStep, Aside, Forgets
<1>8. CASE Failure
    BY <1>2, <1>5, <1>8 DEF Failure, Aside, Forgets
<1> QED
    BY <1>4, <1>6, <1>7, <1>8 DEF Next, Step

\* Only the end of a cycle, or of the process, forgets its clients.
LEMMA EarlyPhases ==
    ASSUME MInv, Next, phase' \in {"idle", "geo", "open"}
    PROVE  Forgets \/ phase \in {"idle", "geo", "open"}
BY AllSteps, AsideFacts, NextChunkFacts, MarkFacts, InsertFacts, CheckedFacts
   DEF Moved, Yielded, MainMoved, MainDone, PublishNext

\* After the finally nothing is left but what was displaced.
LEMMA Disconnected ==
    ASSUME MInv, Forgets
    PROVE  /\ cache' \in Cache /\ displaced' \in [Targets -> Nat] /\ cache'.clients = {}
           /\ \A t \in Targets : cache'.open[t] = displaced'[t]
<1>1. cache \in Cache /\ displaced \in [Targets -> Nat] /\ ClientsOK
    BY DEF MInv, ShapeOK
<1>2. CASE EndCycle
    <2> DEFINE open == [t \in Targets |-> cache.open[t] - (IF t \in cache.clients THEN 1 ELSE 0)]
    <2>1. cache' = [NoClients EXCEPT !.open = open] /\ displaced' = displaced
        BY <1>2 DEF EndCycle, ghosts
    <2>2. \A t \in Targets : displaced[t] \in Nat /\ open[t] = displaced[t]
        BY <1>1 DEF ClientsOK
    <2>3. open = displaced
        BY <1>1, <2>2
    <2> HIDE DEF open
    <2>4. /\ [NoClients EXCEPT !.open = open].clients = {}
          /\ [NoClients EXCEPT !.open = open].failed = {}
          /\ [NoClients EXCEPT !.open = open].open = open
          /\ [NoClients EXCEPT !.open = open] = [clients |-> {}, failed |-> {}, open |-> open]
        BY DEF NoClients
    <2> QED
        BY <1>1, <2>1, <2>3, <2>4 DEF Cache
<1>3. CASE Crash \/ Restart
    <2>1. cache' = NoClients /\ displaced' = [t \in Targets |-> 0]
        BY <1>3 DEF Crash, Restart, NewProcess
    <2> QED
        BY <2>1 DEF NoClients, Cache
<1> QED
    BY <1>2, <1>3 DEF Forgets

LEMMA ClientsAreKept ==
    ASSUME MInv, Next
    PROVE  cache' \in Cache /\ displaced' \in [Targets -> Nat] /\ ClientsOK'
<1>1. cache \in Cache /\ displaced \in [Targets -> Nat] /\ ClientsOK
    BY DEF MInv, ShapeOK
<1>2. CASE Forgets
    BY <1>2, Disconnected DEF ClientsOK, Cache
<1>3. CASE ~Forgets /\ UNCHANGED <<cache, displaced>>
    BY <1>1, <1>3, EarlyPhases DEF ClientsOK
<1>4. ASSUME NEW w \in Workers, ClientConnected(w) \/ ClientRefused(w)
      PROVE  cache' \in Cache /\ displaced' \in [Targets -> Nat] /\ ClientsOK'
    <2> DEFINE t == Target[task[w].next]
    <2>1. t \in Targets /\ task[w].step = "connecting"
        BY <1>4, Given DEF MInv, NextOK, ClientConnected, ClientRefused
    <2>2. phase \notin {"idle", "geo", "open"} /\ phase' = phase
        <3>1. UNCHANGED phase
            BY <1>4 DEF ClientConnected, ClientRefused
        <3> QED
            BY <2>1, <3>1 DEF MInv, WorkersOK, MainOK, Active, Workers
    <2>3. CASE ClientConnected(w)
        <3> DEFINE c == [cache EXCEPT !.clients = @ \cup {t}, !.open[t] = @ + 1]
        <3>1. cache' = c
            BY <2>3 DEF ClientConnected
        <3>2. displaced' = IF t \in cache.clients THEN [displaced EXCEPT ![t] = @ + 1]
                                     ELSE displaced
            BY <2>3 DEF ClientConnected
        <3>3. /\ c \in Cache /\ c.clients = cache.clients \cup {t}
              /\ c.open = [cache.open EXCEPT ![t] = @ + 1]
            BY <1>1, <2>1, OneMoreClient
        <3> HIDE DEF c, t
        <3>4. displaced' \in [Targets -> Nat]
            BY <1>1, <2>1, <3>2
        <3>5. ASSUME NEW u \in Targets
              PROVE  cache'.open[u] = displaced'[u] + (IF u \in cache'.clients THEN 1 ELSE 0)
            <4>1. cache.open[u] = displaced[u] + (IF u \in cache.clients THEN 1 ELSE 0)
                BY <1>1 DEF ClientsOK
            <4>2. cache.open \in [Targets -> Nat] /\ cache.open[u] \in Nat /\ displaced[u] \in Nat
                BY <1>1 DEF Cache
            <4>3. CASE u = t
                BY <1>1, <2>1, <3>1, <3>2, <3>3, <4>1, <4>2, <4>3
            <4>4. CASE u # t
                BY <1>1, <2>1, <3>1, <3>2, <3>3, <4>1, <4>2, <4>4
            <4> QED
                BY <4>3, <4>4
        <3> QED
            BY <2>2, <3>1, <3>3, <3>4, <3>5 DEF ClientsOK
    <2>4. CASE ClientRefused(w)
        <3>1. cache' = [cache EXCEPT !.failed = @ \cup {t}] /\ displaced' = displaced
            BY <2>4 DEF ClientRefused, ghosts
        <3>2. cache' \in Cache /\ cache'.clients = cache.clients /\ cache'.open = cache.open
            BY <1>1, <2>1, <3>1 DEF Cache
        <3> QED
            BY <1>1, <2>2, <3>1, <3>2 DEF ClientsOK
    <2> QED
        BY <1>4, <2>3, <2>4
<1> QED
    BY <1>2, <1>3, <1>4, CacheSteps

\* Only a deleted relay loses rows.
LEMMA AsideRows ==
    ASSUME Aside
    PROVE  /\ deleted \subseteq deleted'
           /\ \A m \in metadata : m \in metadata' \/ m[1] \in deleted'
<1>1. UNCHANGED <<metadata, deleted>> \/ \E r \in Relay : DeleteRelay(r)
    BY Zenon DEF Aside, Cleanup, UpdateGeoDatabases, OpenReaders, SavePublished, FetchRelays,
       DownloadFails, DatabaseFails, Shutdown, Tick, tables, ghosts
<1> QED
    BY <1>1 DEF DeleteRelay

LEMMA StoredIsKept ==
    ASSUME MInv, Next
    PROVE  StoredOK'
<1>1. StoredOK
    BY DEF MInv
<1>2. CASE (\E r \in Relay : Moved(r) \/ Yielded(r)) \/ MainMoved \/ MainDone \/ PublishNext
           \/ NextChunk \/ Forgets
    <2>1. phase' \notin {"inserting", "marking"}
        BY <1>2, NextChunkFacts, ForgetFacts
           DEF MInv, WorkersOK, Moved, Yielded, MainMoved, MainDone, PublishNext
    <2> QED
        BY <2>1 DEF StoredOK
<1>3. CASE ChunkChecked
    <2>1. ASSUME NEW r \in successful', NEW c \in task'[r].got \cap Store
          PROVE  <<r, c, task'[r].born>> \in records'
        BY <1>3, <2>1, CheckedFacts
    <2> QED
        BY <1>3, <2>1, CheckedFacts DEF StoredOK
<1>4. CASE InsertMetadata
    BY <1>1, <1>4, InsertFacts DEF StoredOK
<1>5. CASE MarkChecked
    <2>1. \/ phase' = "chunks"
          \/ /\ phase' = phase /\ phase = "marking" /\ marks' \subseteq marks
             /\ UNCHANGED <<successful, failed, records, metadata, deleted, task>>
        BY <1>5, MarkFacts
    <2> QED
        BY <1>1, <2>1 DEF StoredOK
<1>6. CASE Aside
    <2>1. UNCHANGED <<task, successful, failed, records, marks>>
          /\ (phase' = phase \/ phase' \notin {"inserting", "marking"})
        BY <1>6, AsideFacts
    <2>2. ASSUME phase' = phase, NEW r \in successful' \ deleted',
                 NEW c \in task'[r].got \cap Store
          PROVE  /\ phase' = "inserting" => <<r, c, task'[r].born>> \in records' \cup metadata'
                 /\ phase' = "marking" => <<r, c, task'[r].born>> \in metadata'
        <3> DEFINE m == <<r, c, task[r].born>>
        <3>1. m[1] = r /\ m[1] \notin deleted' /\ r \in successful \ deleted
            BY <1>6, <2>1, <2>2, AsideRows
        <3>2. /\ phase = "inserting" => m \in records \cup metadata
              /\ phase = "marking" => m \in metadata
            BY <1>1, <2>1, <2>2, <3>1 DEF StoredOK
        <3>3. m \in metadata => m \in metadata'
            BY <1>6, <3>1, AsideRows
        <3> QED
            BY <2>1, <2>2, <3>2, <3>3
    <2>3. phase' = "marking" => marks' \subseteq successful' \cup failed'
        BY <1>1, <2>1 DEF StoredOK
    <2> QED
        BY <2>1, <2>2, <2>3 DEF StoredOK
<1> QED
    BY <1>2, <1>3, <1>4, <1>5, <1>6, AllSteps

-----------------------------------------------------------------------------
(* The invariant is preserved: types *)

\* The steps of the workers, and of run() while it publishes.
Local ==
    \/ Publish \/ \E reached \in SUBSET Targets : Broadcast(reached)
    \/ \E r \in Relay : WorkerStep(r)
    \/ \E w \in DOMAIN task : ClientStep(w) \/ ClientRaises(w)
    \/ \E r \in Relay, c \in Compute : CheckRaises(r, c)

LEMMA LocalFacts ==
    ASSUME Local
    PROVE  /\ UNCHANGED <<relay, checkpoint, published, metadata, records, marks, stamp>>
           /\ UNCHANGED <<disk, now, chunk_size, shutdown, readers, plan, chunk>>
           /\ faults' = faults \/ Fault
<1> DEFINE Rows == UNCHANGED <<relay, checkpoint, published, metadata, records, marks, stamp>>
           Rest == UNCHANGED <<disk, now, chunk_size, shutdown, readers, plan, chunk>>
           Faults == faults' = faults \/ Fault
<1>1. Publish => Rows /\ Rest /\ Faults
    BY DEF Publish, tables, flush, chunked
<1>2. \A reached \in SUBSET Targets : Broadcast(reached) => Rows /\ Rest /\ Faults
    BY DEF Broadcast, tables, flush
<1>3. ASSUME NEW r \in Relay, WorkerStep(r)
      PROVE  Rows /\ Rest /\ Faults
    <2>1. StartCheck(r) => Rows /\ Rest /\ Faults
        BY DEF StartCheck, tables, flush, chunked
    <2>2. ASSUME NEW c \in Compute, NEW result \in BOOLEAN, NEW success \in BOOLEAN,
                 Attempt(r, c, result, success)
          PROVE  Rows /\ Rest /\ Faults
        BY <2>2 DEF Attempt, tables, flush, chunked
    <2>3. CheckDone(r) \/ DiscoveryDone(r) => Rows /\ Rest /\ Faults
        BY DEF CheckDone, DiscoveryDone, tables, flush
    <2> QED
        BY <1>3, <2>1, <2>2, <2>3 DEF WorkerStep
<1>4. ASSUME NEW w \in DOMAIN task, ClientStep(w) \/ ClientRaises(w)
      PROVE  Rows /\ Rest /\ Faults
    <2>1. ClientConnected(w) \/ ClientRefused(w) => Rows /\ Rest /\ Faults
        BY DEF ClientConnected, ClientRefused, tables, flush, chunked
    <2>2. ClientRaises(w) => Rows /\ Rest /\ Faults
        BY DEF ClientRaises, Raises, tables, flush
    <2> QED
        BY <1>4, <2>1, <2>2 DEF ClientStep
<1>5. ASSUME NEW r \in Relay, NEW c \in Compute, CheckRaises(r, c)
      PROVE  Rows /\ Rest /\ Faults
    BY <1>5 DEF CheckRaises, Raises, tables, flush, chunked
<1> QED
    BY <1>1, <1>2, <1>3, <1>4, <1>5 DEF Local

LEMMA LocalOrNot ==
    ASSUME Next
    PROVE  \/ Local \/ Cleanup \/ UpdateGeoDatabases \/ OpenReaders \/ SavePublished
           \/ FetchRelays \/ NextChunk \/ ChunkChecked \/ InsertMetadata \/ MarkChecked
           \/ Forgets \/ (\E suppressed \in BOOLEAN : DownloadFails(suppressed))
           \/ DatabaseFails \/ Shutdown \/ Tick \/ \E r \in Relay : DeleteRelay(r)
BY DEF Next, Step, MainStep, Failure, Local, Forgets

\* The clock, the switches and the files.
LEMMA ControlIsKept ==
    ASSUME MInv, Next
    PROVE  /\ now' \in 1..MaxNow /\ now <= now' /\ chunk_size' \in ChunkSizes
           /\ shutdown' \in BOOLEAN /\ faults' \in 0..MaxFaults
           /\ disk' \subseteq Databases /\ readers' \subseteq Databases
<1>1. /\ now \in 1..MaxNow /\ chunk_size \in ChunkSizes /\ shutdown \in BOOLEAN
      /\ faults \in 0..MaxFaults /\ disk \subseteq Databases /\ readers \subseteq Databases
    BY DEF MInv, TypeOK
<1>2. MaxNow \in Nat /\ MaxFaults \in Nat
    BY MonitorAssumption
<1>3. Cleanup \/ SavePublished \/ FetchRelays \/ NextChunk \/ ChunkChecked \/ InsertMetadata
      \/ MarkChecked => UNCHANGED <<disk, now, chunk_size, shutdown, readers, faults>>
    BY DEF Cleanup, SavePublished, FetchRelays, NextChunk, ChunkChecked, InsertMetadata, MarkChecked
<1>4. UpdateGeoDatabases =>
        UNCHANGED <<now, chunk_size, shutdown, readers, faults>> /\ disk' = disk \cup Databases
    BY DEF UpdateGeoDatabases
<1>5. \A suppressed \in BOOLEAN : DownloadFails(suppressed) =>
        /\ UNCHANGED <<now, chunk_size, shutdown, readers>> /\ Fault
        /\ disk' \subseteq disk \cup Databases
    BY DEF DownloadFails
<1>6. OpenReaders =>
        /\ UNCHANGED <<disk, now, chunk_size, shutdown, faults>>
        /\ readers' \subseteq readers \cup Databases
    BY DEF OpenReaders
<1>7. DatabaseFails => UNCHANGED <<disk, now, chunk_size, shutdown, readers>> /\ Fault
    BY DEF DatabaseFails
<1>8. \A r \in Relay :
        DeleteRelay(r) => UNCHANGED <<disk, now, chunk_size, shutdown, readers>> /\ Fault
    BY DEF DeleteRelay
<1>9. Shutdown => UNCHANGED <<disk, now, chunk_size, readers>> /\ Fault /\ shutdown' = TRUE
    BY DEF Shutdown
<1>10. Tick => /\ UNCHANGED <<disk, chunk_size, shutdown, readers, faults>>
               /\ now < MaxNow /\ now' = now + 1
    BY DEF Tick
<1>11. Forgets => shutdown' \in {shutdown, FALSE} /\ (faults' = faults \/ Fault)
    BY DEF Forgets, EndCycle, Crash, Restart, NewProcess
<1>12. now' = now \/ (now < MaxNow /\ now' = now + 1)
    BY <1>3, <1>4, <1>5, <1>6, <1>7, <1>8, <1>9, <1>10, LocalOrNot, LocalFacts, ForgetFacts
<1>13. chunk_size' = chunk_size
    BY <1>3, <1>4, <1>5, <1>6, <1>7, <1>8, <1>9, <1>10, LocalOrNot, LocalFacts, ForgetFacts
<1>14. shutdown' \in {shutdown, TRUE, FALSE}
    BY <1>3, <1>4, <1>5, <1>6, <1>7, <1>8, <1>9, <1>10, <1>11, LocalOrNot, LocalFacts
<1>15. faults' = faults \/ Fault
    BY <1>3, <1>4, <1>5, <1>6, <1>7, <1>8, <1>9, <1>10, <1>11, LocalOrNot, LocalFacts
<1>16. disk' \subseteq disk \cup Databases
    BY <1>3, <1>4, <1>5, <1>6, <1>7, <1>8, <1>9, <1>10, LocalOrNot, LocalFacts, ForgetFacts
       DEF tables
<1>17. readers' \subseteq readers \cup Databases
    BY <1>3, <1>4, <1>5, <1>6, <1>7, <1>8, <1>9, <1>10, LocalOrNot, LocalFacts, ForgetFacts
<1>18. now' \in 1..MaxNow /\ now <= now'
    BY <1>1, <1>2, <1>12
<1>19. faults' \in 0..MaxFaults
    BY <1>1, <1>2, <1>15 DEF Fault
<1> QED
    BY <1>1, <1>13, <1>14, <1>16, <1>17, <1>18, <1>19

\* The rows and what is on its way to them.
LEMMA RowsAreKept ==
    ASSUME MInv, Next
    PROVE  /\ relay' \subseteq Relay /\ checkpoint' \in [Relay -> 0..MaxNow]
           /\ published' \in [ToSet(Keys) -> 0..MaxNow]
           /\ metadata' \subseteq Relay \X Store \X (1..MaxNow)
           /\ records' \subseteq Relay \X Store \X (1..MaxNow)
           /\ marks' \subseteq Relay /\ stamp' \in 0..MaxNow
<1> DEFINE Row == Relay \X Store \X (1..MaxNow)
<1>1. /\ relay \subseteq Relay /\ checkpoint \in [Relay -> 0..MaxNow]
      /\ published \in [ToSet(Keys) -> 0..MaxNow] /\ metadata \subseteq Row
      /\ records \subseteq Row /\ marks \subseteq Relay /\ stamp \in 0..MaxNow
      /\ now \in 0..MaxNow /\ MaxNow \in Nat
    <2>1. TypeOK /\ now \in 1..MaxNow /\ MaxNow \in Nat
        BY Given DEF MInv
    <2>2. now \in 0..MaxNow
        BY <2>1
    <2> QED
        BY <2>1, <2>2 DEF TypeOK
<1> DEFINE Quiet == UNCHANGED <<relay, checkpoint, published, metadata, records, marks, stamp>>
<1>2. CASE UpdateGeoDatabases \/ OpenReaders \/ FetchRelays \/ NextChunk \/ DatabaseFails
           \/ Shutdown \/ Tick \/ \E suppressed \in BOOLEAN : DownloadFails(suppressed)
    <2>1. Quiet
        BY <1>2 DEF UpdateGeoDatabases, OpenReaders, FetchRelays, NextChunk, DatabaseFails,
           Shutdown, Tick, DownloadFails, tables, flush
    <2> QED
        BY <1>1, <2>1
<1>3. CASE Local
    BY <1>1, <1>3, LocalFacts
<1>4. CASE Cleanup
    <2>1. UNCHANGED <<relay, published, metadata, records, marks, stamp>>
        BY <1>4 DEF Cleanup, flush
    <2>2. checkpoint' \in [Relay -> 0..MaxNow]
        BY <1>1, <1>4 DEF Cleanup, Never
    <2> QED
        BY <1>1, <2>1, <2>2
<1>5. CASE SavePublished
    <2>1. UNCHANGED <<relay, checkpoint, metadata, records, marks, stamp>>
        BY <1>5 DEF SavePublished, flush
    <2>2. published' \in [ToSet(Keys) -> 0..MaxNow]
        BY <1>1, <1>5 DEF SavePublished
    <2> QED
        BY <1>1, <2>1, <2>2
<1>6. CASE ChunkChecked
    <2>1. UNCHANGED <<relay, checkpoint, published, metadata, marks, stamp>>
        BY <1>6 DEF ChunkChecked, tables
    <2>2. ASSUME NEW r \in successful, NEW c \in Store
          PROVE  <<r, c, task[r].born>> \in Row
        <3>1. r \in Relay /\ task[r].step = "yielded" /\ r \in Workers /\ task \in [Workers -> Task]
            BY <1>6, CheckedFacts, MainNotRelay DEF MInv, ResultsOK, TypeOK, ShapeOK
        <3>2. task[r].born \in 0..MaxNow /\ task[r].born > 0
            BY <3>1, TaskFields DEF MInv, WorkersOK
        <3>3. task[r].born \in 1..MaxNow
            BY <1>1, <3>2
        <3> QED
            BY <3>1, <3>3
    <2>3. records' \subseteq {<<r, c, task[r].born>> : r \in successful, c \in Store}
        BY <1>6, CheckedFacts
    <2>4. records' \subseteq Row
        BY <2>2, <2>3
    <2> QED
        BY <1>1, <2>1, <2>4
<1>7. CASE InsertMetadata
    <2>1. UNCHANGED <<checkpoint, published>>
        BY <1>7 DEF InsertMetadata
    <2>2. PICK batch \in SUBSET records : /\ metadata' = metadata \cup batch
                                          /\ relay' = relay \cup {b[1] : b \in batch}
                                          /\ records' = records \ batch
        BY <1>7 DEF InsertMetadata
    <2>3. \A b \in batch : b[1] \in Relay
        BY <1>1
    <2>4. marks' = marks \/ marks' = successful \cup failed
        BY <1>7, InsertFacts
    <2>5. stamp' = stamp \/ stamp' = now
        BY <1>7, InsertFacts
    <2>6. successful \cup failed \subseteq Relay
        BY DEF MInv, TypeOK
    <2>7. relay' \subseteq Relay /\ marks' \subseteq Relay /\ stamp' \in 0..MaxNow
        BY <1>1, <2>2, <2>3, <2>4, <2>5, <2>6
    <2> QED
        BY <1>1, <2>1, <2>2, <2>7
<1>8. CASE MarkChecked
    <2>1. UNCHANGED <<relay, published, metadata, records>> /\ marks' \subseteq marks
        BY <1>8, MarkFacts DEF MarkChecked
    <2>2. checkpoint' \in [Relay -> 0..MaxNow]
        BY <1>1, <1>8 DEF MarkChecked
    <2>3. stamp' \in 0..MaxNow
        BY <1>1, <1>8, MarkFacts
    <2> QED
        BY <1>1, <2>1, <2>2, <2>3
<1>9. CASE Forgets
    BY <1>1, <1>9, ForgetFacts DEF tables
<1>10. ASSUME NEW r \in Relay, DeleteRelay(r)
       PROVE  /\ relay' \subseteq relay /\ metadata' \subseteq metadata
              /\ UNCHANGED <<checkpoint, published, records, marks, stamp>>
    BY <1>10 DEF DeleteRelay, flush
<1> QED
    BY <1>1, <1>2, <1>3, <1>4, <1>5, <1>6, <1>7, <1>8, <1>9, <1>10, LocalOrNot

\* A page of relays that are due has as many as there are, none twice.
LEMMA DueIsFinite ==
    ASSUME relay \subseteq Relay
    PROVE  Cardinality(Due) \in Nat /\ Due \subseteq Relay
<1>1. IsFiniteSet(Relay)
    <2>1. \A r \in Relay : \E i \in 1..Len(Found) : Found[i] = r
        BY Given DEF Relay, ToSet
    <2> QED
        BY <2>1, Given DEF IsFiniteSet
<1>2. Due \subseteq Relay
    BY DEF Due
<1> QED
    BY <1>1, <1>2, FS_Subset, FS_CardinalityType

\* The relays that are fetched, taken chunk by chunk.
LEMMA PlanIsKept ==
    ASSUME MInv, Next
    PROVE  plan' \in Seq(Relay) /\ chunk' \subseteq Relay
<1>1. plan \in Seq(Relay) /\ chunk \subseteq Relay /\ relay \subseteq Relay
    BY DEF MInv, TypeOK
<1>2. CASE FetchRelays
    <2>1. PICK all \in [1..Cardinality(Due) -> Due] :
              plan' = SubSeq(all, 1, Min({MaxRelays, Len(all)}))
        BY <1>2 DEF FetchRelays
    <2>2. Cardinality(Due) \in Nat /\ Due \subseteq Relay /\ MaxRelays \in Nat
        BY <1>1, DueIsFinite, MonitorAssumption
    <2>3. all \in Seq(Relay) /\ Len(all) \in Nat /\ \A i \in 1..Len(all) : all[i] \in Relay
        BY <2>1, <2>2
    <2> DEFINE n == Min({MaxRelays, Len(all)})
    <2>4. n \in Nat /\ n <= Len(all)
        BY <2>2, <2>3, MinFacts
    <2>5. plan' \in Seq(Relay)
        <3>1. plan' = SubSeq(all, 1, n)
            BY <2>1
        <3> HIDE DEF n
        <3>2. \A i \in 1..n : all[i] \in Relay
            BY <2>3, <2>4
        <3>3. SubSeq(all, 1, n) \in Seq(Relay)
            BY <2>4, <3>2, SubSeqProperties
        <3> QED
            BY <3>1, <3>3
    <2>6. chunk' = chunk
        BY <1>2 DEF FetchRelays
    <2> QED
        BY <1>1, <2>5, <2>6
<1>3. CASE NextChunk
    BY <1>1, <1>3, NextChunkFacts
<1>4. CASE Forgets
    <2>1. <<>> \in Seq(Relay)
        BY EmptySeq
    <2> QED
        BY <1>4, <2>1, ForgetFacts
<1>5. CASE MarkChecked
    <2>1. plan' = plan /\ chunk' \in {chunk, {}}
        BY <1>5 DEF MarkChecked
    <2> QED
        BY <1>1, <2>1
<1>6. CASE Local
    BY <1>1, <1>6, LocalFacts
<1>7. CASE Cleanup \/ UpdateGeoDatabases \/ OpenReaders \/ SavePublished \/ ChunkChecked
           \/ InsertMetadata \/ (\E suppressed \in BOOLEAN : DownloadFails(suppressed))
           \/ DatabaseFails \/ Shutdown \/ Tick \/ \E r \in Relay : DeleteRelay(r)
    <2>1. UNCHANGED <<plan, chunk>>
        BY <1>7 DEF Cleanup, UpdateGeoDatabases, OpenReaders, SavePublished, ChunkChecked,
           InsertMetadata, DownloadFails, DatabaseFails, Shutdown, Tick, DeleteRelay, chunked
    <2> QED
        BY <1>1, <2>1
<1> QED
    BY <1>2, <1>3, <1>4, <1>5, <1>6, <1>7, LocalOrNot

\* Where run() and the results are.
LEMMA PhaseIsKept ==
    ASSUME MInv, Next
    PROVE  /\ phase' \in Phases /\ key' \in 0..(Len(Keys) + 1)
           /\ successful' \cup failed' \subseteq Relay
<1>1. /\ phase \in Phases /\ key \in 0..(Len(Keys) + 1) /\ Len(Keys) \in Nat
      /\ successful \cup failed \subseteq Relay
    BY Given DEF MInv, TypeOK
<1>2. phase = "saving" => key \in 1..Len(Keys)
    BY DEF MInv, MainOK
<1>3. CASE (\E r \in Relay : Moved(r) \/ Yielded(r)) \/ MainMoved \/ MainDone \/ PublishNext
    BY <1>1, <1>3 DEF Moved, Yielded, MainMoved, MainDone, PublishNext, Phases
<1>4. CASE NextChunk \/ ChunkChecked \/ InsertMetadata \/ MarkChecked
    BY <1>1, <1>4, NextChunkFacts, CheckedFacts, InsertFacts, MarkFacts DEF Phases
<1>5. CASE Forgets
    BY <1>1, <1>5, ForgetFacts DEF Phases
<1>6. CASE Aside
    <2>1. UNCHANGED <<successful, failed>>
        BY <1>6, AsideFacts
    <2>2. phase' \in Phases
        BY <1>1, <1>6 DEF Phases, Aside, Cleanup, UpdateGeoDatabases, OpenReaders, SavePublished,
           FetchRelays, DownloadFails, DatabaseFails, Shutdown, Tick, DeleteRelay
    <2>3. key' \in {key, 1} \/ (phase = "saving" /\ key' = key + 1)
        BY <1>6 DEF Aside, Cleanup, UpdateGeoDatabases, OpenReaders, SavePublished,
           FetchRelays, DownloadFails, DatabaseFails, Shutdown, Tick, DeleteRelay
    <2> QED
        BY <1>1, <1>2, <2>1, <2>2, <2>3
<1> QED
    BY <1>3, <1>4, <1>5, <1>6, AllSteps

-----------------------------------------------------------------------------
(* The theorems *)

LEMMA InitInv == Init => MInv
<1> SUFFICES ASSUME Init PROVE MInv
    OBVIOUS
<1>1. /\ relay = Relay /\ metadata = {} /\ now = 1 /\ disk \in {{}, Databases}
      /\ checkpoint = [r \in Relay |-> 0] /\ published = [k \in ToSet(Keys) |-> 0]
      /\ chunk_size \in ChunkSizes /\ phase = "idle" /\ shutdown = FALSE /\ key = 0
      /\ plan = <<>> /\ chunk = {} /\ successful = {} /\ failed = {}
      /\ records = {} /\ marks = {} /\ stamp = 0 /\ readers = {} /\ faults = 0
      /\ task = NoTasks /\ cache = NoClients /\ displaced = [t \in Targets |-> 0]
    BY DEF Init, Never
<1>2. MaxNow \in Nat \ {0} /\ MaxFaults \in Nat /\ Len(Keys) \in Nat /\ plan \in Seq(Relay)
    BY <1>1, Given, MonitorAssumption, EmptySeq
<1>3. /\ task \in [Workers -> Task]
      /\ \A w \in Workers : task[w].step = "none" /\ task[w].got = {}
    BY <1>1, NoTasksFacts
<1>4. cache \in Cache /\ cache.clients = {} /\ cache.failed = {}
    BY <1>1 DEF NoClients, Cache
<1>5. /\ DOMAIN task = Workers
      /\ \A w \in Workers : task[w].step \in Steps /\ task[w].held \in SUBSET Targets
    BY <1>3, TaskFields
<1>6. checkpoint \in [Relay -> 0..MaxNow] /\ published \in [ToSet(Keys) -> 0..MaxNow]
    BY <1>1, <1>2
<1>7. /\ now \in 1..MaxNow /\ stamp \in 0..MaxNow /\ faults \in 0..MaxFaults
      /\ key \in 0..(Len(Keys) + 1)
    BY <1>1, <1>2
<1>8. TypeOK
    BY <1>1, <1>2, <1>4, <1>5, <1>6, <1>7 DEF TypeOK, Phases
<1>9. ShapeOK /\ ClientsOK
    BY <1>1, <1>3, <1>4 DEF ShapeOK, ClientsOK, NoClients
<1>10. MainOK /\ WorkersOK /\ NextOK /\ ResultsOK /\ StoredOK
    BY <1>1, <1>3, MainNotRelay DEF MainOK, WorkersOK, NextOK, ResultsOK, StoredOK, Active
<1> QED
    BY <1>1, <1>7, <1>8, <1>9, <1>10 DEF MInv

LEMMA TypeIsKept ==
    ASSUME MInv, Next
    PROVE  TypeOK'
<1>1. /\ DOMAIN task' = Workers
      /\ \A w \in Workers : task'[w].step \in Steps /\ task'[w].held \subseteq Targets
    BY TasksKeepShape DEF Task
<1>2. cache'.clients \cup cache'.failed \subseteq Targets
    BY ClientsAreKept DEF Cache
<1> QED
    BY <1>1, <1>2, ControlIsKept, RowsAreKept, PlanIsKept, PhaseIsKept DEF TypeOK

LEMMA NextInv == MInv /\ [Next]_vars => MInv'
<1> SUFFICES ASSUME MInv, [Next]_vars PROVE MInv'
    OBVIOUS
<1>1. CASE Next
    <2>1. ShapeOK'
        BY <1>1, TasksKeepShape, ClientsAreKept DEF ShapeOK
    <2> QED
        BY <1>1, <2>1, TypeIsKept, ControlIsKept, MainIsKept, WorkersAreKept, NextIsKept,
           ResultsAreKept, ClientsAreKept, StoredIsKept DEF MInv
<1>2. CASE UNCHANGED vars
    <2>1. /\ UNCHANGED <<relay, checkpoint, published, metadata>>
          /\ UNCHANGED <<disk, now, chunk_size, phase, shutdown, key, task, cache, readers, faults>>
          /\ UNCHANGED <<plan, chunk, successful, failed>>
          /\ UNCHANGED <<records, marks, stamp>>
          /\ UNCHANGED <<checked, displaced, deleted>>
        BY <1>2, Zenon DEF vars, tables, chunked, flush, ghosts
    <2>2. MainOK' /\ WorkersOK' /\ NextOK' /\ ResultsOK'
        BY <2>1 DEF MInv, MainOK, WorkersOK, NextOK, ResultsOK
    <2>3. ClientsOK' /\ StoredOK' /\ ShapeOK'
        BY <2>1 DEF MInv, ClientsOK, StoredOK, ShapeOK
    <2>4. TypeOK'
        BY <2>1 DEF MInv, TypeOK
    <2>5. now' \in 1..MaxNow /\ chunk_size' \in ChunkSizes
        BY <2>1 DEF MInv
    <2> QED
        BY <2>2, <2>3, <2>4, <2>5 DEF MInv
<1> QED
    BY <1>1, <1>2

\* The invariant holds throughout every behaviour of the Monitor.
THEOREM Invariance == Spec => []MInv
BY InitInv, NextInv, PTL DEF Spec

\* Every variable keeps its type: in particular plan is a sequence of relays
\* and no position of run() in Keys is out of range.
THEOREM TypeCorrect == Spec => []TypeOK
<1>1. MInv => TypeOK
    BY DEF MInv
<1> QED
    BY <1>1, Invariance, PTL

\* Whatever its checks and its clients meet, each relay of a chunk has one
\* result, successful or failed, when the results are used.
THEOREM EachRelayHasAResult == Spec => []ChunkAccounted
<1>1. MInv => ChunkAccounted
    BY DEF MInv, WorkersOK, ResultsOK, ChunkAccounted, Ended
<1> QED
    BY <1>1, Invariance, PTL

\* However a cycle ends, no connection is left open but those that a second
\* connection to the same relay displaced from the pool.
THEOREM NoConnectionIsLeft == Spec => []ClientsTornDown
<1>1. ASSUME MInv PROVE ClientsTornDown
    <2>1. SUFFICES ASSUME phase = "idle" PROVE cache.open = displaced
        BY DEF ClientsTornDown
    <2>2. cache.open \in [Targets -> Nat] /\ displaced \in [Targets -> Nat]
        BY <1>1 DEF MInv, ShapeOK, Cache
    <2>3. \A t \in Targets : cache.open[t] = displaced[t]
        BY <1>1, <2>1, <2>2 DEF MInv, ClientsOK
    <2> QED
        BY <2>2, <2>3
<1> QED
    BY <1>1, Invariance, PTL

\* A relay is marked as monitored only when everything that its check
\* produced and the configuration stores is in the database, whichever
\* batches failed and wherever the process died, unless an exception ended
\* the worker: then what the check had produced is dropped.
THEOREM ChecksAreStored == Spec => MetadataBeforeCheckpoint
<1>1. ASSUME MInv, NEW r \in (marks \ marks') \ deleted, phase = "marking",
             task[r].step # "raised",
             NEW c \in task[r].got \cap Store
      PROVE  <<r, c, task[r].born>> \in metadata
    <2>1. r \in successful \cup failed
        BY <1>1 DEF MInv, StoredOK
    <2>2. r \notin failed
        BY <1>1 DEF MInv, ResultsOK, WorkersOK, TypeOK
    <2> QED
        BY <1>1, <2>1, <2>2 DEF MInv, StoredOK
<1>2. MInv => \A r \in (marks \ marks') \ deleted :
                 /\ phase = "marking" /\ phase' \in {"marking", "chunks"}
                 /\ task[r].step # "raised"
                 => \A c \in task[r].got \cap Store : <<r, c, task[r].born>> \in metadata
    BY <1>1
<1> QED
    BY <1>2, Invariance, PTL DEF MetadataBeforeCheckpoint
=============================================================================
