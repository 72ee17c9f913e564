------------------------- MODULE SynchronizerProofs -------------------------
(***************************************************************************)
(* Cursor safety of the Synchronizer for any relays, histories, batch and  *)
(* chunk sizes and any number of crashes, errors and shutdowns; then what  *)
(* the order of delivery adds: cursors only advance, and a cycle that ends *)
(* by itself leaves nothing it received unsaved.                           *)
(***************************************************************************)
EXTENDS Synchronizer, SequenceTheorems, TLAPS

Pairs == Relay \X Events

\* What a flush in progress has stored or still holds.
Kept == stored \cup SetOf(buffer)

\* Cursors are written only after the whole buffer was.
FlushOK == Upserting => buffer = <<>>

\* A pending cursor covers only events that are stored or in the buffer.
PendingSafe == \A r \in Relay : \A x \in Below(r, pending[r]) : <<r, x>> \in Kept

\* Below a worker's start everything is stored.
FromSafe == \A r \in Relay : \A x \in History[r] : x[1] < from[r] => <<r, x>> \in stored

\* Up to a worker's last event everything is stored or on its way.
LastSafe ==
    \A r \in Relay : \A x \in Below(r, last[r]) : <<r, x>> \in Kept \cup SetOf(queue)

\* Up to a queued event everything is stored, in the buffer or queued before it.
QueueSafe ==
    \A i \in 1..Len(queue) : \A x \in Below(queue[i][1], queue[i][2]) :
        \/ <<queue[i][1], x>> \in Kept
        \/ \E j \in 1..i : queue[j] = <<queue[i][1], x>>

\* The inductive invariant.
SInv ==
    /\ TypeOK /\ FlushOK /\ CursorSafe
    /\ PendingSafe /\ FromSafe /\ LastSafe /\ QueueSafe

-----------------------------------------------------------------------------
(* Events and positions *)

\* Events are pairs of naturals, and the ids are positive.
LEMMA HistoryFields ==
    ASSUME NEW r \in Relay, NEW x \in History[r]
    PROVE  x \in Events /\ x \in Nat \X (Nat \ {0})
BY SyncAssumption DEF Events

\* Every event is a pair of naturals with a positive id.
LEMMA EventFields == \A x \in Events : x \in Nat \X (Nat \ {0})
BY SyncAssumption DEF Events

\* Nothing lies at or below the default cursor.
LEMMA BelowNoCursor ==
    ASSUME NEW r \in Relay
    PROVE  Below(r, NoCursor) = {}
<1> SUFFICES ASSUME NEW x \in History[r], UpTo(x, NoCursor) PROVE FALSE
    BY DEF Below
<1>1. x[1] \in Nat /\ x[2] \in Nat \ {0}
    BY HistoryFields
<1>2. ~Precedes(x, NoCursor)
    BY <1>1 DEF Precedes, NoCursor
<1>3. x = NoCursor
    BY <1>2 DEF UpTo
<1>4. x[2] = 0
    BY <1>3 DEF NoCursor
<1> QED
    BY <1>1, <1>4

\* Elements of a sequence after its head is moved or its end extended.
LEMMA TailMembers ==
    ASSUME NEW S, NEW s \in Seq(S), s # <<>>
    PROVE  /\ Tail(s) \in Seq(S) /\ Head(s) \in S /\ Head(s) = s[1]
           /\ Len(Tail(s)) = Len(s) - 1
           /\ \A i \in 1..Len(Tail(s)) : Tail(s)[i] = s[i + 1]
           /\ SetOf(s) = {Head(s)} \cup SetOf(Tail(s))
<1> DEFINE t == Tail(s)
<1>1. /\ t \in Seq(S) /\ Head(s) \in S /\ Head(s) = s[1]
      /\ Len(t) = Len(s) - 1
      /\ \A i \in 1..Len(t) : t[i] = s[i + 1]
    BY HeadTailProperties
<1>2. Len(s) \in Nat \ {0} /\ DOMAIN s = 1..Len(s) /\ DOMAIN t = 1..Len(t)
    BY <1>1, EmptySeq
<1> HIDE DEF t
<1>3. SetOf(s) \subseteq {Head(s)} \cup SetOf(t)
    <2> SUFFICES ASSUME NEW i \in 1..Len(s), i # 1 PROVE s[i] \in SetOf(t)
        BY <1>1, <1>2 DEF SetOf
    <2>1. i - 1 \in 1..Len(t) /\ t[i - 1] = s[i]
        BY <1>1, <1>2
    <2> QED
        BY <2>1, <1>2 DEF SetOf
<1>4. SetOf(t) \subseteq SetOf(s) /\ Head(s) \in SetOf(s)
    <2>1. \A i \in 1..Len(t) : i + 1 \in 1..Len(s) /\ t[i] = s[i + 1]
        BY <1>1, <1>2
    <2>2. 1 \in 1..Len(s)
        BY <1>2
    <2> QED
        BY <2>1, <2>2, <1>1, <1>2 DEF SetOf
<1> QED
    BY <1>1, <1>3, <1>4 DEF t

\* Appending adds exactly the new element.
LEMMA AppendMembers ==
    ASSUME NEW S, NEW s \in Seq(S), NEW e \in S
    PROVE  /\ Append(s, e) \in Seq(S)
           /\ Len(Append(s, e)) = Len(s) + 1
           /\ \A i \in 1..Len(s) : Append(s, e)[i] = s[i]
           /\ Append(s, e)[Len(s) + 1] = e
           /\ SetOf(Append(s, e)) = SetOf(s) \cup {e}
<1> DEFINE t == Append(s, e)
<1>1. /\ t \in Seq(S) /\ Len(t) = Len(s) + 1
      /\ \A i \in 1..Len(s) : t[i] = s[i]
      /\ t[Len(s) + 1] = e
    BY AppendProperties
<1>2. Len(s) \in Nat /\ DOMAIN s = 1..Len(s) /\ DOMAIN t = 1..Len(t)
    BY <1>1
<1> HIDE DEF t
<1>3. \A i : i \in 1..Len(t) <=> i \in 1..Len(s) \/ i = Len(s) + 1
    BY <1>1, <1>2
<1>4. SetOf(t) = SetOf(s) \cup {e}
    BY <1>1, <1>2, <1>3 DEF SetOf
<1> QED
    BY <1>1, <1>4 DEF t

\* Cutting off the first k elements loses none but those.
LEMMA CutMembers ==
    ASSUME NEW S, NEW s \in Seq(S), NEW k \in 1..Len(s)
    PROVE  /\ SubSeq(s, k + 1, Len(s)) \in Seq(S)
           /\ SetOf(s) \subseteq {s[i] : i \in 1..k} \cup SetOf(SubSeq(s, k + 1, Len(s)))
           /\ {s[i] : i \in 1..k} \subseteq S
<1> DEFINE t == SubSeq(s, k + 1, Len(s))
<1>1. /\ t \in Seq(S) /\ Len(t) = Len(s) - k
      /\ \A i \in 1..(Len(s) - k) : t[i] = s[k + i]
    BY SubSeqProperties
<1>2. Len(s) \in Nat /\ DOMAIN s = 1..Len(s) /\ DOMAIN t = 1..Len(t)
    BY <1>1
<1> HIDE DEF t
<1>3. ASSUME NEW i \in 1..Len(s), i \notin 1..k PROVE s[i] \in SetOf(t)
    <2>1. i - k \in 1..(Len(s) - k) /\ t[i - k] = s[i]
        BY <1>1, <1>2, <1>3
    <2> QED
        BY <2>1, <1>1, <1>2 DEF SetOf
<1>4. \A i \in 1..k : s[i] \in S
    BY <1>2
<1> QED
    BY <1>1, <1>2, <1>3, <1>4 DEF t, SetOf

-----------------------------------------------------------------------------
(* Steps that leave the tables and the events in memory alone *)

\* The initial state satisfies the invariant.
LEMMA InitSInv == ASSUME Init PROVE SInv
<1>1. TypeOK
    BY SyncAssumption DEF Init, TypeOK, Phases, Events, NoCursor
<1>2. FlushOK
    BY DEF Init, FlushOK, Upserting
<1>3. CursorSafe /\ PendingSafe /\ LastSafe
    BY BelowNoCursor DEF Init, CursorSafe, PendingSafe, LastSafe
<1>4. FromSafe
    <2> SUFFICES ASSUME NEW r \in Relay, NEW x \in History[r] PROVE ~(x[1] < 0)
        BY DEF Init, FromSafe
    <2> QED
        BY HistoryFields
<1>5. QueueSafe
    BY DEF Init, QueueSafe
<1> QED
    BY <1>1, <1>2, <1>3, <1>4, <1>5 DEF SInv

\* What holds of the events in memory holds as long as they do not move.
LEMMA MemorySame ==
    ASSUME SInv, UNCHANGED <<stored, last, queue, buffer, pending>>
    PROVE  PendingSafe' /\ LastSafe' /\ QueueSafe'
<1>1. Kept' = Kept /\ queue' = queue
    BY DEF Kept
<1>2. QueueSafe'
    BY <1>1 DEF SInv, QueueSafe
<1>3. PendingSafe' /\ LastSafe'
    BY <1>1 DEF SInv, PendingSafe, LastSafe
<1> QED
    BY <1>2, <1>3

\* Only the phase, the clock, the flags or the relay table change.
LEMMA QuietStep ==
    ASSUME SInv, TypeOK', FlushOK',
           UNCHANGED <<stored, cursor, from, last, queue, buffer, pending>>
    PROVE  SInv'
<1>1. PendingSafe' /\ LastSafe' /\ QueueSafe'
    BY MemorySame
<1>2. CursorSafe' /\ FromSafe'
    BY DEF SInv, CursorSafe, FromSafe
<1> QED
    BY <1>1, <1>2 DEF SInv

\* The cycle's local state is thrown away: the tables alone are consistent.
LEMMA NoCycleStep ==
    ASSUME SInv, TypeOK', NoCycle, UNCHANGED <<stored, cursor>>
    PROVE  SInv'
<1>1. FlushOK' /\ QueueSafe'
    BY DEF NoCycle, FlushOK, QueueSafe
<1>2. CursorSafe'
    BY DEF SInv, CursorSafe
<1>3. PendingSafe' /\ LastSafe'
    BY BelowNoCursor DEF NoCycle, PendingSafe, LastSafe
<1>4. FromSafe'
    <2> SUFFICES ASSUME NEW r \in Relay, NEW x \in History[r] PROVE ~(x[1] < 0)
        BY DEF NoCycle, FromSafe
    <2> QED
        BY HistoryFields
<1> QED
    BY <1>1, <1>2, <1>3, <1>4 DEF SInv

\* The local state outside a cycle is well typed.
LEMMA NoCycleType ==
    ASSUME TypeOK, NoCycle, UNCHANGED <<dbVars, end_time>>,
           phase' \in Phases, running' \in BOOLEAN, faults' \in Nat
    PROVE  TypeOK'
BY DEF TypeOK, NoCycle, dbVars

-----------------------------------------------------------------------------
(* Steps that move events or cursors *)

\* A stale cursor is removed: its relay starts over.
LEMMA CleanupStep == ASSUME SInv, Cleanup PROVE SInv'
<1>1. TypeOK'
    BY DEF SInv, Cleanup, TypeOK, Phases, workerVars
<1>2. FlushOK'
    BY DEF Cleanup, FlushOK, Upserting
<1>3. CursorSafe'
    BY BelowNoCursor DEF SInv, Cleanup, CursorSafe, TypeOK
<1>4. PendingSafe' /\ FromSafe' /\ LastSafe' /\ QueueSafe'
    BY MemorySame DEF SInv, Cleanup, FromSafe, workerVars
<1> QED
    BY <1>1, <1>2, <1>3, <1>4 DEF SInv

\* A worker starts at the second of its cursor.
LEMMA FetchCursorsStep == ASSUME SInv, FetchCursors PROVE SInv'
<1>1. \A r \in Relay : cursor[r][1] \in Nat
    BY EventFields DEF SInv, TypeOK, NoCursor
<1>2. TypeOK'
    BY <1>1 DEF SInv, FetchCursors, TypeOK, Phases, dbVars
<1>3. FlushOK'
    BY DEF FetchCursors, FlushOK, Upserting
<1>4. FromSafe'
    <2> SUFFICES ASSUME NEW r \in Relay, NEW x \in History[r], x[1] < cursor[r][1]
                 PROVE  <<r, x>> \in stored
        BY DEF FetchCursors, FromSafe, dbVars
    <2>1. x \in Below(r, cursor[r])
        BY DEF Below, UpTo, Precedes
    <2> QED
        BY <2>1 DEF SInv, CursorSafe
<1>5. CursorSafe' /\ PendingSafe' /\ LastSafe' /\ QueueSafe'
    BY MemorySame DEF SInv, FetchCursors, CursorSafe, dbVars
<1> QED
    BY <1>2, <1>3, <1>4, <1>5 DEF SInv

\* A worker yields the least event that is due: everything below it was
\* yielded before or lies below the worker's start.
LEMMA WorkerYieldStep == ASSUME SInv, NEW r \in Relay, WorkerYield(r) PROVE SInv'
<1>1. PICK e \in Due(r) :
          /\ \A x \in Due(r) : UpTo(e, x)
          /\ queue' = Append(queue, <<r, e>>)
          /\ last' = [last EXCEPT ![r] = e]
    BY DEF WorkerYield
<1>2. e \in History[r] /\ e \in Events /\ e[1] \in Nat /\ e[2] \in Nat /\ e[1] <= until[r]
    BY HistoryFields DEF Due
<1>3. <<r, e>> \in Pairs /\ queue \in Seq(Pairs)
    BY <1>2 DEF SInv, TypeOK, Pairs
<1>4. /\ queue' \in Seq(Pairs)
      /\ Len(queue') = Len(queue) + 1
      /\ \A i \in 1..Len(queue) : queue'[i] = queue[i]
      /\ queue'[Len(queue) + 1] = <<r, e>>
      /\ SetOf(queue') = SetOf(queue) \cup {<<r, e>>}
    <2> DEFINE p == <<r, e>>
    <2>1. p \in Pairs /\ queue \in Seq(Pairs) /\ queue' = Append(queue, p)
        BY <1>1, <1>3
    <2> HIDE DEF p
    <2>2. /\ Append(queue, p) \in Seq(Pairs)
          /\ Len(Append(queue, p)) = Len(queue) + 1
          /\ \A i \in 1..Len(queue) : Append(queue, p)[i] = queue[i]
          /\ Append(queue, p)[Len(queue) + 1] = p
          /\ SetOf(Append(queue, p)) = SetOf(queue) \cup {p}
        BY <2>1, AppendMembers
    <2>3. /\ queue' \in Seq(Pairs)
          /\ Len(queue') = Len(queue) + 1
          /\ \A i \in 1..Len(queue) : queue'[i] = queue[i]
          /\ queue'[Len(queue) + 1] = p
          /\ SetOf(queue') = SetOf(queue) \cup {p}
        BY <2>1, <2>2, Zenon
    <2> QED
        BY <2>3 DEF p
<1>5. last' \in [Relay -> Events \cup {NoCursor}]
    BY <1>1, <1>2 DEF SInv, TypeOK
<1>6. TypeOK'
    BY <1>4, <1>5 DEF SInv, TypeOK, WorkerYield, dbVars, Pairs
<1>7. FlushOK' /\ CursorSafe' /\ PendingSafe' /\ FromSafe'
    BY DEF SInv, WorkerYield, FlushOK, Upserting, CursorSafe, PendingSafe, FromSafe,
           Kept, dbVars
<1>8. UNCHANGED <<stored, buffer>> /\ Kept' = Kept
    BY DEF WorkerYield, dbVars, Kept
<1>9. ASSUME NEW x \in Below(r, e), x # e
      PROVE  <<r, x>> \in Kept \cup SetOf(queue)
    <2>1. x \in History[r] /\ x[1] \in Nat /\ x[2] \in Nat /\ Precedes(x, e)
        BY <1>9, HistoryFields DEF Below, UpTo
    <2>2. last[r][1] \in Nat /\ last[r][2] \in Nat
        BY EventFields DEF SInv, TypeOK, NoCursor
    <2>3. x \in Nat \X Nat /\ last[r] \in Nat \X Nat
        BY <2>1, HistoryFields, EventFields DEF SInv, TypeOK, NoCursor
    <2>4. CASE x[1] < from[r]
        BY <2>1, <2>4 DEF SInv, FromSafe, Kept
    <2>5. CASE UpTo(x, last[r])
        BY <2>1, <2>5 DEF SInv, LastSafe, Below
    <2>6. CASE ~(x[1] < from[r]) /\ ~UpTo(x, last[r])
        <3>1. x[1] # last[r][1] \/ x[2] # last[r][2]
            BY <2>3, <2>6 DEF UpTo
        <3>2. Precedes(last[r], x)
            BY <2>1, <2>2, <2>6, <3>1 DEF UpTo, Precedes
        <3>3. from[r] <= x[1] /\ x[1] <= until[r]
            BY <1>2, <2>1, <2>6 DEF Precedes, SInv, TypeOK
        <3>4. UpTo(e, x)
            BY <1>1, <2>1, <3>2, <3>3 DEF Due
        <3>5. Precedes(e, x)
            BY <1>9, <3>4 DEF UpTo
        <3> QED
            BY <1>2, <2>1, <3>5 DEF Precedes
    <2> QED
        BY <2>4, <2>5, <2>6
<1>10. LastSafe'
    <2> SUFFICES ASSUME NEW q \in Relay, NEW x \in Below(q, last'[q])
                 PROVE  <<q, x>> \in Kept \cup SetOf(queue')
        BY <1>8 DEF LastSafe
    <2>1. CASE q = r
        <3>1. last'[q] = e
            BY <1>1, <2>1 DEF SInv, TypeOK
        <3> QED
            BY <1>4, <1>9, <2>1, <3>1
    <2>2. CASE q # r
        <3>1. last'[q] = last[q]
            BY <1>1, <2>2 DEF SInv, TypeOK
        <3> QED
            BY <1>4, <3>1 DEF SInv, LastSafe
    <2> QED
        BY <2>1, <2>2
<1>11. QueueSafe'
    <2> SUFFICES ASSUME NEW i \in 1..Len(queue'),
                        NEW x \in Below(queue'[i][1], queue'[i][2])
                 PROVE  \/ <<queue'[i][1], x>> \in Kept
                        \/ \E j \in 1..i : queue'[j] = <<queue'[i][1], x>>
        BY <1>8 DEF QueueSafe
    <2>0. Len(queue) \in Nat /\ DOMAIN queue = 1..Len(queue)
        BY <1>3
    <2>1. CASE i \in 1..Len(queue)
        <3>1. queue'[i] = queue[i] /\ \A j \in 1..i : queue'[j] = queue[j]
            BY <1>4, <2>0, <2>1
        <3> QED
            BY <2>1, <3>1 DEF SInv, QueueSafe
    <2>2. CASE i = Len(queue) + 1
        <3>1. queue'[i] = <<r, e>> /\ queue'[i][1] = r /\ queue'[i][2] = e
            BY <1>4, <2>2
        <3>2. CASE x = e
            BY <2>0, <2>2, <3>1, <3>2
        <3>3. CASE <<r, x>> \in Kept
            BY <3>1, <3>3
        <3>4. CASE <<r, x>> \in SetOf(queue)
            <4>1. PICK j \in 1..Len(queue) : queue[j] = <<r, x>>
                BY <3>4, <2>0 DEF SetOf
            <4>2. j \in 1..i /\ queue'[j] = <<r, x>>
                BY <4>1, <1>4, <2>0, <2>2
            <4> QED
                BY <4>2, <3>1
        <3> QED
            BY <1>9, <3>1, <3>2, <3>3, <3>4
    <2> QED
        BY <1>4, <2>0, <2>1, <2>2
<1> QED
    BY <1>6, <1>7, <1>10, <1>11 DEF SInv

\* The consumer moves the oldest queued pair into the buffer: the pending
\* cursor it sets covers only what is stored or in the buffer.
LEMMA ConsumeStep == ASSUME SInv, Consume PROVE SInv'
<1> DEFINE h == Head(queue)
<1>1. queue \in Seq(Pairs) /\ buffer \in Seq(Pairs) /\ queue # <<>>
    BY DEF SInv, TypeOK, Consume, Pairs
<1>2. queue' = Tail(queue) /\ buffer' = Append(buffer, h) /\ UNCHANGED stored
    BY DEF Consume, dbVars
<1>3. pending' = [pending EXCEPT ![h[1]] = h[2]]
    BY DEF Consume
<1>4. /\ Tail(queue) \in Seq(Pairs) /\ h \in Pairs /\ h = queue[1]
      /\ Len(Tail(queue)) = Len(queue) - 1
      /\ \A i \in 1..Len(Tail(queue)) : Tail(queue)[i] = queue[i + 1]
      /\ SetOf(queue) = {h} \cup SetOf(Tail(queue))
    BY <1>1, TailMembers
<1> HIDE DEF h
<1>5. Append(buffer, h) \in Seq(Pairs) /\ SetOf(Append(buffer, h)) = SetOf(buffer) \cup {h}
    BY <1>1, <1>4, AppendMembers
<1>6. h[1] \in Relay /\ h[2] \in Events /\ h = <<h[1], h[2]>>
    BY <1>4 DEF Pairs
<1>7. Kept' = Kept \cup {h}
    BY <1>2, <1>5 DEF Kept
<1>8. pending' \in [Relay -> Events \cup {NoCursor}]
    BY <1>3, <1>6 DEF SInv, TypeOK
<1>9. TypeOK'
    BY <1>2, <1>4, <1>5, <1>8 DEF SInv, TypeOK, Consume, Phases, dbVars, workerVars, Pairs
<1>10. FlushOK'
    BY DEF Consume, FlushOK, Upserting
<1>11. CursorSafe' /\ FromSafe'
    BY DEF SInv, Consume, CursorSafe, FromSafe, dbVars, workerVars
<1>12. Len(queue) \in Nat \ {0}
    BY <1>1, EmptySeq
<1>13. PendingSafe'
    <2> SUFFICES ASSUME NEW q \in Relay, NEW x \in Below(q, pending'[q])
                 PROVE  <<q, x>> \in Kept \cup {h}
        BY <1>7 DEF PendingSafe
    <2>1. CASE q = h[1]
        <3>1. pending'[q] = h[2]
            BY <1>3, <2>1 DEF SInv, TypeOK
        <3>2. 1 \in 1..Len(queue)
            BY <1>12
        <3>3. <<q, x>> \in Kept \/ \E j \in 1..1 : queue[j] = <<q, x>>
            BY <1>4, <2>1, <3>1, <3>2 DEF SInv, QueueSafe
        <3> QED
            BY <1>4, <3>3
    <2>2. CASE q # h[1]
        <3>1. pending'[q] = pending[q]
            BY <1>3, <2>2 DEF SInv, TypeOK
        <3> QED
            BY <3>1 DEF SInv, PendingSafe
    <2> QED
        BY <2>1, <2>2
<1>14. LastSafe'
    <2>1. Kept' \cup SetOf(queue') = Kept \cup SetOf(queue)
        BY <1>2, <1>4, <1>7
    <2>2. last' = last
        BY DEF Consume, workerVars
    <2> QED
        BY <2>1, <2>2 DEF SInv, LastSafe
<1>15. QueueSafe'
    <2> SUFFICES ASSUME NEW i \in 1..Len(queue'),
                        NEW x \in Below(queue'[i][1], queue'[i][2])
                 PROVE  \/ <<queue'[i][1], x>> \in Kept \cup {h}
                        \/ \E j \in 1..i : queue'[j] = <<queue'[i][1], x>>
        BY <1>7 DEF QueueSafe
    <2>1. i + 1 \in 1..Len(queue) /\ queue'[i] = queue[i + 1]
        BY <1>2, <1>4, <1>12
    <2>2. \/ <<queue[i + 1][1], x>> \in Kept
          \/ \E j \in 1..(i + 1) : queue[j] = <<queue[i + 1][1], x>>
        BY <2>1 DEF SInv, QueueSafe
    <2>3. ASSUME NEW j \in 1..(i + 1), queue[j] = <<queue[i + 1][1], x>>, j # 1
          PROVE  \E k \in 1..i : queue'[k] = <<queue'[i][1], x>>
        <3>1. j - 1 \in 1..i /\ j - 1 \in 1..Len(queue') /\ (j - 1) + 1 = j
            BY <1>2, <1>4, <1>12, <2>3
        <3>2. queue'[j - 1] = queue[j]
            BY <1>2, <1>4, <3>1
        <3> QED
            BY <2>1, <2>3, <3>1, <3>2
    <2> QED
        BY <1>4, <2>1, <2>2, <2>3
<1> QED
    BY <1>9, <1>10, <1>11, <1>13, <1>14, <1>15 DEF SInv

\* A chunk moves from the buffer into the tables.
LEMMA InsertChunkStep == ASSUME SInv, InsertChunk PROVE SInv'
<1> DEFINE k == IF Len(buffer) < ChunkSize THEN Len(buffer) ELSE ChunkSize
           chunk == {buffer[i] : i \in 1..k}
           rest == SubSeq(buffer, k + 1, Len(buffer))
<1>1. stored' = stored \cup chunk /\ relays' = relays \cup {p[1] : p \in chunk} /\ buffer' = rest
    BY DEF InsertChunk
<1>2. buffer \in Seq(Pairs) /\ buffer # <<>>
    BY DEF SInv, TypeOK, InsertChunk, Pairs
<1>3. k \in 1..Len(buffer)
    BY <1>2, EmptySeq, SyncAssumption
<1> HIDE DEF k
<1>4. rest \in Seq(Pairs) /\ SetOf(buffer) \subseteq chunk \cup SetOf(rest) /\ chunk \subseteq Pairs
    BY <1>2, <1>3, CutMembers
<1> HIDE DEF chunk, rest
<1>5. TypeOK'
    <2>1. {p[1] : p \in chunk} \subseteq Relay
        BY <1>4 DEF Pairs
    <2> QED
        BY <1>1, <1>4, <2>1 DEF SInv, TypeOK, InsertChunk, workerVars, Pairs
<1>6. FlushOK'
    BY DEF InsertChunk, Inserting, FlushOK, Upserting
<1>7. stored \subseteq stored' /\ Kept \subseteq Kept'
    BY <1>1, <1>4 DEF Kept
<1>8. UNCHANGED <<cursor, from, last, queue, pending>>
    BY DEF InsertChunk, workerVars
<1>9. CursorSafe' /\ FromSafe'
    BY <1>7, <1>8 DEF SInv, CursorSafe, FromSafe
<1>10. PendingSafe' /\ LastSafe'
    BY <1>7, <1>8 DEF SInv, PendingSafe, LastSafe
<1>11. QueueSafe'
    <2> SUFFICES ASSUME NEW i \in 1..Len(queue), NEW x \in Below(queue[i][1], queue[i][2])
                 PROVE  \/ <<queue[i][1], x>> \in Kept'
                        \/ \E j \in 1..i : queue[j] = <<queue[i][1], x>>
        BY <1>8 DEF QueueSafe
    <2> QED
        BY <1>7 DEF SInv, QueueSafe
<1> QED
    BY <1>5, <1>6, <1>9, <1>10, <1>11 DEF SInv

\* Cursors are upserted when the buffer is in the tables.
LEMMA UpsertChunkStep == ASSUME SInv, UpsertChunk PROVE SInv'
<1>1. PICK K \in SUBSET PendingRelays :
          /\ cursor' = [r \in Relay |-> IF r \in K THEN pending[r] ELSE cursor[r]]
          /\ pending' = [r \in Relay |-> IF r \in K THEN NoCursor ELSE pending[r]]
    BY DEF UpsertChunk
<1>2. UNCHANGED <<relays, stored, end_time, running, phase, worker, from, until, last,
                  queue, buffer, faults>>
    BY DEF UpsertChunk, workerVars
<1>3. TypeOK'
    <2>1. /\ cursor' \in [Relay -> Events \cup {NoCursor}]
          /\ pending' \in [Relay -> Events \cup {NoCursor}]
        BY <1>1 DEF SInv, TypeOK
    <2> QED
        BY <1>2, <2>1 DEF SInv, TypeOK
<1>4. FlushOK'
    BY <1>2 DEF SInv, FlushOK, Upserting
<1>5. buffer = <<>> /\ Kept = stored /\ Kept' = Kept
    <2>1. buffer = <<>>
        BY DEF UpsertChunk, SInv, FlushOK
    <2>2. SetOf(<<>>) = {}
        BY DEF SetOf
    <2> QED
        BY <1>2, <2>1, <2>2 DEF Kept
<1>6. CursorSafe'
    BY <1>1, <1>2, <1>5 DEF SInv, CursorSafe, PendingSafe
<1>7. PendingSafe'
    BY <1>1, <1>5, BelowNoCursor DEF SInv, PendingSafe
<1>8. FromSafe' /\ LastSafe'
    BY <1>2, <1>5 DEF SInv, FromSafe, LastSafe
<1>9. QueueSafe'
    BY <1>2, <1>5 DEF SInv, QueueSafe
<1> QED
    BY <1>3, <1>4, <1>6, <1>7, <1>8, <1>9 DEF SInv

-----------------------------------------------------------------------------
(* Every step, and the theorems *)

\* Worker steps that yield nothing.
LEMMA WorkerQuiet ==
    ASSUME SInv, NEW r \in Relay,
           \/ WorkerConnect(r) \/ WorkerSkip(r) \/ WorkerError(r) \/ WorkerDone(r)
           \/ RelayPromoted(r)
    PROVE  SInv'
<1>1. UNCHANGED <<stored, cursor, from, last, queue, buffer, pending, phase, running, end_time>>
    BY DEF WorkerConnect, WorkerSkip, WorkerError, WorkerDone, RelayPromoted, dbVars, workerVars
<1>2. FlushOK'
    BY <1>1 DEF SInv, FlushOK, Upserting
<1>3. worker' \in [Relay -> {"none", "waiting", "streaming", "finished"}]
    BY DEF SInv, TypeOK, WorkerConnect, WorkerSkip, WorkerError, WorkerDone, RelayPromoted,
           workerVars
<1>4. until' \in [Relay -> Nat]
    BY DEF SInv, TypeOK, WorkerConnect, WorkerSkip, WorkerError, WorkerDone, RelayPromoted,
           workerVars
<1>5. relays' \subseteq Relay /\ faults' \in Nat
    BY DEF SInv, TypeOK, WorkerConnect, WorkerSkip, WorkerError, WorkerDone, RelayPromoted,
           Fault, dbVars
<1>6. TypeOK'
    BY <1>1, <1>3, <1>4, <1>5 DEF SInv, TypeOK
<1> QED
    BY <1>1, <1>2, <1>6, QuietStep

\* Steps of the consumer that only change the phase, and the clock.
LEMMA ConsumerQuiet ==
    ASSUME SInv,
           \/ StreamEnds \/ InsertDone \/ FlushDone \/ Stop \/ Restart \/ Tick \/ Shutdown
    PROVE  SInv'
<1>1. UNCHANGED <<relays, stored, cursor, worker, from, until, last, queue, buffer, pending>>
    BY DEF StreamEnds, InsertDone, FlushDone, Stop, Restart, Tick, Shutdown, dbVars, workerVars
<1>2. FlushOK'
    BY DEF SInv, FlushOK, Upserting, StreamEnds, InsertDone, FlushDone, Stop, Restart, Tick,
           Shutdown, Inserting
<1>3. /\ phase' \in Phases
      /\ end_time' \in Nat
      /\ faults' \in Nat
    <2>1. end_time \in Nat /\ faults \in Nat /\ phase \in Phases
        BY DEF SInv, TypeOK
    <2>2. CASE StreamEnds
        BY <2>1, <2>2 DEF StreamEnds, Phases
    <2>3. CASE InsertDone
        BY <2>1, <2>3 DEF InsertDone, Phases
    <2>4. CASE FlushDone
        BY <2>1, <2>4 DEF FlushDone, Phases
    <2>5. CASE Stop
        BY <2>1, <2>5 DEF Stop, Phases
    <2>6. CASE Restart
        BY <2>1, <2>6 DEF Restart, Phases
    <2>7. CASE Tick
        BY <2>1, <2>7 DEF Tick
    <2>8. CASE Shutdown
        BY <2>1, <2>8 DEF Shutdown, Fault
    <2> QED
        BY <2>2, <2>3, <2>4, <2>5, <2>6, <2>7, <2>8
<1>4. running' \in BOOLEAN
    <2>1. running' = running \/ running' = TRUE \/ running' = FALSE
        BY Zenon DEF StreamEnds, InsertDone, FlushDone, Stop, Restart, Tick, Shutdown
    <2> QED
        BY <2>1, Zenon DEF SInv, TypeOK
<1>5. TypeOK'
    BY <1>1, <1>3, <1>4 DEF SInv, TypeOK
<1> QED
    BY <1>1, <1>2, <1>5, QuietStep

\* The ways a cycle ends.
LEMMA CycleEnds ==
    ASSUME SInv, Deadline \/ CycleDone \/ DbError \/ Crash
    PROVE  SInv'
<1>1. NoCycle /\ UNCHANGED <<dbVars, end_time>>
    BY DEF Deadline, CycleDone, DbError, Crash
<1>2. phase' \in Phases /\ faults' \in Nat
    BY DEF SInv, TypeOK, Phases, Deadline, CycleDone, DbError, Crash, Fault
<1>3. running' \in BOOLEAN
    <2>1. running' = running \/ running' = TRUE
        BY Zenon DEF Deadline, CycleDone, DbError, Crash
    <2> QED
        BY <2>1, Zenon DEF SInv, TypeOK
<1>4. TypeOK'
    BY <1>1, <1>2, <1>3, NoCycleType DEF SInv
<1> QED
    BY <1>1, <1>4, NoCycleStep DEF dbVars

\* Every step preserves the invariant.
LEMMA NextSInv == ASSUME SInv, [Next]_vars PROVE SInv'
<1>1. CASE ConsumerStep
    BY <1>1, CleanupStep, FetchCursorsStep, ConsumeStep, InsertChunkStep, UpsertChunkStep,
       ConsumerQuiet, CycleEnds DEF ConsumerStep
<1>2. ASSUME NEW r \in Relay, WorkerStep(r) \/ WorkerError(r) \/ RelayPromoted(r)
      PROVE  SInv'
    BY <1>2, WorkerQuiet, WorkerYieldStep DEF WorkerStep
<1>3. CASE Tick \/ Shutdown
    BY <1>3, ConsumerQuiet
<1>4. CASE Deadline \/ DbError \/ Crash
    BY <1>4, CycleEnds
<1>5. CASE UNCHANGED vars
    <2>1. TypeOK' /\ FlushOK'
        BY <1>5 DEF SInv, TypeOK, FlushOK, Upserting, vars
    <2> QED
        BY <1>5, <2>1, QuietStep DEF vars
<1> QED
    BY <1>1, <1>2, <1>3, <1>4, <1>5 DEF Next

\* The invariant holds of every behaviour of synchronize, its workers and
\* its failures.
THEOREM Invariance == Spec => []SInv
<1>1. Init => SInv
    BY InitSInv
<1>2. SInv /\ [Next]_vars => SInv'
    BY NextSInv
<1> QED
    BY <1>1, <1>2, PTL DEF Spec

\* The tables, the workers and the consumer of the Synchronizer stay well
\* typed for any relays, histories and batch sizes.
THEOREM TypeCorrect == Spec => []TypeOK
<1>1. SInv => TypeOK
    BY DEF SInv
<1> QED
    BY <1>1, Invariance, PTL

\* Cursor safety: however many relays are synchronized at once, however
\* batches and chunks fall, and wherever the cycle is cut by a crash, a
\* database error, the deadline or a shutdown, everything a relay holds up to
\* its stored cursor is stored.
THEOREM CursorCorrect == Spec => []CursorSafe
<1>1. SInv => CursorSafe
    BY DEF SInv
<1> QED
    BY <1>1, Invariance, PTL

-----------------------------------------------------------------------------
(* The order of a relay's positions: its cursor, its pending cursor, what  *)
(* is queued and the last event its worker yielded                         *)

\* Relays that anything is known of are in the table.
KnownOK ==
    /\ \A r \in Relay :
          Active(r) \/ pending[r] # NoCursor \/ cursor[r] # NoCursor => r \in relays
    /\ \A i \in 1..Len(queue) : queue[i][1] \in relays

\* The events of a relay are queued in their order, up to the last one.
OrderOK ==
    \A i \in 1..Len(queue) :
        /\ UpTo(queue[i][2], last[queue[i][1]])
        /\ \A j \in 1..Len(queue) :
              i < j /\ queue[j][1] = queue[i][1] => Precedes(queue[i][2], queue[j][2])

\* Seconds never go back on the way from the relay to the stored cursor.
TimeOK ==
    /\ \A r \in Relay : pending[r] # NoCursor => cursor[r][1] <= pending[r][1]
    /\ \A r \in Relay : pending[r][1] <= last[r][1]
    /\ \A r \in Relay : Active(r) => cursor[r][1] <= from[r] \/ cursor[r][1] <= last[r][1]
    /\ \A i \in 1..Len(queue) :
          /\ cursor[queue[i][1]][1] <= queue[i][2][1]
          /\ pending[queue[i][1]][1] <= queue[i][2][1]

Queued(r) == \E i \in 1..Len(queue) : queue[i][1] = r

\* The last event that a worker yielded is in the queue as long as any of
\* its events is, then it is the pending cursor, and then the stored one.
LastKept ==
    \A r \in Relay :
        /\ Queued(r) => <<r, last[r]>> \in SetOf(queue)
        /\ last[r] # NoCursor /\ ~Queued(r) =>
              \/ pending[r] = last[r]
              \/ pending[r] = NoCursor /\ cursor[r] = last[r]

\* The last flush comes when the workers are done and the queue is drained.
FinalOK ==
    phase \in {"final_insert", "final_upsert"} => queue = <<>> /\ \A r \in Relay : ~Active(r)

OInv == SInv /\ KnownOK /\ OrderOK /\ TimeOK /\ LastKept /\ FinalOK

Parts == KnownOK /\ OrderOK /\ TimeOK /\ LastKept

\* Seconds and ids are naturals.
LEMMA OrderTypes ==
    ASSUME TypeOK
    PROVE  /\ \A r \in Relay : /\ cursor[r] \in Nat \X Nat /\ pending[r] \in Nat \X Nat
                               /\ last[r] \in Nat \X Nat /\ from[r] \in Nat
           /\ queue \in Seq(Pairs) /\ Len(queue) \in Nat
           /\ \A i \in 1..Len(queue) :
                 /\ queue[i][1] \in Relay /\ queue[i][2] \in Events
                 /\ queue[i] = <<queue[i][1], queue[i][2]>> /\ queue[i][2] \in Nat \X Nat
<1>1. /\ cursor \in [Relay -> Events \cup {NoCursor}]
      /\ pending \in [Relay -> Events \cup {NoCursor}]
      /\ last \in [Relay -> Events \cup {NoCursor}] /\ from \in [Relay -> Nat]
      /\ queue \in Seq(Pairs)
    BY DEF TypeOK, Pairs
<1>2. \A x \in Events \cup {NoCursor} : x \in Nat \X Nat
    BY EventFields DEF NoCursor
<1>3. Len(queue) \in Nat /\ \A i \in 1..Len(queue) : queue[i] \in Pairs
    BY <1>1
<1> QED
    BY <1>1, <1>2, <1>3 DEF Pairs

\* The positions stay: no worker starts, no relay is removed.
LEMMA OrderSame ==
    ASSUME OInv, UNCHANGED <<cursor, from, last, queue, pending>>, relays \subseteq relays',
           \A r \in Relay : Active(r)' => Active(r)
    PROVE  Parts'
<1>1. KnownOK'
    BY DEF OInv, KnownOK
<1>2. OrderOK'
    BY DEF OInv, OrderOK
<1>3. TimeOK'
    BY DEF OInv, TimeOK
<1>4. LastKept'
    BY DEF OInv, LastKept, Queued, SetOf
<1> QED
    BY <1>1, <1>2, <1>3, <1>4 DEF Parts

\* Without a cycle there are only the stored cursors.
LEMMA OrderNoCycle ==
    ASSUME OInv, NoCycle, UNCHANGED <<relays, cursor>>
    PROVE  Parts'
<1>1. /\ queue' = <<>> /\ \A r \in Relay : /\ worker'[r] = "none" /\ pending'[r] = NoCursor
                                          /\ last'[r] = NoCursor
    BY DEF NoCycle
<1>2. Len(queue') = 0 /\ \A i \in 1..Len(queue') : FALSE
    BY <1>1
<1>3. KnownOK' /\ OrderOK'
    BY <1>1, <1>2 DEF OInv, KnownOK, OrderOK, Active
<1>4. TimeOK'
    BY <1>1, <1>2 DEF OInv, TimeOK, Active, NoCursor
<1>5. LastKept'
    BY <1>1, <1>2 DEF LastKept, Queued
<1> QED
    BY <1>3, <1>4, <1>5 DEF Parts

\* A worker starts at the cursor of a relay that is there.
LEMMA OrderFetch ==
    ASSUME OInv, FetchCursors
    PROVE  Parts'
<1>1. /\ UNCHANGED <<relays, cursor, last, queue, pending>>
      /\ \A r \in Relay : from'[r] = cursor[r][1] /\ (worker'[r] = "waiting" => r \in relays)
      /\ \A r \in Relay : worker'[r] \in {"waiting", "none"}
    BY DEF FetchCursors, dbVars
<1>2. \A r \in Relay : cursor[r][1] \in Nat
    BY OrderTypes DEF OInv, SInv
<1>3. KnownOK'
    BY <1>1 DEF OInv, KnownOK, Active
<1>4. OrderOK' /\ LastKept'
    BY <1>1 DEF OInv, OrderOK, LastKept, Queued, SetOf
<1>5. TimeOK'
    BY <1>1, <1>2 DEF OInv, TimeOK
<1> QED
    BY <1>3, <1>4, <1>5 DEF Parts

\* Stale cursors belong to relays that are gone, and those have none.
LEMMA OrderCleanup ==
    ASSUME OInv, Cleanup
    PROVE  cursor' = cursor /\ Parts'
<1>1. /\ cursor' = [r \in Relay |-> IF r \in relays THEN cursor[r] ELSE NoCursor]
      /\ UNCHANGED <<relays, worker, from, last, queue, pending>>
    BY DEF Cleanup, workerVars
<1>2. \A r \in Relay : cursor'[r] = cursor[r]
    BY <1>1 DEF OInv, KnownOK
<1>3. cursor' = cursor
    BY <1>1, <1>2 DEF OInv, SInv, TypeOK
<1> QED
    BY <1>1, <1>3, OrderSame DEF Active

\* The order of events is transitive and strict.
LEMMA OrderFacts ==
    ASSUME NEW x \in Nat \X Nat, NEW y \in Nat \X Nat
    PROVE  /\ UpTo(x, y) => x[1] <= y[1]
           /\ Precedes(x, y) => x[1] <= y[1] /\ x # y
           /\ ~(Precedes(x, y) /\ UpTo(y, x))
           /\ \A z \in Nat \X Nat : UpTo(x, y) /\ Precedes(y, z) => Precedes(x, z)
BY DEF UpTo, Precedes

\* A worker's next event follows its last one, and everything queued.
LEMMA OrderYield ==
    ASSUME OInv, NEW r \in Relay, WorkerYield(r)
    PROVE  Parts'
<1>1. PICK e \in Due(r) : queue' = Append(queue, <<r, e>>) /\ last' = [last EXCEPT ![r] = e]
    BY DEF WorkerYield
<1>2. UNCHANGED <<relays, cursor, worker, from, pending>> /\ Active(r)
    BY DEF WorkerYield, dbVars, Active
<1>3. e \in Events /\ e \in Nat \X Nat /\ from[r] <= e[1] /\ Precedes(last[r], e)
    BY HistoryFields, EventFields DEF Due
<1>4. /\ TypeOK /\ Len(queue) \in Nat /\ queue \in Seq(Pairs) /\ <<r, e>> \in Pairs
      /\ \A q \in Relay : /\ cursor[q] \in Nat \X Nat /\ pending[q] \in Nat \X Nat
                          /\ last[q] \in Nat \X Nat /\ from[q] \in Nat
      /\ \A i \in 1..Len(queue) : queue[i][1] \in Relay /\ queue[i][2] \in Nat \X Nat
    BY <1>3, OrderTypes DEF OInv, SInv, Pairs
<1>5. /\ Len(queue') = Len(queue) + 1
      /\ \A i \in 1..Len(queue) : queue'[i] = queue[i]
      /\ queue'[Len(queue) + 1] = <<r, e>>
      /\ SetOf(queue') = SetOf(queue) \cup {<<r, e>>}
    <2> DEFINE p == <<r, e>>
    <2>1. p \in Pairs /\ queue' = Append(queue, p)
        BY <1>1, <1>4
    <2> HIDE DEF p
    <2>2. /\ Len(Append(queue, p)) = Len(queue) + 1
          /\ \A i \in 1..Len(queue) : Append(queue, p)[i] = queue[i]
          /\ Append(queue, p)[Len(queue) + 1] = p
          /\ SetOf(Append(queue, p)) = SetOf(queue) \cup {p}
        BY <1>4, <2>1, AppendMembers
    <2> QED
        BY <2>1, <2>2, Zenon DEF p
<1>6. /\ last'[r] = e /\ \A q \in Relay \ {r} : last'[q] = last[q]
      /\ last[r][1] <= e[1]
    BY <1>1, <1>3, <1>4, OrderFacts DEF TypeOK
<1>7. \A i \in 1..Len(queue') : i \in 1..Len(queue) \/ i = Len(queue) + 1
    BY <1>4, <1>5
<1>8. KnownOK'
    <2>1. r \in relays
        BY <1>2 DEF OInv, KnownOK
    <2> QED
        BY <1>2, <1>5, <1>7, <2>1 DEF OInv, KnownOK, Active
<1>9. OrderOK'
    <2>1. ASSUME NEW i \in 1..Len(queue), queue[i][1] = r
          PROVE  Precedes(queue[i][2], e)
        BY <1>3, <1>4, <2>1, OrderFacts DEF OInv, OrderOK
    <2>2. \A i \in 1..Len(queue) : UpTo(queue[i][2], last'[queue[i][1]])
        BY <1>4, <1>6, <2>1 DEF OInv, OrderOK, UpTo
    <2>3. UpTo(e, last'[r])
        BY <1>6 DEF UpTo
    <2>4. ASSUME NEW i \in 1..Len(queue'), NEW j \in 1..Len(queue'), i < j,
                 queue'[j][1] = queue'[i][1]
          PROVE  Precedes(queue'[i][2], queue'[j][2])
        <3>1. i \in 1..Len(queue)
            BY <1>4, <1>5, <2>4
        <3>2. CASE j \in 1..Len(queue)
            BY <1>5, <2>4, <3>1, <3>2 DEF OInv, OrderOK
        <3>3. CASE j = Len(queue) + 1
            BY <1>5, <2>1, <2>4, <3>1, <3>3
        <3> QED
            BY <1>7, <3>2, <3>3
    <2>5. \A i \in 1..Len(queue') : UpTo(queue'[i][2], last'[queue'[i][1]])
        BY <1>5, <1>7, <2>2, <2>3
    <2> QED
        BY <2>4, <2>5 DEF OrderOK
<1>10. TimeOK'
    <2>1. cursor[r][1] <= e[1] /\ pending[r][1] <= e[1]
        <3>1. /\ cursor[r][1] \in Nat /\ pending[r][1] \in Nat /\ last[r][1] \in Nat
              /\ from[r] \in Nat /\ e[1] \in Nat
            BY <1>3, <1>4
        <3>2. /\ cursor[r][1] <= from[r] \/ cursor[r][1] <= last[r][1]
              /\ pending[r][1] <= last[r][1]
            BY <1>2 DEF OInv, TimeOK
        <3> QED
            BY <1>3, <1>6, <3>1, <3>2
    <2>2. \A q \in Relay : pending[q][1] <= last'[q][1]
        BY <1>6, <2>1 DEF OInv, TimeOK
    <2>3. \A q \in Relay : Active(q) => cursor[q][1] <= from[q] \/ cursor[q][1] <= last'[q][1]
        BY <1>6, <2>1 DEF OInv, TimeOK
    <2>4. ASSUME NEW i \in 1..Len(queue')
          PROVE  /\ cursor[queue'[i][1]][1] <= queue'[i][2][1]
                 /\ pending[queue'[i][1]][1] <= queue'[i][2][1]
        <3>1. CASE i \in 1..Len(queue)
            BY <1>5, <3>1 DEF OInv, TimeOK
        <3>2. CASE i = Len(queue) + 1
            BY <1>5, <2>1, <3>2
        <3> QED
            BY <1>7, <3>1, <3>2
    <2>5. \A q \in Relay : pending[q] # NoCursor => cursor[q][1] <= pending[q][1]
        BY DEF OInv, TimeOK
    <2> QED
        BY <1>2, <2>2, <2>3, <2>4, <2>5 DEF TimeOK, Active
<1>11. LastKept'
    <2>1. \A q \in Relay \ {r} : Queued(q)' => Queued(q)
        BY <1>5, <1>7 DEF Queued
    <2>2. \A q \in Relay : Queued(q) => Queued(q)'
        BY <1>4, <1>5 DEF Queued
    <2>3. Queued(r)'
        BY <1>4, <1>5 DEF Queued
    <2> QED
        BY <1>2, <1>5, <1>6, <2>1, <2>2, <2>3 DEF OInv, LastKept
<1> QED
    BY <1>8, <1>9, <1>10, <1>11 DEF Parts

\* The oldest event of the queue becomes its relay's pending cursor.
LEMMA OrderConsume ==
    ASSUME OInv, Consume
    PROVE  Parts'
<1> DEFINE h == Head(queue)
           r == h[1]
           e == h[2]
<1>1. /\ TypeOK /\ Len(queue) \in Nat \ {0} /\ queue \in Seq(Pairs) /\ queue # <<>>
      /\ \A q \in Relay : /\ cursor[q] \in Nat \X Nat /\ pending[q] \in Nat \X Nat
                          /\ last[q] \in Nat \X Nat
      /\ \A i \in 1..Len(queue) :
            /\ queue[i][1] \in Relay /\ queue[i] = <<queue[i][1], queue[i][2]>>
            /\ queue[i][2] \in Nat \X Nat
    BY OrderTypes, EmptySeq DEF OInv, SInv, Consume
<1>2. /\ Len(Tail(queue)) = Len(queue) - 1 /\ h = queue[1]
      /\ \A i \in 1..Len(Tail(queue)) : Tail(queue)[i] = queue[i + 1]
      /\ SetOf(queue) = {h} \cup SetOf(Tail(queue))
    BY <1>1, TailMembers
<1>3. /\ queue' = Tail(queue) /\ pending' = [pending EXCEPT ![r] = e]
      /\ UNCHANGED <<relays, cursor, worker, from, last>>
    BY DEF Consume, dbVars, workerVars
<1> HIDE DEF h
<1>4. /\ 1 \in 1..Len(queue) /\ r \in Relay /\ e \in Nat \X Nat /\ h = <<r, e>>
      /\ r \in relays
    BY <1>1, <1>2 DEF OInv, KnownOK
<1>5. pending'[r] = e /\ \A q \in Relay \ {r} : pending'[q] = pending[q]
    BY <1>1, <1>3, <1>4 DEF TypeOK
<1>6. \A i \in 1..Len(queue') : i + 1 \in 1..Len(queue) /\ 1 < i + 1 /\ queue'[i] = queue[i + 1]
    BY <1>1, <1>2, <1>3
<1>7. \A i \in 2..Len(queue) : i - 1 \in 1..Len(queue') /\ queue'[i - 1] = queue[i]
    <2>1. \A i \in 2..Len(queue) : i - 1 \in 1..Len(queue') /\ (i - 1) + 1 = i
        BY <1>1, <1>2, <1>3
    <2> QED
        BY <1>6, <2>1
<1>8. UpTo(e, last[r]) /\ cursor[r][1] <= e[1]
    BY <1>2, <1>4 DEF OInv, OrderOK, TimeOK
<1>9. ASSUME NEW i \in 1..Len(queue'), queue'[i][1] = r
      PROVE  Precedes(e, queue'[i][2]) /\ UpTo(queue'[i][2], last[r]) /\ queue'[i][2] \in Nat \X Nat
    BY <1>1, <1>2, <1>4, <1>6, <1>9 DEF OInv, OrderOK
<1>10. KnownOK'
    <2>1. \A i \in 1..Len(queue') : queue'[i][1] \in relays
        BY <1>6 DEF OInv, KnownOK
    <2>2. \A q \in Relay : pending'[q] # NoCursor => q \in relays
        BY <1>4, <1>5 DEF OInv, KnownOK
    <2> QED
        BY <1>3, <2>1, <2>2 DEF OInv, KnownOK, Active
<1>11. OrderOK'
    <2>1. \A i \in 1..Len(queue') : UpTo(queue'[i][2], last[queue'[i][1]])
        BY <1>6 DEF OInv, OrderOK
    <2>2. ASSUME NEW i \in 1..Len(queue'), NEW j \in 1..Len(queue'), i < j,
                 queue'[j][1] = queue'[i][1]
          PROVE  Precedes(queue'[i][2], queue'[j][2])
        <3>1. /\ i + 1 \in 1..Len(queue) /\ queue'[i] = queue[i + 1]
              /\ j + 1 \in 1..Len(queue) /\ queue'[j] = queue[j + 1] /\ i + 1 < j + 1
            BY <1>1, <1>6, <2>2
        <3> HIDE DEF r, e
        <3> QED
            BY <2>2, <3>1 DEF OInv, OrderOK
    <2> QED
        BY <1>3, <2>1, <2>2 DEF OrderOK
<1>12. TimeOK'
    <2>1. \A q \in Relay : pending'[q] # NoCursor => cursor[q][1] <= pending'[q][1]
        BY <1>5, <1>8 DEF OInv, TimeOK
    <2>2. \A q \in Relay : pending'[q][1] <= last[q][1]
        BY <1>1, <1>4, <1>5, <1>8, OrderFacts DEF OInv, TimeOK
    <2>3. ASSUME NEW i \in 1..Len(queue')
          PROVE  /\ cursor[queue'[i][1]][1] <= queue'[i][2][1]
                 /\ pending'[queue'[i][1]][1] <= queue'[i][2][1]
        <3>1. i + 1 \in 1..Len(queue) /\ queue'[i] = queue[i + 1] /\ queue'[i][1] \in Relay
            BY <1>1, <1>6
        <3>2. /\ cursor[queue'[i][1]][1] <= queue'[i][2][1]
              /\ pending[queue'[i][1]][1] <= queue'[i][2][1]
            BY <3>1 DEF OInv, TimeOK
        <3>3. CASE queue'[i][1] = r
            BY <1>4, <1>5, <1>9, <3>2, <3>3, OrderFacts
        <3>4. CASE queue'[i][1] # r
            BY <1>5, <3>1, <3>2, <3>4
        <3> QED
            BY <3>3, <3>4
    <2>4. \A q \in Relay : Active(q) => cursor[q][1] <= from[q] \/ cursor[q][1] <= last[q][1]
        BY DEF OInv, TimeOK
    <2> QED
        BY <1>3, <2>1, <2>2, <2>3, <2>4 DEF TimeOK, Active
<1>13. LastKept'
    <2>1. ASSUME NEW q \in Relay, Queued(q)'
          PROVE  <<q, last[q]>> \in SetOf(queue')
        <3>1. PICK i \in 1..Len(queue') : queue'[i][1] = q
            BY <2>1 DEF Queued
        <3>2. Queued(q)
            BY <1>6, <3>1 DEF Queued
        <3>3. <<q, last[q]>> \in SetOf(queue)
            BY <3>2 DEF OInv, LastKept
        <3>4. <<q, last[q]>> # h
            <4>1. SUFFICES ASSUME q = r, last[r] = e PROVE FALSE
                BY <1>4
            <4>2. Precedes(e, queue'[i][2]) /\ UpTo(queue'[i][2], e) /\ queue'[i][2] \in Nat \X Nat
                BY <1>9, <3>1, <4>1
            <4> QED
                BY <1>4, <4>2, OrderFacts
        <3> QED
            BY <1>2, <1>3, <3>3, <3>4
    <2>2. ASSUME NEW q \in Relay, ~Queued(q)', last[q] # NoCursor
          PROVE  pending'[q] = last[q] \/ (pending'[q] = NoCursor /\ cursor[q] = last[q])
        <3>1. CASE q = r
            <4>1. <<r, last[r]>> \in SetOf(queue)
                BY <1>2, <1>4 DEF OInv, LastKept, Queued
            <4>2. <<r, last[r]>> \notin SetOf(queue')
                <5>1. SUFFICES ASSUME <<r, last[r]>> \in SetOf(queue') PROVE FALSE
                    OBVIOUS
                <5>2. PICK i \in DOMAIN queue' : queue'[i] = <<r, last[r]>>
                    BY <5>1 DEF SetOf
                <5>3. i \in 1..Len(queue')
                    BY <1>1, <1>3, <5>2
                <5> QED
                    BY <2>2, <3>1, <5>2, <5>3 DEF Queued
            <4>3. <<r, last[r]>> = h
                BY <1>2, <1>3, <4>1, <4>2
            <4> QED
                BY <1>4, <1>5, <3>1, <4>3
        <3>2. CASE q # r
            <4>1. ~Queued(q)
                <5>1. ASSUME NEW i \in 1..Len(queue), queue[i][1] = q PROVE FALSE
                    <6>1. i \in 2..Len(queue)
                        BY <1>1, <1>2, <3>2, <5>1
                    <6> QED
                        BY <1>7, <2>2, <5>1, <6>1 DEF Queued
                <5> QED
                    BY <5>1 DEF Queued
            <4> QED
                BY <1>5, <2>2, <3>2, <4>1 DEF OInv, LastKept
        <3> QED
            BY <3>1, <3>2
    <2> QED
        BY <1>3, <2>1, <2>2 DEF LastKept
<1> QED
    BY <1>10, <1>11, <1>12, <1>13 DEF Parts

\* The pending cursors of a chunk become the stored ones, never earlier.
LEMMA OrderUpsert ==
    ASSUME OInv, UpsertChunk
    PROVE  Parts' /\ \A r \in Relay : cursor[r][1] <= cursor'[r][1]
<1>1. PICK K \in SUBSET PendingRelays :
          /\ cursor' = [r \in Relay |-> IF r \in K THEN pending[r] ELSE cursor[r]]
          /\ pending' = [r \in Relay |-> IF r \in K THEN NoCursor ELSE pending[r]]
    BY DEF UpsertChunk
<1>2. UNCHANGED <<relays, worker, from, last, queue>>
    BY DEF UpsertChunk, workerVars
<1>3. /\ Len(queue) \in Nat
      /\ \A q \in Relay : /\ cursor[q] \in Nat \X Nat /\ pending[q] \in Nat \X Nat
                          /\ last[q] \in Nat \X Nat /\ from[q] \in Nat
      /\ \A i \in 1..Len(queue) : queue[i][1] \in Relay /\ queue[i][2] \in Nat \X Nat
    BY OrderTypes DEF OInv, SInv
<1>4. \A r \in Relay : r \in K => pending[r] # NoCursor
    BY DEF PendingRelays
<1>5. KnownOK'
    BY <1>1, <1>2, <1>4 DEF OInv, KnownOK, Active
<1>6. OrderOK'
    BY <1>2 DEF OInv, OrderOK
<1>7. TimeOK'
    <2>1. \A r \in Relay : pending'[r] # NoCursor => cursor'[r][1] <= pending'[r][1]
        BY <1>1 DEF OInv, TimeOK
    <2>2. \A r \in Relay : pending'[r][1] <= last[r][1]
        BY <1>1, <1>3 DEF OInv, TimeOK, NoCursor
    <2>3. \A r \in Relay : Active(r) => cursor'[r][1] <= from[r] \/ cursor'[r][1] <= last[r][1]
        BY <1>1 DEF OInv, TimeOK
    <2>4. ASSUME NEW i \in 1..Len(queue)
          PROVE  /\ cursor'[queue[i][1]][1] <= queue[i][2][1]
                 /\ pending'[queue[i][1]][1] <= queue[i][2][1]
        BY <1>1, <1>3 DEF OInv, TimeOK, NoCursor
    <2> QED
        BY <1>2, <2>1, <2>2, <2>3, <2>4 DEF TimeOK, Active
<1>8. LastKept'
    <2>1. ASSUME NEW q \in Relay, ~Queued(q), last[q] # NoCursor
          PROVE  pending'[q] = last[q] \/ (pending'[q] = NoCursor /\ cursor'[q] = last[q])
        BY <1>1, <1>4, <2>1 DEF OInv, LastKept
    <2> QED
        BY <1>2, <2>1 DEF OInv, LastKept, Queued, SetOf
<1>9. \A r \in Relay : cursor[r][1] <= cursor'[r][1]
    BY <1>1, <1>3, <1>4 DEF OInv, TimeOK
<1> QED
    BY <1>5, <1>6, <1>7, <1>8, <1>9 DEF Parts

\* Steps that leave every position where it is.
LEMMA OrderQuiet ==
    ASSUME OInv,
           \/ InsertChunk \/ StreamEnds \/ InsertDone \/ FlushDone \/ Stop \/ Restart \/ Tick
           \/ Shutdown \/ UNCHANGED vars
           \/ \E r \in Relay : \/ WorkerConnect(r) \/ WorkerSkip(r) \/ WorkerError(r)
                               \/ WorkerDone(r) \/ RelayPromoted(r)
    PROVE  cursor' = cursor /\ Parts'
<1>1. UNCHANGED <<cursor, from, last, queue, pending>>
    BY DEF InsertChunk, StreamEnds, InsertDone, FlushDone, Stop, Restart, Tick, Shutdown, vars,
       WorkerConnect, WorkerSkip, WorkerError, WorkerDone, RelayPromoted, dbVars, workerVars
<1>2. relays \subseteq relays'
    BY DEF InsertChunk, StreamEnds, InsertDone, FlushDone, Stop, Restart, Tick, Shutdown, vars,
       WorkerConnect, WorkerSkip, WorkerError, WorkerDone, RelayPromoted, dbVars
<1>3. ASSUME NEW q \in Relay, Active(q)' PROVE Active(q)
    <2>1. CASE UNCHANGED worker
        BY <1>3, <2>1 DEF Active
    <2>2. CASE \E r \in Relay : \/ WorkerConnect(r) \/ WorkerSkip(r) \/ WorkerError(r)
                                \/ WorkerDone(r)
        <3>1. PICK r \in Relay : /\ worker[r] \in {"waiting", "streaming"}
                                 /\ \E s : worker' = [worker EXCEPT ![r] = s]
            BY <2>2 DEF WorkerConnect, WorkerSkip, WorkerError, WorkerDone
        <3>2. worker \in [Relay -> {"none", "waiting", "streaming", "finished"}]
            BY DEF OInv, SInv, TypeOK
        <3> QED
            BY <1>3, <3>1, <3>2 DEF Active
    <2> QED
        BY <2>1, <2>2 DEF InsertChunk, StreamEnds, InsertDone, FlushDone, Stop, Restart, Tick,
           Shutdown, vars, RelayPromoted, workerVars
<1> QED
    BY <1>1, <1>2, <1>3, OrderSame

\* The last flush has no worker that could queue more.
LEMMA FinalStep ==
    ASSUME OInv, [Next]_vars
    PROVE  FinalOK'
<1>1. FinalOK /\ worker \in [Relay -> {"none", "waiting", "streaming", "finished"}]
    BY DEF OInv, SInv, TypeOK
<1> SUFFICES ASSUME phase' \in {"final_insert", "final_upsert"}
             PROVE  queue' = <<>> /\ \A r \in Relay : ~Active(r)'
    BY DEF FinalOK
<1>2. CASE StreamEnds
    BY <1>2 DEF StreamEnds, workerVars, Active
<1>3. CASE InsertDone
    <2>1. phase \in {"final_insert", "final_upsert"} /\ UNCHANGED <<worker, queue>>
        BY <1>3 DEF InsertDone, Inserting, workerVars
    <2> QED
        BY <1>1, <2>1 DEF FinalOK, Active
<1>4. CASE phase' = phase
    <2>1. queue = <<>> /\ \A r \in Relay : worker[r] \in {"none", "finished"}
        BY <1>1, <1>4 DEF FinalOK, Active
    <2>2. CASE ConsumerStep
        <3>1. UNCHANGED <<worker, queue>>
            BY <1>4, <2>1, <2>2 DEF ConsumerStep, Cleanup, FetchCursors, Consume, StreamEnds,
               InsertChunk, InsertDone, UpsertChunk, FlushDone, CycleDone, Stop, Restart, workerVars
        <3> QED
            BY <2>1, <3>1 DEF Active
    <2>3. ASSUME NEW r \in Relay, WorkerStep(r) \/ WorkerError(r) \/ RelayPromoted(r)
          PROVE  UNCHANGED <<worker, queue>>
        BY <2>1, <2>3 DEF WorkerStep, WorkerConnect, WorkerSkip, WorkerYield, WorkerDone,
           WorkerError, RelayPromoted, workerVars
    <2>4. CASE Tick \/ Shutdown \/ UNCHANGED vars
        <3>1. UNCHANGED <<worker, queue>>
            BY <2>4 DEF Tick, Shutdown, vars, workerVars
        <3> QED
            BY <2>1, <3>1 DEF Active
    <2>5. ~(Deadline \/ DbError \/ Crash)
        BY DEF Deadline, DbError, Crash
    <2> QED
        BY <2>1, <2>2, <2>3, <2>4, <2>5 DEF Next, Active
<1>5. CASE phase' # phase /\ ~StreamEnds /\ ~InsertDone
    <2>1. ~ConsumerStep
        BY <1>5 DEF ConsumerStep, Cleanup, FetchCursors, Consume, InsertChunk, UpsertChunk,
           FlushDone, CycleDone, Stop, Restart
    <2>2. \A r \in Relay : ~(WorkerStep(r) \/ WorkerError(r) \/ RelayPromoted(r))
        BY <1>5 DEF WorkerStep, WorkerConnect, WorkerSkip, WorkerYield, WorkerDone, WorkerError,
           RelayPromoted
    <2>3. ~(Tick \/ Deadline \/ DbError \/ Crash \/ Shutdown \/ UNCHANGED vars)
        BY <1>5 DEF Tick, Deadline, DbError, Crash, Shutdown, vars
    <2> QED
        BY <2>1, <2>2, <2>3 DEF Next
<1> QED
    BY <1>2, <1>3, <1>4, <1>5

\* Every step preserves the order, and no cursor goes back.
LEMMA NextOInv ==
    ASSUME OInv, [Next]_vars
    PROVE  OInv' /\ \A r \in Relay : cursor[r][1] <= cursor'[r][1]
<1> DEFINE Goal == Parts' /\ \A r \in Relay : cursor[r][1] <= cursor'[r][1]
<1> SUFFICES Goal
    BY NextSInv, FinalStep DEF OInv, Parts
<1>1. ASSUME UNCHANGED cursor PROVE \A r \in Relay : cursor[r][1] <= cursor'[r][1]
    BY <1>1, OrderTypes DEF OInv, SInv
<1>2. CASE ConsumerStep
    <2>1. CASE Cleanup
        BY <1>1, <2>1, OrderCleanup
    <2>2. CASE FetchCursors
        BY <1>1, <2>2, OrderFetch DEF FetchCursors, dbVars
    <2>3. CASE Consume
        BY <1>1, <2>3, OrderConsume DEF Consume, dbVars
    <2>4. CASE UpsertChunk
        BY <2>4, OrderUpsert
    <2>5. CASE CycleDone
        BY <1>1, <2>5, OrderNoCycle DEF CycleDone, dbVars
    <2> QED
        BY <1>1, <1>2, <2>1, <2>2, <2>3, <2>4, <2>5, OrderQuiet DEF ConsumerStep
<1>3. ASSUME NEW r \in Relay, WorkerStep(r) \/ WorkerError(r) \/ RelayPromoted(r)
      PROVE  Goal
    <2>1. CASE WorkerYield(r)
        BY <1>1, <2>1, OrderYield DEF WorkerYield, dbVars
    <2> QED
        BY <1>1, <1>3, <2>1, OrderQuiet DEF WorkerStep
<1>4. CASE Tick \/ Shutdown \/ UNCHANGED vars
    BY <1>1, <1>4, OrderQuiet
<1>5. CASE Deadline \/ DbError \/ Crash
    BY <1>1, <1>5, OrderNoCycle DEF Deadline, DbError, Crash, dbVars
<1> QED
    BY <1>2, <1>3, <1>4, <1>5 DEF Next

LEMMA InitOInv == ASSUME Init PROVE OInv
<1>1. /\ queue = <<>> /\ phase = "idle"
      /\ \A r \in Relay : /\ worker[r] = "none" /\ pending[r] = NoCursor
                          /\ cursor[r] = NoCursor /\ last[r] = NoCursor
    BY DEF Init
<1>2. \A i \in 1..Len(queue) : FALSE
    BY <1>1
<1>3. KnownOK /\ OrderOK /\ LastKept /\ FinalOK
    BY <1>1, <1>2 DEF KnownOK, OrderOK, LastKept, FinalOK, Queued, Active
<1>4. TimeOK
    BY <1>1, <1>2 DEF TimeOK, Active, NoCursor
<1> QED
    BY <1>3, <1>4, InitSInv DEF OInv

\* The order of the positions holds throughout.
THEOREM Ordering == Spec => []OInv
<1>1. Init => OInv
    BY InitOInv
<1>2. OInv /\ [Next]_vars => OInv'
    BY NextOInv
<1> QED
    BY <1>1, <1>2, PTL DEF Spec

\* No cursor's timestamp ever goes back, although the last second of a
\* relay is fetched again in every cycle and stale cursors are removed.
THEOREM CursorsAdvance == Spec => CursorNeverBack
<1>1. OInv /\ [Next]_vars => [\A r \in Relay : cursor'[r][1] >= cursor[r][1]]_cursor
    <2> SUFFICES ASSUME OInv, [Next]_vars
                 PROVE  \A r \in Relay : cursor'[r][1] >= cursor[r][1]
        OBVIOUS
    <2>1. \A r \in Relay : cursor[r][1] <= cursor'[r][1]
        BY NextOInv
    <2>2. \A r \in Relay : cursor[r][1] \in Nat /\ cursor'[r][1] \in Nat
        <3>1. TypeOK /\ TypeOK'
            BY NextSInv DEF OInv, SInv
        <3>2. \A r \in Relay :
                  cursor[r] \in Events \cup {NoCursor} /\ cursor'[r] \in Events \cup {NoCursor}
            BY <3>1 DEF TypeOK
        <3> QED
            BY <3>2, EventFields DEF NoCursor
    <2> QED
        BY <2>1, <2>2
<1> QED
    BY <1>1, Ordering, PTL DEF Spec, CursorNeverBack

\* A cycle that reaches its end has stored everything that its workers
\* delivered, and the cursor of each relay is its last event.
THEOREM NothingIsLeft == Spec => []NothingLeftBehind
<1>1. ASSUME OInv PROVE NothingLeftBehind
    <2> SUFFICES ASSUME phase = "final_upsert", PendingRelays = {}, NEW r \in Relay,
                        last[r] # NoCursor
                 PROVE  cursor[r] = last[r] /\ \A x \in Below(r, last[r]) : <<r, x>> \in stored
        BY DEF NothingLeftBehind
    <2>1. ~Queued(r) /\ pending[r] = NoCursor
        <3>1. queue = <<>>
            BY <1>1 DEF OInv, FinalOK
        <3> QED
            BY <3>1 DEF Queued, PendingRelays
    <2>2. cursor[r] = last[r]
        BY <1>1, <2>1 DEF OInv, LastKept
    <2> QED
        BY <1>1, <2>2 DEF OInv, SInv, CursorSafe
<1> QED
    BY <1>1, Ordering, PTL
=============================================================================
