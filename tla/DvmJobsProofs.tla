---------------------------- MODULE DvmJobsProofs ----------------------------
(***************************************************************************)
(* Which jobs the Dvm answers a second time, for any jobs and requests, any *)
(* size of the set of processed ids, any delays, any clocks of customers   *)
(* and any number of cut fetches, failures and restarts.                   *)
(***************************************************************************)
EXTENDS DvmJobs, FiniteSetTheorems, FunctionTheorems, SequenceTheorems, TLAPS

Elems(e) == {e[i] : i \in 1..Len(e)}

Answering == {"counting", "selecting", "sending"}
Running == {"fetching", "events"} \cup Answering
Steps == {"down", "idle"} \cup Running

Types ==
    /\ created \in [Job -> Int]
    /\ now \in Nat /\ last_fetch_ts \in Nat /\ fetch_ts \in Nat
    /\ processed \subseteq Job /\ taken \subseteq Job
    /\ events \in Seq(Job)
    /\ step \in Steps

\* A process that is down has started nothing.
DownOK == step = "down" => taken = {} /\ processed = {} /\ events = <<>>

\* The timestamp moves forward, up to the clock's reading at the cycle's start.
ClockOK ==
    /\ last_fetch_ts <= now /\ fetch_ts <= now
    /\ step \in Running => last_fetch_ts <= fetch_ts

\* What was taken had arrived and was addressed to this service.
TakenOK == \A j \in taken : created[j] >= 0 /\ request[j].ptag # "other"

\* What is left of a fetch is not older than the timestamp it asked for, and
\* its head is remembered while it is answered.
EventsOK ==
    /\ \A j \in Elems(events) : created[j] >= last_fetch_ts
    /\ step \in Answering => events # <<>> /\ Head(events) \in processed

\* A job that was forgotten is out of reach of the next fetch, or one of
\* those that the cycle which cleared the set had to leave.
ForgottenOK == \A j \in taken \ processed : created[j] >= last_fetch_ts => j \in replay

\* The inductive invariant.
DInv ==
    /\ Types /\ DownOK /\ ClockOK /\ TakenOK /\ EventsOK /\ ForgottenOK

-----------------------------------------------------------------------------
(* Lemmas *)

\* A sequence's elements are those of its head and its tail.
LEMMA HeadTail ==
    ASSUME NEW S, NEW e \in Seq(S), e # <<>>
    PROVE  /\ Tail(e) \in Seq(S)
           /\ Head(e) \in S /\ Head(e) \in Elems(e)
           /\ Elems(e) = {Head(e)} \cup Elems(Tail(e))
<1>1. Tail(e) \in Seq(S) /\ Len(e) \in Nat \ {0} /\ Len(Tail(e)) = Len(e) - 1
    OBVIOUS
<1>2. \A i \in 1..Len(Tail(e)) : Tail(e)[i] = e[i + 1]
    OBVIOUS
<1>3. Head(e) = e[1] /\ e[1] \in S
    BY <1>1
<1>4. ASSUME NEW x \in Elems(e) PROVE x = Head(e) \/ x \in Elems(Tail(e))
    <2>1. PICK i \in 1..Len(e) : x = e[i]
        BY DEF Elems
    <2>2. CASE i = 1
        BY <2>1, <2>2, <1>3
    <2>3. CASE i # 1
        <3>1. i - 1 \in 1..Len(Tail(e)) /\ (i - 1) + 1 = i
            BY <2>3, <1>1
        <3> QED
            BY <3>1, <1>2, <2>1 DEF Elems
    <2> QED
        BY <2>2, <2>3
<1>5. ASSUME NEW x \in Elems(Tail(e)) PROVE x \in Elems(e)
    <2>1. PICK i \in 1..Len(Tail(e)) : x = Tail(e)[i]
        BY DEF Elems
    <2>2. i + 1 \in 1..Len(e)
        BY <1>1
    <2> QED
        BY <2>1, <2>2, <1>2 DEF Elems
<1>6. Head(e) \in Elems(e)
    <2>1. 1 \in 1..Len(e)
        BY <1>1
    <2> QED
        BY <2>1, <1>3 DEF Elems
<1> QED
    BY <1>1, <1>3, <1>4, <1>5, <1>6

\* Nothing is in an empty sequence.
LEMMA NoElems == Elems(<<>>) = {}
BY DEF Elems

\* An order of a finite set is a sequence of exactly its members.
LEMMA OrderElems ==
    ASSUME NEW S, IsFiniteSet(S), NEW order \in SetToSeqs(S)
    PROVE  order \in Seq(S) /\ Elems(order) = S
<1> DEFINE n == Cardinality(S)
<1>1. n \in Nat
    BY FS_CardinalityType
<1>2. order \in [1..n -> S] /\ \A i, k \in 1..n : i # k => order[i] # order[k]
    BY DEF SetToSeqs
<1>3. order \in Seq(S) /\ Len(order) = n
    BY <1>1, <1>2
<1>4. order \in Injection(1..n, S)
    BY <1>2 DEF Injection, IsInjective
<1>5. IsFiniteSet(1..n) /\ Cardinality(1..n) = n
    <2>1. 1 \in Int /\ n \in Int
        BY <1>1
    <2> QED
        BY <1>1, <2>1, FS_Interval
<1>6. order \in Surjection(1..n, S)
    BY <1>4, <1>5, FS_Injection
<1>7. \A s \in S : \E i \in 1..n : order[i] = s
    BY <1>6 DEF Surjection
<1> QED
    BY <1>2, <1>3, <1>7 DEF Elems

\* A job is answered, or ends the cycle.
LEMMA HandleOutcome ==
    ASSUME NEW j, Handle(j)
    PROVE  \/ step' = "idle" /\ events' = <<>>
           \/ step' \in {"sending", "counting"} /\ events' = events
BY DEF Handle, Sending, Abort, Idle

-----------------------------------------------------------------------------
(* Steps *)

Frame ==
    UNCHANGED <<created, request, now, last_fetch_ts, fetch_ts, processed, taken, replay>>

\* Nothing has arrived, nobody has started.
LEMMA InitDInv == ASSUME Init PROVE DInv
<1>1. Types
    <2>1. events \in Seq(Job)
        BY DEF Init
    <2> QED
        BY <2>1 DEF Init, Types, Steps
<1>2. DownOK /\ ClockOK /\ TakenOK /\ ForgottenOK
    BY DEF Init, DownOK, ClockOK, TakenOK, ForgottenOK, Running, Answering
<1>3. EventsOK
    BY NoElems DEF Init, EventsOK, Answering
<1> QED
    BY <1>1, <1>2, <1>3 DEF DInv

\* The job being answered stays the head of what is left.
LEMMA AnswerStep ==
    ASSUME DInv, Frame, events' = events, step \in Answering, step' \in Answering
    PROVE  DInv'
<1>1. Types' /\ DownOK' /\ ClockOK' /\ TakenOK'
    BY DEF DInv, Frame, Types, DownOK, ClockOK, TakenOK, Steps, Running, Answering
<1>2. EventsOK' /\ ForgottenOK'
    BY DEF DInv, Frame, EventsOK, ForgottenOK, Elems
<1> QED
    BY <1>1, <1>2 DEF DInv

\* An exception ends the cycle.
LEMMA AbortStep ==
    ASSUME DInv, Frame, events' = <<>>, step' = "idle"
    PROVE  DInv'
<1>1. Types'
    <2>1. events' \in Seq(Job)
        OBVIOUS
    <2> QED
        BY <2>1 DEF DInv, Frame, Types, Steps
<1>2. DownOK' /\ ClockOK' /\ TakenOK' /\ ForgottenOK'
    BY DEF DInv, Frame, DownOK, ClockOK, TakenOK, ForgottenOK, Running, Answering
<1>3. EventsOK'
    BY NoElems DEF EventsOK, Answering
<1> QED
    BY <1>1, <1>2, <1>3 DEF DInv

\* The next event: the head has been answered.
LEMMA NextStep ==
    ASSUME DInv, Frame, step \in Answering, NextEvent
    PROVE  DInv'
<1>1. events \in Seq(Job) /\ events # <<>> /\ Head(events) \in processed
    BY DEF DInv, Types, EventsOK
<1>2. events' = Tail(events) /\ step' = "events"
    BY DEF NextEvent
<1>3. /\ Tail(events) \in Seq(Job)
      /\ Elems(events) = {Head(events)} \cup Elems(Tail(events))
    BY <1>1, HeadTail
<1>4. Types' /\ DownOK' /\ ClockOK' /\ TakenOK' /\ ForgottenOK'
    BY <1>2, <1>3 DEF DInv, Frame, Types, DownOK, ClockOK, TakenOK, ForgottenOK, Steps,
                      Running, Answering
<1>5. EventsOK'
    BY <1>2, <1>3 DEF DInv, Frame, EventsOK, Answering
<1> QED
    BY <1>4, <1>5 DEF DInv

\* Start and the beginning of a cycle.
LEMMA BeginDInv == ASSUME DInv, Start \/ BeginCycle PROVE DInv'
<1>1. CASE Start
    <2>1. /\ step = "down" /\ step' = "idle" /\ last_fetch_ts' = now
          /\ taken = {} /\ events = <<>>
          /\ UNCHANGED <<created, request, now, fetch_ts, processed, events, taken, replay>>
        BY <1>1 DEF Start, ghosts, answer, DInv, DownOK
    <2>2. Types'
        BY <2>1 DEF DInv, Types, Steps
    <2>3. DownOK' /\ ClockOK' /\ TakenOK' /\ ForgottenOK'
        BY <2>1 DEF DInv, Types, DownOK, ClockOK, TakenOK, ForgottenOK, Running,
                    Answering
    <2>4. EventsOK'
        BY <2>1, NoElems DEF EventsOK, Answering
    <2> QED
        BY <2>2, <2>3, <2>4 DEF DInv
<1>2. CASE BeginCycle
    <2>1. /\ step = "idle" /\ step' = "fetching" /\ fetch_ts' = now
          /\ UNCHANGED <<created, request, now, last_fetch_ts, processed, events, taken,
                         replay>>
        BY <1>2 DEF BeginCycle, ids, ghosts
    <2>2. Types' /\ DownOK' /\ ClockOK' /\ TakenOK' /\ ForgottenOK'
        BY <2>1 DEF DInv, Types, DownOK, ClockOK, TakenOK, ForgottenOK, Steps,
                    Running, Answering
    <2>3. EventsOK'
        BY <2>1 DEF DInv, EventsOK, Answering
    <2> QED
        BY <2>2, <2>3 DEF DInv
<1> QED
    BY <1>1, <1>2

\* A fetch brings nothing that is older than the timestamp.
LEMMA FetchDInv == ASSUME DInv, NEW jobs \in SUBSET Due, Fetched(jobs) PROVE DInv'
<1>1. PICK order \in SetToSeqs(jobs) :
          /\ events' = order
          /\ IF order = <<>> THEN step' = "idle" /\ last_fetch_ts' = fetch_ts
             ELSE step' = "events" /\ UNCHANGED last_fetch_ts
    BY DEF Fetched
<1>2. /\ step = "fetching"
      /\ UNCHANGED <<created, request, now, fetch_ts, processed, taken, replay>>
    BY DEF Fetched
<1>3. IsFiniteSet(jobs) /\ jobs \subseteq Job
    BY DvmAssumption, FS_Subset DEF Due
<1>4. order \in Seq(jobs) /\ Elems(order) = jobs
    BY <1>1, <1>3, OrderElems
<1>5. events' \in Seq(Job)
    BY <1>1, <1>3, <1>4
<1>6. \A j \in taken : j \in Job
    BY DEF DInv, Types
<1>7. /\ last_fetch_ts <= fetch_ts /\ fetch_ts <= now
      /\ last_fetch_ts \in Nat /\ fetch_ts \in Nat /\ now \in Nat
      /\ \A j \in Job : created[j] \in Int
    BY <1>2 DEF DInv, ClockOK, Types, Running
<1>8. CASE order = <<>>
    <2>1. step' = "idle" /\ last_fetch_ts' = fetch_ts
        BY <1>1, <1>8
    <2>2. Types'
        BY <1>2, <1>5, <2>1 DEF DInv, Types, Steps
    <2>3. DownOK' /\ ClockOK' /\ TakenOK'
        BY <1>2, <1>7, <2>1 DEF DInv, DownOK, ClockOK, TakenOK, Running, Answering
    <2>4. ForgottenOK'
        BY <1>2, <1>6, <1>7, <2>1 DEF DInv, ForgottenOK
    <2>5. EventsOK'
        BY <1>1, <1>8, <2>1, NoElems DEF EventsOK, Answering
    <2> QED
        BY <2>2, <2>3, <2>4, <2>5 DEF DInv
<1>9. CASE order # <<>>
    <2>1. step' = "events" /\ last_fetch_ts' = last_fetch_ts
        BY <1>1, <1>9
    <2>2. Types'
        BY <1>2, <1>5, <2>1 DEF DInv, Types, Steps, Running
    <2>3. DownOK' /\ ClockOK' /\ TakenOK' /\ ForgottenOK'
        BY <1>2, <1>7, <2>1 DEF DInv, DownOK, ClockOK, TakenOK, ForgottenOK, Running
    <2>4. EventsOK'
        BY <1>1, <1>2, <1>4, <2>1 DEF EventsOK, Answering, Due
    <2> QED
        BY <2>2, <2>3, <2>4 DEF DInv
<1> QED
    BY <1>8, <1>9

\* An event is passed over, or remembered and handled.
LEMMA TakeDInv == ASSUME DInv, TakeEvent PROVE DInv'
<1> DEFINE j == Head(events)
<1>1. /\ step = "events" /\ events # <<>>
      /\ UNCHANGED <<created, request, now, last_fetch_ts, fetch_ts, replay>>
    BY DEF TakeEvent
<1>2. events \in Seq(Job) /\ j \in Job
    BY <1>1, HeadTail DEF DInv, Types
<1>3. /\ Tail(events) \in Seq(Job) /\ j \in Elems(events)
      /\ Elems(events) = {j} \cup Elems(Tail(events))
    BY <1>1, <1>2, HeadTail
<1>4. CASE j \in processed \/ request[j].ptag = "other"
    <2>1. events' = Tail(events) /\ UNCHANGED <<processed, step, taken>>
        BY <1>1, <1>4 DEF TakeEvent
    <2>2. Types' /\ DownOK' /\ ClockOK' /\ TakenOK' /\ ForgottenOK'
        BY <1>1, <1>3, <2>1 DEF DInv, Types, DownOK, ClockOK, TakenOK, ForgottenOK
    <2>3. EventsOK'
        BY <1>1, <1>3, <2>1 DEF DInv, EventsOK, Answering
    <2> QED
        BY <2>2, <2>3 DEF DInv
<1>5. CASE ~(j \in processed \/ request[j].ptag = "other")
    <2>1. /\ processed' = processed \cup {j} /\ taken' = taken \cup {j} /\ Handle(j)
        BY <1>1, <1>5 DEF TakeEvent
    <2>2. \/ step' = "idle" /\ events' = <<>>
          \/ step' \in {"sending", "counting"} /\ events' = events
        BY <2>1, HandleOutcome
    <2>3. /\ created[j] >= last_fetch_ts /\ created[j] \in Int /\ last_fetch_ts \in Nat
          /\ request[j].ptag # "other"
        BY <1>2, <1>3, <1>5 DEF DInv, EventsOK, Types
    <2>4. events' \in Seq(Job)
        <3>1. <<>> \in Seq(Job)
            OBVIOUS
        <3> QED
            BY <1>2, <2>2, <3>1
    <2>5. Types'
        BY <1>1, <1>2, <2>1, <2>2, <2>4 DEF DInv, Types, Steps, Running, Answering
    <2>6. DownOK' /\ ClockOK'
        BY <1>1, <2>2 DEF DInv, DownOK, ClockOK, Running, Answering
    <2>7. TakenOK'
        BY <1>1, <2>1, <2>3 DEF DInv, TakenOK
    <2>8. ForgottenOK'
        BY <1>1, <2>1 DEF DInv, ForgottenOK
    <2>9. EventsOK'
        BY <1>1, <2>1, <2>2, NoElems DEF DInv, EventsOK, Answering
    <2> QED
        BY <2>5, <2>6, <2>7, <2>8, <2>9 DEF DInv
<1> QED
    BY <1>4, <1>5

\* The end of a cycle: what is forgotten with the set, now or earlier, is
\* older than its fetch, or in `replay'.
LEMMA EndDInv == ASSUME DInv, EndCycle PROVE DInv'
<1>1. /\ step = "events" /\ events = <<>> /\ step' = "idle" /\ last_fetch_ts' = fetch_ts
      /\ UNCHANGED <<created, request, now, fetch_ts, events, taken>>
    BY DEF EndCycle, answer
<1>2. \/ /\ processed' = {}
         /\ replay' = {j \in processed \cup replay : created[j] >= fetch_ts}
      \/ /\ processed' = processed
         /\ replay' = replay \ processed
    BY DEF EndCycle
<1>3. /\ last_fetch_ts <= fetch_ts /\ last_fetch_ts \in Nat /\ fetch_ts \in Nat
      /\ taken \subseteq Job /\ \A j \in Job : created[j] \in Int
    BY <1>1 DEF DInv, ClockOK, Types, Running
<1>4. \A j \in taken : created[j] >= last_fetch_ts => j \in processed \cup replay
    BY DEF DInv, ForgottenOK
<1>5. Types' /\ DownOK' /\ ClockOK' /\ TakenOK'
    BY <1>1, <1>2 DEF DInv, Types, DownOK, ClockOK, TakenOK, Steps, Running, Answering
<1>6. ForgottenOK'
    <2> SUFFICES ASSUME NEW j \in taken, j \notin processed', created[j] >= fetch_ts
                 PROVE  j \in replay'
        BY <1>1 DEF ForgottenOK
    <2>1. created[j] >= last_fetch_ts
        BY <1>3
    <2>2. j \in processed \cup replay /\ j \in Job
        BY <1>3, <1>4, <2>1
    <2> QED
        BY <1>2, <2>2
<1>7. EventsOK'
    BY <1>1, NoElems DEF EventsOK, Answering
<1> QED
    BY <1>5, <1>6, <1>7 DEF DInv

\* The process's steps.
LEMMA StepDInv == ASSUME DInv, Step PROVE DInv'
<1>1. CASE Count
    <2>1. Frame /\ events' = events /\ step \in Answering
        BY <1>1 DEF Count, Frame, ids, ghosts, Answering
    <2>2. step' \in Answering
        BY <1>1 DEF Count, Sending, Answering
    <2> QED
        BY <2>1, <2>2, AnswerStep
<1>2. CASE Select
    BY <1>2, AnswerStep DEF Select, Sending, Frame, ids, ghosts, Answering
<1>3. CASE Send
    BY <1>3, NextStep DEF Send, Frame, ids, ghosts, Answering
<1>4. CASE Fetch
    BY <1>4, FetchDInv DEF Fetch
<1> QED
    BY <1>1, <1>2, <1>3, <1>4, BeginDInv, TakeDInv, EndDInv DEF Step

\* Failures and crashes.
LEMMA FailureDInv == ASSUME DInv, Failure PROVE DInv'
<1>1. CASE FetchRaises
    BY <1>1, AbortStep DEF FetchRaises, Abort, Idle, Frame, ids, ghosts
<1>5. CASE FetchCut
    BY <1>5, FetchDInv DEF FetchCut
<1>2. ASSUME NEW caught \in BOOLEAN, QueryRaises(caught) PROVE DInv'
    <2>1. Frame /\ step \in Answering
        BY <1>2 DEF QueryRaises, Frame, ids, ghosts, Answering
    <2>2. \/ events' = events /\ step' \in Answering
          \/ events' = <<>> /\ step' = "idle"
        BY <1>2 DEF QueryRaises, Sending, Abort, Idle, Answering
    <2> QED
        BY <2>1, <2>2, AnswerStep, AbortStep
<1>3. ASSUME NEW caught \in BOOLEAN, SendRaises(caught) PROVE DInv'
    <2>1. Frame /\ step \in Answering
        BY <1>3 DEF SendRaises, Frame, ids, ghosts, Answering
    <2>2. \/ events' = events /\ step' \in Answering
          \/ events' = <<>> /\ step' = "idle"
          \/ NextEvent
        BY <1>3 DEF SendRaises, Sending, Abort, Idle, Answering
    <2> QED
        BY <2>1, <2>2, AnswerStep, AbortStep, NextStep
<1>4. CASE Crash
    <2>1. /\ step' = "down" /\ events' = <<>> /\ processed' = {} /\ taken' = {}
          /\ last_fetch_ts' = 0 /\ fetch_ts' = 0
          /\ UNCHANGED <<created, request, now>>
        BY <1>4 DEF Crash, Idle
    <2>2. events' \in Seq(Job)
        BY <2>1
    <2>3. Types' /\ DownOK' /\ ClockOK' /\ TakenOK' /\ ForgottenOK'
        BY <2>1, <2>2 DEF DInv, Types, DownOK, ClockOK, TakenOK, ForgottenOK, Steps,
                          Running, Answering
    <2>4. EventsOK'
        BY <2>1, NoElems DEF EventsOK, Answering
    <2> QED
        BY <2>3, <2>4 DEF DInv
<1> QED
    BY <1>1, <1>2, <1>3, <1>4, <1>5 DEF Failure

\* A job that arrives has not been fetched or taken.
LEMMA ArrivalDInv == ASSUME DInv, NEW j \in Job, JobArrives(j) PROVE DInv'
<1>1. /\ created[j] = -1
      /\ UNCHANGED <<request, now, step, last_fetch_ts, fetch_ts, processed, events, taken,
                     replay>>
    BY DEF JobArrives, ids, ghosts
<1>2. PICK t \in (now - MaxDelay)..(now + MaxAhead) :
          t >= 0 /\ created' = [created EXCEPT ![j] = t]
    BY DEF JobArrives
<1>3. t \in Int
    BY <1>2, DvmAssumption DEF DInv, Types
<1>4. /\ created' \in [Job -> Int]
      /\ \A k \in Job : k # j => created'[k] = created[k]
    BY <1>2, <1>3 DEF DInv, Types
<1>5. j \notin taken /\ j \notin Elems(events)
    BY <1>1 DEF DInv, TakenOK, EventsOK, Types
<1>6. taken \subseteq Job /\ Elems(events) \subseteq Job
    BY DEF DInv, Types, Elems
<1>7. Types' /\ DownOK' /\ ClockOK'
    BY <1>1, <1>4 DEF DInv, Types, DownOK, ClockOK
<1>8. TakenOK' /\ ForgottenOK'
    BY <1>1, <1>4, <1>5, <1>6 DEF DInv, TakenOK, ForgottenOK
<1>9. EventsOK'
    BY <1>1, <1>4, <1>5, <1>6 DEF DInv, EventsOK, Elems
<1> QED
    BY <1>7, <1>8, <1>9 DEF DInv

\* Every step preserves the invariant.
LEMMA NextDInv == ASSUME DInv, [Next]_vars PROVE DInv'
<1>1. CASE Tick
    <2>1. /\ now' = now + 1
          /\ UNCHANGED <<created, request, step, last_fetch_ts, fetch_ts, processed, events,
                         taken, replay>>
        BY <1>1 DEF Tick, ids, ghosts
    <2> QED
        BY <2>1 DEF DInv, Types, DownOK, ClockOK, TakenOK, EventsOK, ForgottenOK, Elems
<1>2. CASE UNCHANGED vars
    BY <1>2 DEF vars, ids, ghosts, DInv, Types, DownOK, ClockOK, TakenOK, EventsOK, ForgottenOK,
                Elems
<1> QED
    BY <1>1, <1>2, StepDInv, FailureDInv, ArrivalDInv DEF Next

\* The invariant holds of every behaviour of the Dvm and its relays.
THEOREM Invariance == Spec => []DInv
<1>1. Init => DInv
    BY InitDInv
<1>2. DInv /\ [Next]_vars => DInv'
    BY NextDInv
<1> QED
    BY <1>1, <1>2, PTL DEF Spec

\* Whatever fails in between, and however small the set of processed ids is,
\* a process answers a job a second time only if the set was cleared and the
\* job's created_at is not before the start of the clearing cycle.
THEOREM ReplaysAreLimited == Spec => ReplaysLimited
<1> DEFINE A == \A j \in taken : j \notin processed /\ j \in processed' => j \in replay
<1>1. ASSUME DInv, [Next]_vars PROVE A
    <2>1. CASE TakeEvent
        <3> SUFFICES ASSUME NEW j \in taken, j \notin processed, j \in processed'
                     PROVE  j \in replay
            OBVIOUS
        <3>1. processed' \subseteq processed \cup {Head(events)} /\ events # <<>>
            BY <2>1 DEF TakeEvent
        <3>2. j = Head(events) /\ j \in Elems(events)
            BY <1>1, <3>1, HeadTail DEF DInv, Types
        <3> QED
            BY <1>1, <3>2 DEF DInv, EventsOK, ForgottenOK
    <2>2. CASE ~TakeEvent
        <3>1. processed' \subseteq processed
            <4>1. Step => processed' \subseteq processed
                BY <2>2 DEF Step, Start, BeginCycle, Fetch, Fetched, Count, Select, Send, EndCycle,
                            ids, ghosts
            <4>2. Failure => processed' \subseteq processed
                BY DEF Failure, FetchRaises, FetchCut, Fetched, QueryRaises, SendRaises, Crash,
                       ids, ghosts
            <4>3. (\E j \in Job : JobArrives(j)) \/ Tick \/ UNCHANGED vars
                    => processed' \subseteq processed
                BY DEF JobArrives, Tick, vars, ids, ghosts
            <4> QED
                BY <1>1, <4>1, <4>2, <4>3 DEF Next
        <3> QED
            BY <3>1
    <2> QED
        BY <2>1, <2>2
<1>2. ASSUME DInv, [Next]_vars PROVE [A]_vars
    BY <1>1, <1>2
<1> QED
    BY <1>2, Invariance, PTL DEF Spec, ReplaysLimited
=============================================================================
