------------------------- MODULE StreamEventsProofs -------------------------
(***************************************************************************)
(* Safety of the windowing algorithm for every relay, every set of events, *)
(* every list of filters and every range: no assumption on what the relay  *)
(* answers is used.  Then its completeness over an honest relay, with one  *)
(* filter, and the refinement of OrderedDelivery.                          *)
(***************************************************************************)
EXTENDS StreamEvents, FiniteSetTheorems, SequenceTheorems, TLAPS

-----------------------------------------------------------------------------
(* Ascending stacks *)

Ascending(s) == \A i, j \in 1..Len(s) : i < j => s[i] < s[j]

\* What is left after the head of an ascending stack is popped.
LEMMA PopStack ==
    ASSUME NEW s \in Seq(Nat), s # <<>>, Ascending(s)
    PROVE  /\ Tail(s) \in Seq(Nat)
           /\ Ascending(Tail(s))
           /\ Tail(s) = <<>> => s[1] = s[Len(s)]
           /\ Tail(s) # <<>> => s[1] < Tail(s)[1] /\ Tail(s)[Len(Tail(s))] = s[Len(s)]
<1> DEFINE t == Tail(s)
<1>1. /\ t \in Seq(Nat)
      /\ Len(t) = Len(s) - 1
      /\ \A i \in 1..Len(t) : t[i] = s[i + 1]
    BY HeadTailProperties
<1>2. Len(s) \in Nat \ {0}
    BY EmptySeq
<1>3. t # <<>> => Len(t) \in Nat \ {0}
    BY <1>1, EmptySeq
<1>4. t = <<>> => Len(t) = 0
    BY EmptySeq
<1> HIDE DEF t
<1>5. Ascending(t)
    <2> SUFFICES ASSUME NEW i \in 1..Len(t), NEW j \in 1..Len(t), i < j
                 PROVE  t[i] < t[j]
        BY DEF Ascending
    <2>1. i + 1 \in 1..Len(s) /\ j + 1 \in 1..Len(s) /\ i + 1 < j + 1
        BY <1>1, <1>2
    <2> QED
        BY <2>1, <1>1 DEF Ascending
<1>6. t = <<>> => s[1] = s[Len(s)]
    <2>1. t = <<>> => Len(s) = 1
        BY <1>1, <1>2, <1>4
    <2> QED
        BY <2>1
<1>7. t # <<>> => s[1] < t[1] /\ t[Len(t)] = s[Len(s)]
    BY <1>1, <1>2, <1>3 DEF Ascending
<1> QED
    BY <1>1, <1>5, <1>6, <1>7 DEF t

\* Pushing a smaller bound keeps the stack ascending.
LEMMA PushStack ==
    ASSUME NEW s \in Seq(Nat), s # <<>>, Ascending(s), NEW m \in Nat, m < s[1]
    PROVE  /\ <<m>> \o s \in Seq(Nat)
           /\ <<m>> \o s # <<>>
           /\ Ascending(<<m>> \o s)
           /\ (<<m>> \o s)[1] = m
           /\ (<<m>> \o s)[Len(<<m>> \o s)] = s[Len(s)]
<1> DEFINE u == <<m>>
           t == u \o s
<1>1. u \in Seq(Nat) /\ Len(u) = 1 /\ u[1] = m
    OBVIOUS
<1> HIDE DEF u
<1>2. /\ t \in Seq(Nat)
      /\ Len(t) = 1 + Len(s)
      /\ \A i \in 1..(1 + Len(s)) : t[i] = IF i <= 1 THEN u[i] ELSE s[i - 1]
    <2>1. /\ t \in Seq(Nat)
          /\ Len(t) = Len(u) + Len(s)
          /\ \A i \in 1..(Len(u) + Len(s)) :
                t[i] = IF i <= Len(u) THEN u[i] ELSE s[i - Len(u)]
        BY <1>1, ConcatProperties
    <2> HIDE DEF t
    <2> QED
        BY <2>1, <1>1
<1>3. Len(s) \in Nat \ {0}
    BY EmptySeq
<1> HIDE DEF t
<1>4. t[1] = m /\ t[Len(t)] = s[Len(s)] /\ t # <<>>
    BY <1>1, <1>2, <1>3, EmptySeq
<1>5. \A j \in 1..Len(s) : m < s[j]
    <2> TAKE j \in 1..Len(s)
    <2>1. s[1] \in Nat /\ s[j] \in Nat /\ (j = 1 \/ s[1] < s[j])
        BY <1>3 DEF Ascending
    <2> QED
        BY <2>1
<1>6. Ascending(t)
    <2> SUFFICES ASSUME NEW i \in 1..Len(t), NEW j \in 1..Len(t), i < j
                 PROVE  t[i] < t[j]
        BY DEF Ascending
    <2>1. j - 1 \in 1..Len(s) /\ t[j] = s[j - 1]
        BY <1>2, <1>3
    <2>2. CASE i = 1
        BY <2>1, <2>2, <1>4, <1>5
    <2>3. CASE i # 1
        <3>1. i - 1 \in 1..Len(s) /\ t[i] = s[i - 1] /\ i - 1 < j - 1
            BY <2>1, <2>3, <1>2, <1>3
        <3> QED
            BY <3>1, <2>1 DEF Ascending
    <2> QED
        BY <2>2, <2>3
<1> QED
    BY <1>2, <1>4, <1>6 DEF t, u

-----------------------------------------------------------------------------
(* The inductive invariant *)

\* Events a fetch of the current window may return.
InWindow ==
    {e \in Event :
        /\ e \in Authentic
        /\ \E f \in DOMAIN Filters : e \in Filters[f]
        /\ current_since <= e[1] /\ e[1] <= until_stack[1]}

\* A window is open.
Open == pc \in {"window", "boundary", "probe", "yield"}

\* The stack is strictly ascending, starts at or after current_since and ends
\* at EndTime; it is empty only when the range is finished.
StackOK ==
    /\ Ascending(until_stack)
    /\ StartTime <= current_since
    /\ until_stack # <<>> =>
         /\ current_since <= until_stack[1]
         /\ until_stack[Len(until_stack)] = EndTime
    /\ until_stack = <<>> /\ StartTime <= EndTime => current_since = EndTime + 1
    /\ Open => until_stack # <<>>
    /\ pc = "done" => until_stack = <<>>

\* Everything held for the open window belongs to it.
WindowOK ==
    /\ Fetching => fetched \subseteq InWindow
    /\ pc \in {"boundary", "probe"} =>
         /\ events \subseteq InWindow
         /\ current_since < until_stack[1]
         /\ current_since <= min_ts /\ min_ts <= until_stack[1]
    /\ pc = "probe" => boundary \subseteq InWindow /\ current_since < min_ts
    /\ pc = "yield" => pending \subseteq InWindow \ Unstorable
    /\ pc # "yield" => pending = {}

\* What was yielded lies below what is still to come.
YieldedOK ==
    /\ \A i \in 1..Len(yielded) :
         /\ yielded[i] \in Wanted
         /\ pc # "yield" => yielded[i][1] < current_since
         /\ pc = "yield" => yielded[i][1] <= until_stack[1]
         /\ \A p \in pending : Precedes(yielded[i], p)
    /\ \A i, j \in 1..Len(yielded) : i < j => Precedes(yielded[i], yielded[j])

\* The inductive invariant.
IInv == TypeOK /\ StackOK /\ WindowOK /\ YieldedOK

-----------------------------------------------------------------------------
(* The order on events *)

\* Precedes is transitive: the consumer's cursor can be compared with any
\* earlier event.
LEMMA PrecedesTransitive ==
    ASSUME NEW e \in Event, NEW f \in Event, NEW g \in Event,
           Precedes(e, f), Precedes(f, g)
    PROVE  Precedes(e, g)
BY EventAssumption DEF Precedes

\* created_at and id of an event are natural numbers.
LEMMA EventFields == \A e \in Event : e[1] \in Nat /\ e[2] \in Nat
BY EventAssumption

\* Every upper bound on the stack lies in the range of the stream.
LEMMA StackBound ==
    ASSUME TypeOK, StackOK, until_stack # <<>>
    PROVE  until_stack[1] \in Nat /\ until_stack[1] <= EndTime
<1> DEFINE n == Len(until_stack)
<1>1. n \in Nat \ {0} /\ until_stack \in Seq(Nat)
    BY EmptySeq DEF TypeOK
<1>2. until_stack[1] \in Nat /\ until_stack[n] = EndTime
    BY <1>1 DEF StackOK
<1>3. \A i, j \in 1..n : i < j => until_stack[i] < until_stack[j]
    BY DEF StackOK, Ascending
<1> HIDE DEF n
<1>4. 1 \in 1..n /\ n \in 1..n /\ (n = 1 \/ 1 < n)
    BY <1>1
<1>5. n = 1 \/ until_stack[1] < until_stack[n]
    BY <1>3, <1>4
<1> QED
    BY <1>2, <1>5, RequestAssumption

\* An event of the open window that can be stored is wanted.
LEMMA InWindowWanted ==
    ASSUME TypeOK, StackOK, until_stack # <<>>
    PROVE  InWindow \ Unstorable \subseteq Wanted
<1> SUFFICES ASSUME NEW e \in InWindow, e \notin Unstorable PROVE e \in Wanted
    OBVIOUS
<1>1. e[1] \in Nat /\ current_since <= e[1] /\ e[1] <= until_stack[1]
    BY EventFields DEF InWindow
<1>2. StartTime <= e[1] /\ e[1] <= EndTime
    BY <1>1, StackBound, RequestAssumption DEF StackOK, TypeOK
<1> QED
    BY <1>2 DEF InWindow, Wanted

-----------------------------------------------------------------------------
(* Building blocks of the actions *)

\* Initially nothing was fetched or yielded.
LEMMA InitIInv == Init => IInv
<1> SUFFICES ASSUME Init PROVE IInv
    OBVIOUS
<1>1. TypeOK
    <2>1. store \subseteq Event /\ promised \subseteq store
        BY EventAssumption DEF Init
    <2>2. until_stack \in Seq(Nat) /\ yielded \in Seq(Event)
        BY RequestAssumption DEF Init
    <2>3. pc \in Pcs
        BY DEF Init, Pcs
    <2>4. /\ current_since = StartTime /\ filter = 1 /\ fetched = {} /\ events = {}
          /\ min_ts = 0 /\ boundary = {} /\ pending = {} /\ idle = FALSE
        BY DEF Init
    <2>5. current_since \in Nat /\ filter \in Nat \ {0} /\ min_ts \in Nat
        BY <2>4, RequestAssumption
    <2>6. idle \in BOOLEAN
        BY <2>4
    <2> QED
        BY <2>1, <2>2, <2>3, <2>4, <2>5, <2>6 DEF TypeOK
<1>2. StackOK
    <2>1. CASE StartTime > EndTime
        <3>1. until_stack = <<>> /\ pc = "done" /\ current_since = StartTime
            BY <2>1 DEF Init
        <3> QED
            BY <3>1, <2>1, RequestAssumption DEF StackOK, Open, Ascending
    <2>2. CASE ~(StartTime > EndTime)
        <3>1. until_stack = <<EndTime>> /\ pc = "loop" /\ current_since = StartTime
            BY <2>2 DEF Init
        <3> QED
            BY <3>1, <2>2, RequestAssumption DEF StackOK, Open, Ascending
    <2> QED
        BY <2>1, <2>2
<1>3. WindowOK
    BY DEF Init, WindowOK, Fetching
<1>4. YieldedOK
    BY DEF Init, YieldedOK
<1> QED
    BY <1>1, <1>2, <1>3, <1>4 DEF IInv

\* Popping a finished window: the rest of the stack is as it should be.
LEMMA AdvanceIInv ==
    ASSUME IInv, until_stack # <<>>, AdvanceWindow, pc' = "loop",
           pending = {}, \A i \in 1..Len(yielded) : yielded[i][1] <= until_stack[1],
           UNCHANGED <<relayVars, fetchVars, pending, idle, yielded>>
    PROVE  IInv'
<1> USE DEF IInv, AdvanceWindow, relayVars, fetchVars
<1>1. TypeOK'
    BY DEF TypeOK, Pcs
<1>2. StackOK'
    <2>1. until_stack \in Seq(Nat) /\ Ascending(until_stack)
        BY DEF TypeOK, StackOK
    <2>2. until_stack[1] \in Nat /\ Head(until_stack) = until_stack[1]
        BY <2>1, EmptySeq
    <2>3. current_since' = until_stack[1] + 1 /\ until_stack' = Tail(until_stack)
        BY <2>2
    <2>4. StartTime <= current_since'
        BY <2>2, <2>3, RequestAssumption DEF TypeOK, StackOK
    <2>5. CASE until_stack' = <<>>
        <3>1. until_stack[1] = EndTime
            BY <2>1, <2>3, <2>5, PopStack DEF StackOK
        <3> QED
            BY <3>1, <2>1, <2>3, <2>4, <2>5, PopStack DEF StackOK, Open
    <2>6. CASE until_stack' # <<>>
        <3>1. /\ Ascending(until_stack')
              /\ until_stack' \in Seq(Nat)
              /\ until_stack[1] < until_stack'[1]
              /\ until_stack'[Len(until_stack')] = EndTime
            <4>1. until_stack[Len(until_stack)] = EndTime
                BY DEF StackOK
            <4>2. /\ Ascending(Tail(until_stack))
                  /\ Tail(until_stack) \in Seq(Nat)
                  /\ Tail(until_stack) # <<>> =>
                       /\ until_stack[1] < Tail(until_stack)[1]
                       /\ Tail(until_stack)[Len(Tail(until_stack))] = until_stack[Len(until_stack)]
                BY <2>1, PopStack
            <4> QED
                BY <4>1, <4>2, <2>3, <2>6, Zenon
        <3>2. until_stack'[1] \in Nat
            <4> HIDE DEF IInv, AdvanceWindow
            <4> QED
                BY <3>1, <2>6, EmptySeq
        <3>3. current_since' <= until_stack'[1]
            <4> DEFINE top == until_stack'[1]
            <4>1. top \in Nat /\ until_stack[1] < top
                BY <3>1, <3>2
            <4> HIDE DEF top
            <4>2. until_stack[1] + 1 <= top
                BY <4>1, <2>2
            <4> QED
                BY <4>2, <2>3 DEF top
        <3> QED
            BY <3>1, <3>3, <2>4, <2>6 DEF StackOK, Open
    <2> QED
        BY <2>5, <2>6
<1>3. WindowOK'
    BY DEF WindowOK, Fetching
<1>4. YieldedOK'
    <2>1. \A i \in 1..Len(yielded) : yielded[i] \in Event /\ yielded[i][1] \in Nat
        BY EventFields DEF TypeOK
    <2> QED
        BY <2>1 DEF YieldedOK, TypeOK
<1> QED
    BY <1>1, <1>2, <1>3, <1>4

\* Splitting a window of at least two seconds: the middle lies strictly below
\* its upper bound and not below its lower one.
LEMMA SplitIInv ==
    ASSUME IInv, pc \in {"boundary", "probe"}, SplitWindow
    PROVE  IInv'
<1> USE DEF IInv, SplitWindow, relayVars, fetchVars
<1> DEFINE mid == current_since + ((until_stack[1] - current_since) \div 2)
<1>1. until_stack # <<>> /\ until_stack[1] \in Nat /\ until_stack' = <<mid>> \o until_stack
    BY DEF TypeOK, StackOK, Open
<1>2. mid \in Nat /\ current_since <= mid /\ mid < until_stack[1]
    <2>1. current_since \in Nat /\ current_since < until_stack[1]
        BY DEF TypeOK, WindowOK
    <2> QED
        BY <1>1, <2>1
<1> HIDE DEF mid
<1>3. /\ until_stack' \in Seq(Nat)
      /\ until_stack' # <<>>
      /\ Ascending(until_stack')
      /\ until_stack'[1] = mid
      /\ until_stack'[Len(until_stack')] = EndTime
    <2>1. until_stack \in Seq(Nat) /\ Ascending(until_stack)
          /\ until_stack[Len(until_stack)] = EndTime
        BY <1>1 DEF TypeOK, StackOK
    <2> QED
        BY <1>1, <1>2, <2>1, PushStack
<1>4. TypeOK'
    <2>1. UNCHANGED <<store, promised, current_since, filter, fetched, pending, idle, yielded>>
          /\ pc' = "loop" /\ events' = {} /\ boundary' = {} /\ min_ts' = 0
        OBVIOUS
    <2> QED
        BY <1>3, <2>1 DEF TypeOK, Pcs
<1>5. StackOK'
    BY <1>2, <1>3 DEF StackOK, Open
<1>6. WindowOK'
    BY DEF WindowOK, Fetching
<1>7. YieldedOK'
    BY DEF YieldedOK
<1> QED
    BY <1>4, <1>5, <1>6, <1>7

\* Handing a set of window events to the yield loop.
LEMMA AcceptIInv ==
    ASSUME IInv, Fetching, NEW S \in SUBSET InWindow, AcceptEvents(S)
    PROVE  IInv'
<1> USE DEF IInv, AcceptEvents, relayVars, fetchVars
<1>1. TypeOK'
    BY DEF TypeOK, Pcs, ToDomainEvents, InWindow
<1>2. StackOK'
    BY DEF StackOK, Open, Fetching
<1>3. InWindow' = InWindow
    BY DEF InWindow
<1>4. WindowOK'
    BY <1>3 DEF WindowOK, Fetching, ToDomainEvents
<1>5. YieldedOK'
    <2>1. \A i \in 1..Len(yielded) : yielded[i] \in Event /\ yielded[i][1] \in Nat
                                     /\ yielded[i][1] < current_since
        BY EventFields DEF TypeOK, YieldedOK, Fetching
    <2>2. \A p \in pending' : p[1] \in Nat /\ current_since <= p[1]
        BY EventFields DEF ToDomainEvents, InWindow
    <2>3. \A i \in 1..Len(yielded), p \in pending' : Precedes(yielded[i], p)
        BY <2>1, <2>2 DEF Precedes, TypeOK
    <2>4. current_since <= until_stack[1] /\ until_stack[1] \in Nat
        BY DEF TypeOK, StackOK, Open, Fetching
    <2>5. \A i \in 1..Len(yielded) : yielded[i][1] <= until_stack[1]
        BY <2>1, <2>4 DEF TypeOK
    <2> QED
        BY <2>3, <2>5 DEF YieldedOK
<1> QED
    BY <1>1, <1>2, <1>4, <1>5

\* Only validated events of the requested window are kept, whatever was served.
LEMMA ReceiveIInv ==
    ASSUME IInv, Receive
    PROVE  IInv'
<1> USE DEF IInv, Receive, relayVars
<1>1. until_stack # <<>> /\ until_stack[1] \in Nat /\ Head(until_stack) = until_stack[1]
    BY DEF TypeOK, StackOK, Open, Fetching
<1>2. FetchUntil \in Int /\ FetchUntil <= until_stack[1]
    <2>1. CASE pc = "window"
        BY <2>1, <1>1 DEF FetchUntil
    <2>2. CASE pc = "boundary"
        BY <2>2, <1>1 DEF FetchUntil, WindowOK, TypeOK
    <2>3. CASE pc = "probe"
        BY <2>3, <1>1 DEF FetchUntil, WindowOK, TypeOK
    <2> QED
        BY <2>1, <2>2, <2>3 DEF Fetching
<1>3. filter \in DOMAIN Filters
    <2>1. filter \in Nat /\ filter # 0 /\ filter <= Len(Filters)
        BY DEF FetchDone, TypeOK
    <2>2. DOMAIN Filters = 1..Len(Filters) /\ Len(Filters) \in Nat
        OBVIOUS
    <2> QED
        BY <2>1, <2>2
<1>4. PICK served : \E kept \in Newest(Validated(served, filter, current_since, FetchUntil)
                              \ fetched, FetchLimit - Cardinality(fetched)) :
             fetched' = fetched \cup kept
    OBVIOUS
<1>5. PICK kept \in SUBSET Validated(served, filter, current_since, FetchUntil) :
             fetched' = fetched \cup kept
    BY <1>4 DEF Newest
<1>6. kept \subseteq InWindow
    <2> SUFFICES ASSUME NEW e \in kept PROVE e \in InWindow
        OBVIOUS
    <2>1. e \in Filters[filter] /\ e \in Authentic
          /\ current_since <= e[1] /\ e[1] <= FetchUntil
        BY DEF Validated, Between
    <2>2. e \in Event /\ e[1] \in Nat
        BY <2>1, EventFields, EventAssumption
    <2>3. e[1] <= until_stack[1]
        BY <2>1, <2>2, <1>1, <1>2
    <2> QED
        BY <2>1, <2>2, <2>3, <1>3 DEF InWindow
<1>7. InWindow' = InWindow
    BY DEF InWindow
<1>8. TypeOK'
    BY <1>5, <1>6 DEF TypeOK, InWindow
<1>9. StackOK'
    BY DEF StackOK, Open
<1>10. WindowOK'
    BY <1>5, <1>6, <1>7 DEF WindowOK, Fetching
<1>11. YieldedOK'
    BY DEF YieldedOK
<1> QED
    BY <1>8, <1>9, <1>10, <1>11

\* Starting a fetch of the open window, its boundary or the probe below it.
LEMMA StartFetchIInv ==
    ASSUME IInv, OpenWindow \/ BeginVerify \/ BeginProbe
    PROVE  IInv'
<1> USE DEF IInv, StartFetch, relayVars
<1>1. CASE OpenWindow
    <2> USE <1>1 DEF OpenWindow
    <2>1. TypeOK'
        BY DEF TypeOK, Pcs
    <2>2. StackOK'
        BY DEF StackOK, Open
    <2>3. WindowOK'
        BY DEF WindowOK, Fetching
    <2>4. YieldedOK'
        BY DEF YieldedOK
    <2> QED
        BY <2>1, <2>2, <2>3, <2>4
<1>2. CASE BeginVerify
    <2> USE <1>2 DEF BeginVerify
    <2>1. PICK e \in fetched : min_ts' = e[1]
        OBVIOUS
    <2>2. fetched \subseteq InWindow
        BY DEF WindowOK, Fetching
    <2>3. e \in Event /\ e[1] \in Nat /\ current_since <= e[1] /\ e[1] <= until_stack[1]
        BY <2>2, EventFields DEF InWindow
    <2>4. InWindow' = InWindow
        BY DEF InWindow
    <2>5. TypeOK'
        BY <2>1, <2>3 DEF TypeOK, Pcs
    <2>6. StackOK'
        BY DEF StackOK, Open
    <2>7. WindowOK'
        <3>1. current_since < until_stack[1]
            BY DEF TypeOK, StackOK, Open
        <3> QED
            BY <3>1, <2>1, <2>2, <2>3, <2>4 DEF WindowOK, Fetching
    <2>8. YieldedOK'
        BY DEF YieldedOK
    <2> QED
        BY <2>5, <2>6, <2>7, <2>8
<1>3. CASE BeginProbe
    <2> USE <1>3 DEF BeginProbe
    <2>1. InWindow' = InWindow
        BY DEF InWindow
    <2>2. TypeOK'
        BY DEF TypeOK, Pcs
    <2>3. StackOK'
        BY DEF StackOK, Open
    <2>4. WindowOK'
        BY <2>1 DEF WindowOK, Fetching, TypeOK
    <2>5. YieldedOK'
        BY DEF YieldedOK
    <2> QED
        BY <2>2, <2>3, <2>4, <2>5
<1> QED
    BY <1>1, <1>2, <1>3

\* The least pending event comes after everything yielded so far and before
\* everything still pending.
LEMMA YieldIInv ==
    ASSUME IInv, Yield
    PROVE  IInv'
<1> USE DEF IInv, Yield, relayVars, fetchVars
<1>1. PICK e \in pending :
          /\ \A f \in pending \ {e} : Precedes(e, f)
          /\ yielded' = Append(yielded, e)
          /\ pending' = pending \ {e}
    OBVIOUS
<1>2. until_stack # <<>> /\ e \in InWindow /\ e \notin Unstorable
    BY DEF StackOK, WindowOK, Open
<1>3. e \in Wanted /\ e \in Event /\ e[1] <= until_stack[1]
    BY <1>2, InWindowWanted DEF InWindow
<1>4. yielded \in Seq(Event) /\ Len(yielded) \in Nat
    BY DEF TypeOK
<1>5. /\ yielded' \in Seq(Event)
      /\ Len(yielded') = Len(yielded) + 1
      /\ \A i \in 1..Len(yielded) : yielded'[i] = yielded[i]
      /\ yielded'[Len(yielded) + 1] = e
    BY <1>1, <1>3, <1>4, AppendProperties
<1> DEFINE new == yielded'
           n == Len(yielded)
<1>6. new \in Seq(Event) /\ Len(new) = n + 1 /\ n \in Nat /\ new[n + 1] = e
      /\ \A i \in 1..n : new[i] = yielded[i]
    BY <1>4, <1>5
<1>7. TypeOK'
    <2>1. idle' \in BOOLEAN
        OBVIOUS
    <2>2. pending' \subseteq Event
        BY <1>1 DEF TypeOK
    <2> QED
        BY <1>5, <2>1, <2>2 DEF TypeOK
<1>8. StackOK'
    BY DEF StackOK, Open
<1>9. WindowOK'
    <2>1. InWindow' = InWindow
        BY DEF InWindow
    <2> QED
        BY <1>1, <2>1 DEF WindowOK, Fetching
<1>10. YieldedOK'
    <2>1. \A i \in 1..n : /\ yielded[i] \in Wanted
                          /\ yielded[i][1] <= until_stack[1]
                          /\ \A p \in pending : Precedes(yielded[i], p)
        BY DEF YieldedOK
    <2> HIDE DEF n, new
    <2>2. \A i \in 1..(n + 1) : i \in 1..n \/ i = n + 1
        BY <1>6
    <2>3. \A i \in 1..(n + 1) : /\ new[i] \in Wanted
                                /\ new[i][1] <= until_stack[1]
                                /\ \A p \in pending' : Precedes(new[i], p)
        BY <2>1, <2>2, <1>1, <1>3, <1>6
    <2>4. \A i, j \in 1..(n + 1) : i < j => Precedes(new[i], new[j])
        <3> SUFFICES ASSUME NEW i \in 1..(n + 1), NEW j \in 1..(n + 1), i < j
                     PROVE  Precedes(new[i], new[j])
            OBVIOUS
        <3>1. i \in 1..n /\ new[i] = yielded[i]
            BY <1>6
        <3>2. CASE j = n + 1
            BY <3>1, <3>2, <2>1, <1>1, <1>6
        <3>3. CASE j # n + 1
            <4>1. j \in 1..n /\ new[j] = yielded[j]
                BY <3>3, <1>6
            <4> QED
                BY <4>1, <3>1 DEF YieldedOK, n
        <3> QED
            BY <3>2, <3>3
    <2> QED
        BY <2>3, <2>4, <1>6 DEF YieldedOK, new
<1> QED
    BY <1>7, <1>8, <1>9, <1>10

\* Steps that neither move the window nor touch what was fetched or yielded.
LEMMA OtherIInv ==
    ASSUME IInv, Finish \/ IdleTimeout \/ FetchError \/ RelayChange \/ UNCHANGED vars
    PROVE  IInv'
<1> USE DEF IInv, relayVars, fetchVars
<1>1. /\ UNCHANGED <<until_stack, current_since, filter, fetched, events, min_ts,
                     boundary, pending, idle, yielded>>
      /\ \/ UNCHANGED pc
         \/ pc' = "done" /\ pc = "loop" /\ until_stack = <<>>
         \/ pc' \in {"failed", "abandoned"} /\ (pc = "loop" \/ Fetching)
    BY DEF Finish, IdleTimeout, FetchError, RelayChange, vars
<1>2. store' \subseteq Event /\ promised' \subseteq store'
    BY EventAssumption DEF TypeOK, Finish, IdleTimeout, FetchError, RelayChange, vars
<1>3. TypeOK'
    BY <1>1, <1>2 DEF TypeOK, Pcs
<1>4. StackOK'
    BY <1>1 DEF StackOK, Open
<1>5. InWindow' = InWindow
    BY <1>1 DEF InWindow
<1>6. WindowOK'
    BY <1>1, <1>5 DEF WindowOK, Fetching
<1>7. YieldedOK'
    BY <1>1 DEF YieldedOK, Fetching
<1> QED
    BY <1>3, <1>4, <1>6, <1>7

-----------------------------------------------------------------------------
(* The theorems *)

\* Every step of the generator and of the relay preserves the invariant.
LEMMA NextIInv == IInv /\ [Next]_vars => IInv'
<1> SUFFICES ASSUME IInv, [Next]_vars PROVE IInv'
    OBVIOUS
<1>1. CASE OpenWindow \/ BeginVerify \/ BeginProbe
    BY <1>1, StartFetchIInv
<1>2. CASE Receive
    BY <1>2, ReceiveIInv
<1>3. CASE EmptyWindow
    <2>1. until_stack # <<>> /\ pending = {} /\ until_stack[1] \in Nat
          /\ current_since <= until_stack[1]
        BY <1>3, StackBound DEF IInv, EmptyWindow, StackOK, WindowOK, Open
    <2>2. \A i \in 1..Len(yielded) : yielded[i][1] <= until_stack[1]
        <3> TAKE i \in 1..Len(yielded)
        <3>1. yielded[i] \in Event /\ yielded[i][1] < current_since
            BY <1>3 DEF IInv, TypeOK, YieldedOK, EmptyWindow
        <3> QED
            BY <3>1, <2>1, EventFields DEF IInv, TypeOK
    <2> QED
        BY <1>3, <2>1, <2>2, AdvanceIInv DEF EmptyWindow
<1>4. CASE WindowYielded
    <2>1. until_stack # <<>> /\ \A i \in 1..Len(yielded) : yielded[i][1] <= until_stack[1]
        BY <1>4 DEF IInv, StackOK, YieldedOK, Open, WindowYielded
    <2> QED
        BY <1>4, <2>1, AdvanceIInv DEF WindowYielded
<1>5. CASE BoundaryInconsistent \/ ProbeFound
    BY <1>5, SplitIInv DEF BoundaryInconsistent, ProbeFound
<1>6. CASE SingleSecond
    <2>1. Fetching /\ fetched \subseteq InWindow
        BY <1>6 DEF IInv, SingleSecond, WindowOK, Fetching
    <2> QED
        BY <1>6, <2>1, AcceptIInv DEF SingleSecond
<1>7. CASE BoundaryAtStart
    <2>1. Fetching /\ Combined(fetched) \subseteq InWindow
        BY <1>7 DEF IInv, BoundaryAtStart, WindowOK, Fetching, Combined
    <2> QED
        BY <1>7, <2>1, AcceptIInv DEF BoundaryAtStart
<1>8. CASE ProbeEmpty
    <2>1. Fetching /\ Combined(boundary) \subseteq InWindow
        BY <1>8 DEF IInv, ProbeEmpty, WindowOK, Fetching, Combined
    <2> QED
        BY <1>8, <2>1, AcceptIInv DEF ProbeEmpty
<1>9. CASE Yield
    BY <1>9, YieldIInv
<1>10. CASE Finish \/ IdleTimeout \/ FetchError \/ RelayChange \/ UNCHANGED vars
    BY <1>10, OtherIInv
<1> QED
    BY <1>1, <1>2, <1>3, <1>4, <1>5, <1>6, <1>7, <1>8, <1>9, <1>10
       DEF Next, Step, Ended

\* The inductive invariant holds in every reachable state.
THEOREM Invariance == Spec => []IInv
BY InitIInv, NextIInv, PTL DEF Spec

\* The generator's variables keep their types, whatever the relay answers.
THEOREM TypeCorrect == Spec => []TypeOK
<1>1. IInv => TypeOK
    BY DEF IInv
<1> QED
    BY <1>1, Invariance, PTL

\* For every relay, filter list, range and limit: events are yielded in
\* strictly ascending (created_at, id) order, hence never twice.
THEOREM OrderCorrect == Spec => []AscendingOrder
<1>1. IInv => AscendingOrder
    BY DEF IInv, TypeOK, YieldedOK, AscendingOrder
<1> QED
    BY <1>1, Invariance, PTL

\* For every relay: only verified events that match a filter and lie in the
\* requested range are yielded.
THEOREM OnlyWantedCorrect == Spec => []OnlyWanted
<1>1. IInv => OnlyWanted
    BY DEF IInv, TypeOK, YieldedOK, OnlyWanted, SetOf
<1> QED
    BY <1>1, Invariance, PTL

\* For every relay: a normal return means the whole range was walked.
THEOREM RangeCorrect == Spec => []RangeCovered
<1>1. IInv => RangeCovered
    <2> SUFFICES ASSUME IInv PROVE RangeCovered
        OBVIOUS
    <2>1. pc = "done" /\ StartTime <= EndTime => current_since = EndTime + 1
        BY DEF IInv, StackOK
    <2>2. \A i \in DOMAIN yielded : yielded[i][1] <= EndTime
        BY DEF IInv, TypeOK, YieldedOK, Wanted
    <2> QED
        BY <2>1, <2>2 DEF RangeCovered
<1> QED
    BY <1>1, Invariance, PTL

-----------------------------------------------------------------------------
(* An honest relay and one filter *)

\* The relay answers with its newest matching events, and the answer to a
\* request is not shared between filters.
Honest == RelayKind = "honest" /\ Len(Filters) = 1

Cap == IF Limit < RelayCap THEN Limit ELSE RelayCap

\* Promised events between two seconds.
Promised(since, until) == {p \in promised : since <= p[1] /\ p[1] <= until}

\* What a fetch that has ended says about the promised events it asked for:
\* an empty answer means there are none; the missing ones are not newer than
\* any it holds, and not of its last second unless it is a probe.
Answered ==
    /\ fetched = {} => Promised(current_since, FetchUntil) = {}
    /\ \A p \in Promised(current_since, FetchUntil) \ fetched :
          /\ \A k \in fetched : p[1] <= k[1]
          /\ pc # "probe" => p[1] # FetchUntil

\* The one filter is still to be asked, or was.
FetchOK == Fetching => (filter = 1 /\ fetched = {}) \/ (filter = 2 /\ Answered)

\* During verification what is missing from the window lies at min_ts or
\* below; during the probe the events at min_ts are in the boundary answer.
VerifyOK ==
    /\ pc \in {"boundary", "probe"} =>
          \A p \in Promised(current_since, until_stack[1]) : p \in events \/ p[1] <= min_ts
    /\ pc = "probe" => \A p \in promised : p[1] = min_ts => p \in boundary

\* An accepted window is complete, and so is everything below the open one.
DeliveredOK ==
    /\ pc = "yield" => Promised(current_since, until_stack[1]) \subseteq pending \cup SetOf(yielded)
    /\ \A p \in promised : p[1] < current_since => p \in SetOf(yielded)

\* The relay's store stays within what one answer can carry per second.
StoreOK == SparseSeconds(store) /\ promised \subseteq Wanted

\* The inductive invariant over an honest relay.
HInv == IInv /\ StoreOK /\ FetchOK /\ VerifyOK /\ DeliveredOK

-----------------------------------------------------------------------------
(* What the newest events of a set tell about the others *)

\* The n newest: nothing left out is newer, nothing is left out of a set of
\* at most n, and there are none only if the set is empty.
LEMMA NewestFacts ==
    ASSUME NEW S, IsFiniteSet(S), NEW n \in Nat, NEW K \in Newest(S, n)
    PROVE  /\ K \subseteq S /\ IsFiniteSet(K) /\ Cardinality(K) <= n
           /\ \A x \in S \ K, k \in K : x[1] <= k[1]
           /\ Cardinality(S) <= n => K = S
           /\ n # 0 /\ K = {} => S = {}
<1>1. /\ K \subseteq S
      /\ Cardinality(K) = IF Cardinality(S) < n THEN Cardinality(S) ELSE n
      /\ \A k \in K, x \in S \ K : x[1] <= k[1]
    BY DEF Newest
<1>2. Cardinality(S) \in Nat
    BY FS_CardinalityType
<1>3. /\ IsFiniteSet(K) /\ Cardinality(K) <= Cardinality(S)
      /\ Cardinality(K) = Cardinality(S) => K = S
    BY <1>1, FS_Subset
<1>4. Cardinality(K) <= n
    BY <1>1, <1>2
<1>5. Cardinality(S) <= n => K = S
    BY <1>1, <1>2, <1>3
<1>6. n # 0 /\ K = {} => S = {}
    <2>1. K = {} => Cardinality(K) = 0
        BY FS_EmptySet
    <2>2. Cardinality(S) = 0 => S = {}
        BY FS_EmptySet
    <2> QED
        BY <1>1, <1>2, <2>1, <2>2
<1> QED
    BY <1>1, <1>3, <1>4, <1>5, <1>6

\* If the last second of a set has at most n members, the n newest hold them.
LEMMA LastSecond ==
    ASSUME NEW S, IsFiniteSet(S), NEW n \in Nat, NEW K \in Newest(S, n), NEW t \in Nat,
           \A x \in S : x[1] \in Nat /\ x[1] <= t,
           Cardinality({x \in S : x[1] = t}) <= n
    PROVE  \A x \in S : x[1] = t => x \in K
<1> DEFINE T == {x \in S : x[1] = t}
<1> SUFFICES ASSUME NEW x \in S, x[1] = t, x \notin K PROVE FALSE
    OBVIOUS
<1>1. /\ K \subseteq S /\ IsFiniteSet(K)
      /\ \A y \in S \ K, k \in K : y[1] <= k[1]
      /\ Cardinality(S) <= n => K = S
    BY NewestFacts
<1>2. \A k \in K : k[1] = t
    BY <1>1
<1>3. K \cup {x} \subseteq T
    BY <1>1, <1>2
<1>4. IsFiniteSet(T)
    BY FS_Subset
<1> HIDE DEF T
<1>5. Cardinality(K \cup {x}) <= Cardinality(T) /\ Cardinality(T) \in Nat
    BY <1>3, <1>4, FS_Subset, FS_CardinalityType
<1>6. Cardinality(K \cup {x}) = Cardinality(K) + 1
    BY <1>1, FS_AddElement
<1>7. Cardinality(S) \in Nat /\ Cardinality(K) \in Nat
    BY <1>1, FS_CardinalityType
<1>8. Cardinality(K) = n
    <2>1. ~(Cardinality(S) <= n)
        BY <1>1
    <2>2. Cardinality(K) = IF Cardinality(S) < n THEN Cardinality(S) ELSE n
        BY DEF Newest
    <2> QED
        BY <1>7, <2>1, <2>2
<1>9. Cardinality(T) <= n
    BY DEF T
<1> QED
    BY <1>5, <1>6, <1>7, <1>8, <1>9

-----------------------------------------------------------------------------
(* Fetches from an honest relay *)

\* How much one answer holds: the smaller of the request's and the relay's
\* limits.
Carried == IF FetchLimit < RelayCap THEN FetchLimit ELSE RelayCap

Hits == Validated(store, 1, current_since, FetchUntil)

\* The bounds of a fetch, and what it asks for.
LEMMA FetchFacts ==
    ASSUME HInv, Honest, Fetching
    PROVE  /\ FetchLimit \in Nat \ {0} /\ Carried \in Nat \ {0} /\ Carried <= FetchLimit
           /\ FetchUntil \in Int /\ IsFiniteSet(Hits)
           /\ pc # "probe" =>
                 FetchUntil \in StartTime..EndTime /\ current_since <= FetchUntil
           /\ \A e \in Hits : e \in store /\ e[1] \in Nat /\ e[1] <= FetchUntil
           /\ Promised(current_since, FetchUntil) \subseteq Hits
<1>1. FetchLimit \in Nat \ {0}
    BY RequestAssumption DEF FetchLimit
<1>2. Carried \in Nat \ {0} /\ Carried <= FetchLimit
    BY <1>1, RelayAssumption DEF Carried
<1>3. /\ until_stack # <<>> /\ until_stack[1] \in Nat /\ Head(until_stack) = until_stack[1]
      /\ until_stack[1] <= EndTime
    BY StackBound DEF HInv, IInv, TypeOK, StackOK, Open, Fetching
<1>4. /\ FetchUntil \in Int
      /\ pc # "probe" => FetchUntil \in StartTime..EndTime /\ current_since <= FetchUntil
    <2>1. CASE pc = "window"
        BY <2>1, <1>3, RequestAssumption DEF FetchUntil, HInv, IInv, TypeOK, StackOK
    <2>2. CASE pc = "boundary"
        BY <2>2, <1>3, RequestAssumption DEF FetchUntil, HInv, IInv, TypeOK, StackOK, WindowOK
    <2>3. CASE pc = "probe"
        BY <2>3, <1>3 DEF FetchUntil, HInv, IInv, TypeOK, WindowOK
    <2> QED
        BY <2>1, <2>2, <2>3 DEF Fetching
<1>5. \A e \in Hits : e \in store /\ e[1] \in Nat /\ e[1] <= FetchUntil
    BY EventFields DEF Hits, Validated, Between, HInv, IInv, TypeOK
<1>6. IsFiniteSet(Hits)
    <2>1. Hits \subseteq Event
        BY <1>5 DEF HInv, IInv, TypeOK
    <2> QED
        BY <2>1, EventAssumption, FS_Subset
<1>7. Promised(current_since, FetchUntil) \subseteq Hits
    <2> SUFFICES ASSUME NEW p \in Promised(current_since, FetchUntil) PROVE p \in Hits
        OBVIOUS
    <2>1. p \in promised /\ p \in store /\ p \in Wanted
        BY DEF Promised, HInv, StoreOK, IInv, TypeOK
    <2>2. p \in Authentic /\ p \in Filters[1]
        <3>1. DOMAIN Filters = {1}
            BY RequestAssumption DEF Honest
        <3> QED
            BY <2>1, <3>1 DEF Wanted
    <2> QED
        BY <2>1, <2>2 DEF Promised, Hits, Validated, Between
<1> QED
    BY <1>1, <1>2, <1>4, <1>5, <1>6, <1>7

\* The generator keeps exactly what the relay serves: its newest events.
LEMMA HonestReceive ==
    ASSUME HInv, Honest, Receive
    PROVE  filter' = 2 /\ fetched' \in Newest(Hits, Carried)
<1>1. Fetching /\ ~FetchDone
    BY DEF Receive
<1>2. filter = 1 /\ fetched = {}
    <2>1. Len(Filters) = 1 /\ ~(filter > Len(Filters))
        BY <1>1 DEF Honest, FetchDone
    <2> QED
        BY <1>1, <2>1 DEF HInv, FetchOK
<1>3. filter' = 2
    BY <1>2 DEF Receive
<1>4. PICK served \in Newest(Hits, Carried) :
          \E kept \in Newest(Validated(served, 1, current_since, FetchUntil) \ {},
                             FetchLimit - Cardinality({})) : fetched' = {} \cup kept
    <2>1. Served(1, current_since, FetchUntil, FetchLimit) = Newest(Hits, Carried)
        BY DEF Served, Honest, Hits, Carried
    <2> QED
        BY <1>2, <2>1 DEF Receive
<1>5. served \subseteq Hits /\ IsFiniteSet(served) /\ Cardinality(served) <= Carried
    BY <1>1, FetchFacts, NewestFacts
<1>6. Validated(served, 1, current_since, FetchUntil) \ {} = served
    BY <1>5 DEF Hits, Validated, Between
<1>7. FetchLimit - Cardinality({}) = FetchLimit
    BY <1>1, FetchFacts, FS_EmptySet
<1>8. fetched' \in Newest(served, FetchLimit)
    BY <1>4, <1>6, <1>7
<1>9. Cardinality(served) <= FetchLimit
    BY <1>1, <1>5, FetchFacts, FS_CardinalityType
<1>10. fetched' = served
    BY <1>1, <1>5, <1>8, <1>9, FetchFacts, NewestFacts
<1> QED
    BY <1>3, <1>4, <1>10

\* The answer to the one filter is what a fetch that has ended leaves.
LEMMA ReceiveAnswered == ASSUME HInv, Honest, Receive PROVE Answered'
<1>1. Fetching /\ UNCHANGED <<store, promised, pc, until_stack, current_since, min_ts>>
    BY DEF Receive, relayVars
<1>2. FetchUntil' = FetchUntil
    BY <1>1 DEF FetchUntil
<1>3. Promised(current_since, FetchUntil)' = Promised(current_since, FetchUntil)
    BY <1>1, <1>2 DEF Promised
<1>4. fetched' \in Newest(Hits, Carried)
    BY HonestReceive
<1>5. /\ Carried \in Nat \ {0} /\ IsFiniteSet(Hits)
      /\ Promised(current_since, FetchUntil) \subseteq Hits
      /\ \A e \in Hits : e \in store /\ e[1] \in Nat /\ e[1] <= FetchUntil
      /\ pc # "probe" => FetchUntil \in StartTime..EndTime
    BY <1>1, FetchFacts
<1> HIDE DEF Hits, Carried
<1>6. /\ \A x \in Hits \ fetched', k \in fetched' : x[1] <= k[1]
      /\ fetched' = {} => Hits = {}
    BY <1>4, <1>5, NewestFacts
<1>7. ASSUME pc # "probe", NEW p \in Hits, p[1] = FetchUntil PROVE p \in fetched'
    <2> DEFINE T == {x \in Hits : x[1] = FetchUntil}
               U == {x \in store : x[1] = FetchUntil}
    <2>1. FetchUntil \in StartTime..EndTime /\ FetchUntil \in Nat
        BY <1>5, <1>7, RequestAssumption
    <2>2. Carried = IF Limit < RelayCap THEN Limit ELSE RelayCap
        BY <1>7 DEF Carried, FetchLimit
    <2>3. Cardinality(U) <= Carried
        BY <2>1, <2>2 DEF HInv, StoreOK, SparseSeconds
    <2>4. IsFiniteSet(U) /\ T \subseteq U
        <3>1. U \subseteq Event
            BY DEF HInv, IInv, TypeOK
        <3> QED
            BY <1>5, <3>1, EventAssumption, FS_Subset
    <2> HIDE DEF U
    <2>5. Cardinality(T) <= Cardinality(U) /\ Cardinality(T) \in Nat /\ Cardinality(U) \in Nat
        BY <2>4, FS_Subset, FS_CardinalityType
    <2>6. Cardinality(T) <= Carried
        BY <1>5, <2>3, <2>5
    <2> QED
        BY <1>4, <1>5, <1>7, <2>1, <2>6, LastSecond
<1> QED
    BY <1>1, <1>2, <1>3, <1>5, <1>6, <1>7 DEF Answered

\* A fetch only ends once the filter was asked.
LEMMA DoneAnswered == ASSUME HInv, Honest, FetchDone PROVE Answered
<1>1. Fetching
    BY DEF FetchDone
<1>2. ~(filter = 1 /\ fetched = {})
    <2> SUFFICES ASSUME filter = 1, fetched = {} PROVE FALSE
        OBVIOUS
    <2>1. Cardinality(fetched) = 0 /\ FetchLimit \in Nat \ {0}
        BY <1>1, FetchFacts, FS_EmptySet
    <2> QED
        BY <2>1 DEF FetchDone, Honest
<1> QED
    BY <1>1, <1>2 DEF HInv, FetchOK

-----------------------------------------------------------------------------
(* Completeness is inductive *)

\* The parts that IInv leaves open.
HParts == StoreOK /\ FetchOK /\ VerifyOK /\ DeliveredOK

\* Seconds of promised events are natural numbers in the range.
LEMMA PromisedFacts ==
    ASSUME HInv
    PROVE  \A p \in promised : p[1] \in Nat /\ p[1] <= EndTime /\ StartTime <= p[1]
                               /\ p \notin Unstorable
BY EventFields DEF HInv, StoreOK, IInv, TypeOK, Wanted

\* The open window.
LEMMA WindowFacts ==
    ASSUME HInv, Open
    PROVE  /\ until_stack # <<>> /\ Head(until_stack) = until_stack[1]
           /\ until_stack[1] \in Nat /\ current_since \in Nat
BY DEF HInv, IInv, TypeOK, StackOK

\* At the start nothing was asked, and the relay has what it holds.
LEMMA InitHParts == ASSUME Init, Honest PROVE HParts
<1>1. SparseSeconds(store) /\ promised \subseteq Wanted
    BY DEF Init, Honest
<1>2. pc \in {"done", "loop"} /\ promised \subseteq Wanted /\ current_since = StartTime
    BY <1>1 DEF Init
<1>3. \A p \in promised : ~(p[1] < current_since)
    BY <1>2, EventFields, EventAssumption, RequestAssumption DEF Wanted
<1> QED
    BY <1>1, <1>2, <1>3 DEF HParts, StoreOK, FetchOK, Fetching, VerifyOK, DeliveredOK

\* The relay may change its mind about what it holds, within its limits.
LEMMA RelayChangeH == ASSUME HInv, RelayChange PROVE HParts'
<1>1. /\ promised' = promised \cap store'
      /\ UNCHANGED <<pc, until_stack, current_since, filter, fetched, events, min_ts,
                     boundary, pending, yielded>>
    BY DEF RelayChange, fetchVars
<1>2. SparseSeconds(store')
    <2>1. PICK e \in Authentic : \/ SparseSeconds(store \cup {e}) /\ store' = store \cup {e}
                                 \/ store' = store \ {e}
        BY DEF RelayChange
    <2>2. CASE SparseSeconds(store \cup {e}) /\ store' = store \cup {e}
        BY <2>2
    <2>3. CASE store' = store \ {e}
        <3> SUFFICES ASSUME NEW t \in StartTime..EndTime
                     PROVE  Cardinality({x \in store' : x[1] = t}) <= Cap
            BY DEF SparseSeconds, Cap
        <3> DEFINE T == {x \in store' : x[1] = t}
                   U == {x \in store : x[1] = t}
        <3>1. T \subseteq U /\ U \subseteq Event
            BY <2>3 DEF HInv, IInv, TypeOK
        <3>2. Cardinality(U) <= Cap
            BY DEF HInv, StoreOK, SparseSeconds, Cap
        <3> HIDE DEF T, U
        <3>3. IsFiniteSet(U)
            BY <3>1, EventAssumption, FS_Subset
        <3>4. Cardinality(T) <= Cardinality(U) /\ Cardinality(T) \in Nat /\ Cardinality(U) \in Nat
            BY <3>1, <3>3, FS_Subset, FS_CardinalityType
        <3>5. Cap \in Nat
            BY RequestAssumption, RelayAssumption DEF Cap
        <3>6. Cardinality(T) <= Cap
            BY <3>2, <3>4, <3>5
        <3> QED
            BY <3>6 DEF T
    <2> QED
        BY <2>1, <2>2, <2>3
<1>3. StoreOK'
    BY <1>1, <1>2 DEF HInv, StoreOK, SparseSeconds, Wanted
<1>4. FetchUntil' = FetchUntil
    BY <1>1 DEF FetchUntil
<1>5. promised' \subseteq promised
    BY <1>1
<1>6. FetchOK'
    BY <1>1, <1>4, <1>5 DEF HInv, FetchOK, Fetching, Answered, Promised
<1>7. VerifyOK'
    BY <1>1, <1>5 DEF HInv, VerifyOK, Promised
<1>8. DeliveredOK'
    BY <1>1, <1>5 DEF HInv, DeliveredOK, Promised
<1> QED
    BY <1>3, <1>6, <1>7, <1>8 DEF HParts

\* A fetch begins: nothing has been answered.
LEMMA StartFetchH ==
    ASSUME HInv, Honest, OpenWindow \/ BeginVerify \/ BeginProbe
    PROVE  HParts'
<1>1. /\ pc' \in {"window", "boundary", "probe"} /\ filter' = 1 /\ fetched' = {}
      /\ UNCHANGED <<store, promised, until_stack, current_since, yielded>>
    BY DEF OpenWindow, BeginVerify, BeginProbe, StartFetch, relayVars
<1>2. StoreOK' /\ FetchOK' /\ DeliveredOK'
    BY <1>1 DEF HInv, StoreOK, SparseSeconds, Wanted, FetchOK, DeliveredOK
<1>3. VerifyOK'
    <2>1. CASE OpenWindow
        BY <2>1 DEF OpenWindow, VerifyOK
    <2>2. CASE BeginVerify
        <3>1. PICK e \in fetched : min_ts' = e[1]
            BY <2>2 DEF BeginVerify
        <3>2. pc = "window" /\ pc' = "boundary" /\ events' = fetched /\ FetchDone
            BY <2>2 DEF BeginVerify
        <3>3. FetchUntil = until_stack[1]
            BY <3>2, WindowFacts DEF FetchUntil, Open
        <3>4. \A p \in Promised(current_since, until_stack[1]) : p \in fetched \/ p[1] <= e[1]
            BY <3>2, <3>3, DoneAnswered DEF Answered
        <3> QED
            BY <1>1, <3>1, <3>2, <3>4 DEF VerifyOK, Promised
    <2>3. CASE BeginProbe
        <3>1. /\ pc = "boundary" /\ pc' = "probe" /\ FetchDone /\ boundary' = fetched
              /\ UNCHANGED <<events, min_ts>> /\ min_ts > current_since
            BY <2>3 DEF BeginProbe
        <3>2. FetchUntil = min_ts
            BY <3>1 DEF FetchUntil
        <3>3. \A p \in promised : p[1] = min_ts => p \in fetched
            <4> SUFFICES ASSUME NEW p \in promised, p[1] = min_ts PROVE p \in fetched
                OBVIOUS
            <4>1. min_ts \in Nat /\ current_since \in Nat
                BY DEF HInv, IInv, TypeOK
            <4>2. p \in Promised(current_since, FetchUntil)
                BY <3>1, <3>2, <4>1 DEF Promised
            <4> QED
                BY <3>1, <3>2, <4>2, DoneAnswered DEF Answered
        <3>4. \A p \in Promised(current_since, until_stack[1]) : p \in events \/ p[1] <= min_ts
            BY <3>1 DEF HInv, VerifyOK
        <3> QED
            BY <1>1, <3>1, <3>3, <3>4 DEF VerifyOK, Promised
    <2> QED
        BY <2>1, <2>2, <2>3
<1> QED
    BY <1>2, <1>3 DEF HParts

\* Steps after which no window is open, and nothing below them has changed.
LEMMA QuietH ==
    ASSUME HInv, UNCHANGED <<store, promised, yielded>>,
           pc' \notin {"window", "boundary", "probe", "yield"},
           \A p \in promised : p[1] < current_since' => p \in SetOf(yielded)
    PROVE  HParts'
<1>1. StoreOK'
    BY DEF HInv, StoreOK, SparseSeconds, Wanted
<1>2. FetchOK' /\ VerifyOK' /\ DeliveredOK'
    BY DEF FetchOK, Fetching, VerifyOK, DeliveredOK
<1> QED
    BY <1>1, <1>2 DEF HParts

\* A finished window held nothing that was not yielded.
LEMMA AdvanceH ==
    ASSUME HInv, Open, AdvanceWindow, pc' = "loop", UNCHANGED <<store, promised, yielded>>,
           Promised(current_since, until_stack[1]) \subseteq SetOf(yielded)
    PROVE  HParts'
<1>1. current_since' = until_stack[1] + 1 /\ until_stack[1] \in Nat /\ current_since \in Nat
    BY WindowFacts DEF AdvanceWindow
<1>2. ASSUME NEW p \in promised, p[1] < current_since' PROVE p \in SetOf(yielded)
    <2>1. p[1] \in Nat
        BY PromisedFacts
    <2>2. CASE p[1] < current_since
        BY <2>2 DEF HInv, DeliveredOK
    <2>3. CASE ~(p[1] < current_since)
        <3>1. p \in Promised(current_since, until_stack[1])
            BY <1>1, <1>2, <2>1, <2>3 DEF Promised
        <3> QED
            BY <3>1
    <2> QED
        BY <2>2, <2>3
<1> QED
    BY <1>2, QuietH

\* A window is accepted when all that is promised in it was fetched.
LEMMA AcceptH ==
    ASSUME HInv, NEW S, AcceptEvents(S), Promised(current_since, until_stack[1]) \subseteq S
    PROVE  HParts'
<1>1. /\ pending' = S \ Unstorable /\ pc' = "yield"
      /\ UNCHANGED <<store, promised, until_stack, current_since, yielded>>
    BY DEF AcceptEvents, ToDomainEvents, relayVars
<1>2. StoreOK'
    BY <1>1 DEF HInv, StoreOK, SparseSeconds, Wanted
<1>3. FetchOK' /\ VerifyOK'
    BY <1>1 DEF FetchOK, Fetching, VerifyOK
<1>4. Promised(current_since, until_stack[1]) \subseteq pending'
    BY <1>1, PromisedFacts DEF Promised
<1>5. DeliveredOK'
    BY <1>1, <1>4 DEF HInv, DeliveredOK, Promised
<1> QED
    BY <1>2, <1>3, <1>5 DEF HParts

\* The windows that are accepted are complete.
LEMMA CompleteWindow ==
    ASSUME HInv, Honest, SingleSecond \/ BoundaryAtStart \/ ProbeEmpty
    PROVE  HParts'
<1>1. Open /\ Fetching /\ FetchDone
    BY DEF SingleSecond, BoundaryAtStart, ProbeEmpty, Open, Fetching
<1>2. Answered
    BY <1>1, DoneAnswered
<1>3. until_stack[1] \in Nat /\ current_since \in Nat /\ min_ts \in Nat
    BY <1>1, WindowFacts DEF HInv, IInv, TypeOK
<1>4. \A p \in Promised(current_since, until_stack[1]) :
          /\ p \in promised /\ p[1] \in Nat
          /\ current_since <= p[1] /\ p[1] <= until_stack[1]
    BY PromisedFacts DEF Promised
<1>5. CASE SingleSecond
    <2>1. pc = "window" /\ current_since = until_stack[1] /\ FetchUntil = until_stack[1]
        BY <1>1, <1>5, WindowFacts DEF SingleSecond, FetchUntil
    <2>2. \A p \in Promised(current_since, until_stack[1]) : p[1] = FetchUntil
        BY <1>3, <1>4, <2>1
    <2>3. Promised(current_since, until_stack[1]) \subseteq fetched
        BY <1>2, <2>1, <2>2 DEF Answered
    <2> QED
        BY <1>5, <2>3, AcceptH DEF SingleSecond
<1>6. CASE BoundaryAtStart
    <2>1. pc = "boundary" /\ min_ts = current_since /\ FetchUntil = min_ts
        BY <1>6 DEF BoundaryAtStart, FetchUntil
    <2>2. ASSUME NEW p \in Promised(current_since, until_stack[1]) PROVE p \in Combined(fetched)
        <3>1. CASE p[1] = min_ts
            <4>1. p \in Promised(current_since, FetchUntil)
                BY <1>3, <1>4, <2>1, <2>2, <3>1 DEF Promised
            <4>2. p \in fetched
                BY <1>2, <2>1, <3>1, <4>1 DEF Answered
            <4> QED
                BY <4>2 DEF Combined
        <3>2. CASE p[1] # min_ts
            <4>1. ~(p[1] <= min_ts)
                BY <1>3, <1>4, <2>1, <2>2, <3>2
            <4>2. p \in events
                BY <2>1, <2>2, <4>1 DEF HInv, VerifyOK
            <4> QED
                BY <3>2, <4>2 DEF Combined
        <3> QED
            BY <3>1, <3>2
    <2> QED
        BY <1>6, <2>2, AcceptH DEF BoundaryAtStart
<1>7. CASE ProbeEmpty
    <2>1. pc = "probe" /\ fetched = {} /\ FetchUntil = min_ts - 1
        BY <1>7 DEF ProbeEmpty, FetchUntil
    <2>2. Promised(current_since, min_ts - 1) = {}
        BY <1>2, <2>1 DEF Answered
    <2>3. ASSUME NEW p \in Promised(current_since, until_stack[1]) PROVE p \in Combined(boundary)
        <3>1. CASE p[1] = min_ts
            <4>1. p \in boundary
                BY <1>4, <2>1, <2>3, <3>1 DEF HInv, VerifyOK
            <4> QED
                BY <4>1 DEF Combined
        <3>2. CASE p[1] # min_ts
            <4>1. ~(p[1] <= min_ts - 1)
                BY <1>4, <2>2, <2>3 DEF Promised
            <4>2. ~(p[1] <= min_ts)
                BY <1>3, <1>4, <2>3, <3>2, <4>1
            <4>3. p \in events
                BY <2>1, <2>3, <4>2 DEF HInv, VerifyOK
            <4> QED
                BY <3>2, <4>3 DEF Combined
        <3> QED
            BY <3>1, <3>2
    <2> QED
        BY <1>7, <2>3, AcceptH DEF ProbeEmpty
<1> QED
    BY <1>5, <1>6, <1>7

\* The members of a sequence after an event was appended.
LEMMA SetOfAppend ==
    ASSUME NEW s \in Seq(Event), NEW e \in Event
    PROVE  SetOf(Append(s, e)) = SetOf(s) \cup {e}
<1> DEFINE t == Append(s, e)
           n == Len(s)
<1>1. /\ n \in Nat /\ DOMAIN s = 1..n /\ DOMAIN t = 1..(n + 1)
      /\ t[n + 1] = e /\ \A i \in 1..n : t[i] = s[i]
    BY AppendProperties
<1> HIDE DEF t, n
<1>2. \A i \in 1..(n + 1) : i \in 1..n \/ i = n + 1
    BY <1>1
<1>3. 1..n \subseteq 1..(n + 1) /\ n + 1 \in 1..(n + 1)
    BY <1>1
<1>4. \A x \in SetOf(t) : x \in SetOf(s) \cup {e}
    BY <1>1, <1>2 DEF SetOf
<1>5. \A x \in SetOf(s) : x \in SetOf(t)
    BY <1>1, <1>3 DEF SetOf
<1>6. e \in SetOf(t)
    BY <1>1, <1>3 DEF SetOf
<1> QED
    BY <1>4, <1>5, <1>6 DEF t

\* A yielded event leaves `pending' for `yielded'.
LEMMA YieldH == ASSUME HInv, Yield PROVE HParts'
<1>1. PICK e \in pending : yielded' = Append(yielded, e) /\ pending' = pending \ {e}
    BY DEF Yield
<1>2. /\ pc = "yield"
      /\ UNCHANGED <<store, promised, pc, until_stack, current_since>>
    BY DEF Yield, relayVars
<1>3. SetOf(yielded') = SetOf(yielded) \cup {e}
    BY <1>1, SetOfAppend DEF HInv, IInv, TypeOK
<1>4. StoreOK' /\ FetchOK' /\ VerifyOK'
    BY <1>2 DEF HInv, StoreOK, SparseSeconds, Wanted, FetchOK, Fetching, VerifyOK
<1>5. DeliveredOK'
    BY <1>1, <1>2, <1>3 DEF HInv, DeliveredOK, Promised
<1> QED
    BY <1>4, <1>5 DEF HParts

\* Every step over an honest relay preserves the invariant.
LEMMA NextHInv == ASSUME HInv, Honest, [Next]_vars PROVE HInv'
<1> SUFFICES HParts'
    BY NextIInv DEF HInv, HParts
<1>1. CASE Receive
    <2>1. UNCHANGED <<store, promised, pc, until_stack, current_since, events, min_ts, boundary,
                      pending, yielded>> /\ Fetching
        BY <1>1 DEF Receive, relayVars
    <2>2. StoreOK' /\ VerifyOK' /\ DeliveredOK'
        BY <2>1 DEF HInv, StoreOK, SparseSeconds, Wanted, VerifyOK, DeliveredOK, Promised
    <2>3. FetchOK'
        BY <1>1, HonestReceive, ReceiveAnswered DEF FetchOK
    <2> QED
        BY <2>2, <2>3 DEF HParts
<1>2. CASE EmptyWindow
    <2>1. pc = "window" /\ FetchDone /\ fetched = {} /\ FetchUntil = until_stack[1]
        BY <1>2, WindowFacts DEF EmptyWindow, FetchUntil, Open
    <2>2. Promised(current_since, until_stack[1]) = {}
        BY <2>1, DoneAnswered DEF Answered
    <2> QED
        BY <1>2, <2>1, <2>2, AdvanceH DEF EmptyWindow, Open, relayVars
<1>3. CASE WindowYielded
    <2>1. Promised(current_since, until_stack[1]) \subseteq SetOf(yielded)
        BY <1>3 DEF WindowYielded, HInv, DeliveredOK
    <2> QED
        BY <1>3, <2>1, AdvanceH DEF WindowYielded, Open, relayVars
<1>4. CASE BoundaryInconsistent \/ ProbeFound \/ Finish \/ IdleTimeout \/ FetchError
    <2>1. /\ UNCHANGED <<store, promised, yielded, current_since>>
          /\ pc' \notin {"window", "boundary", "probe", "yield"}
        BY <1>4 DEF BoundaryInconsistent, ProbeFound, SplitWindow, Finish, IdleTimeout,
                    FetchError, relayVars
    <2> QED
        BY <2>1, QuietH DEF HInv, DeliveredOK
<1>5. CASE UNCHANGED vars
    BY <1>5 DEF vars, HInv, HParts, StoreOK, SparseSeconds, Wanted, FetchOK, Fetching, Answered,
                FetchUntil, Promised, VerifyOK, DeliveredOK
<1> QED
    BY <1>1, <1>2, <1>3, <1>4, <1>5, RelayChangeH, StartFetchH, CompleteWindow, YieldH
       DEF Next, Step, Ended

\* The invariant holds over every honest relay.
THEOREM HonestInvariance == ASSUME Honest PROVE Spec => []HInv
<1>1. Init => HInv
    BY InitIInv, InitHParts DEF HInv, HParts
<1>2. HInv /\ [Next]_vars => HInv'
    BY NextHInv
<1> QED
    BY <1>1, <1>2, PTL DEF Spec

\* Below an event of the open window everything promised was yielded.
LEMMA NothingPassed ==
    ASSUME HInv, NEW e \in Event, pc # "yield" => e[1] < current_since,
           pc = "yield" => e[1] <= until_stack[1] /\ \A p \in pending : ~Precedes(p, e)
    PROVE  \A x \in promised : Precedes(x, e) => x \in SetOf(yielded)
<1> SUFFICES ASSUME NEW x \in promised, Precedes(x, e) PROVE x \in SetOf(yielded)
    OBVIOUS
<1>1. x[1] \in Nat /\ e[1] \in Nat /\ x[1] <= e[1] /\ current_since \in Nat
    BY PromisedFacts, EventFields DEF Precedes, HInv, IInv, TypeOK
<1>2. CASE x[1] < current_since
    BY <1>2 DEF HInv, DeliveredOK
<1>3. CASE ~(x[1] < current_since)
    <2>1. pc = "yield"
        BY <1>1, <1>3
    <2>2. until_stack[1] \in Nat
        BY <2>1, WindowFacts DEF Open
    <2>3. x \in Promised(current_since, until_stack[1])
        BY <1>1, <1>3, <2>1, <2>2 DEF Promised
    <2>4. x \in pending \cup SetOf(yielded)
        BY <2>1, <2>3 DEF HInv, DeliveredOK
    <2> QED
        BY <2>1, <2>4
<1> QED
    BY <1>2, <1>3

\* Over an honest relay, with one filter, wherever the stream stops: nothing
\* the relay has held all along is missing below the last event.
THEOREM PrefixIsComplete == ASSUME Honest PROVE Spec => []PrefixComplete
<1>1. ASSUME HInv PROVE PrefixComplete
    <2> SUFFICES ASSUME yielded # <<>>
                 PROVE  \A e \in promised :
                            Precedes(e, yielded[Len(yielded)]) => e \in SetOf(yielded)
        BY DEF PrefixComplete
    <2> DEFINE n == Len(yielded)
               last == yielded[n]
    <2>1. n \in 1..n /\ yielded \in Seq(Event)
        BY <1>1, EmptySeq DEF HInv, IInv, TypeOK
    <2>2. last \in Event
        BY <2>1
    <2>3. /\ pc # "yield" => last[1] < current_since
          /\ pc = "yield" => last[1] <= until_stack[1]
          /\ \A p \in pending : Precedes(last, p)
        BY <1>1, <2>1 DEF HInv, IInv, YieldedOK
    <2>4. \A p \in pending : ~Precedes(p, last)
        BY <1>1, <2>2, <2>3, EventFields DEF Precedes, HInv, IInv, TypeOK
    <2> HIDE DEF last, n
    <2>5. \A x \in promised : Precedes(x, last) => x \in SetOf(yielded)
        BY <1>1, <2>2, <2>3, <2>4, NothingPassed
    <2> QED
        BY <2>5 DEF last, n
<1> QED
    BY <1>1, HonestInvariance, PTL

-----------------------------------------------------------------------------
(* The refinement of OrderedDelivery *)

\* The two modules speak of the same order and the same members.
LEMMA SameOrder ==
    /\ \A e, f : OD!Precedes(e, f) <=> Precedes(e, f)
    /\ \A s : OD!SetOf(s) = SetOf(s)
BY DEF OD!Precedes, OD!SetOf, Precedes, SetOf

\* An initial state of the stream is one of OrderedDelivery: a stream over an
\* empty range is closed, and nothing is wanted of it.
LEMMA InitRefines == ASSUME Init, Honest PROVE OD!Init
<1>1. promised \in SUBSET Event /\ yielded = <<>>
    BY EventAssumption DEF Init, Wanted
<1>2. CASE StartTime > EndTime
    <2>1. Wanted = {}
        BY <1>2, EventFields, EventAssumption, RequestAssumption DEF Wanted
    <2>2. pc = "done" /\ promised = {}
        BY <1>2, <2>1 DEF Init
    <2> QED
        BY <1>1, <2>2 DEF OD!Init
<1>3. CASE ~(StartTime > EndTime)
    <2>1. pc = "loop"
        BY <1>3 DEF Init
    <2> QED
        BY <1>1, <2>1 DEF OD!Init
<1> QED
    BY <1>2, <1>3

\* A yield delivers an event that is next and passes nothing over.
LEMMA YieldRefines == ASSUME HInv, Yield PROVE OD!Next
<1>1. PICK e \in pending :
          /\ \A f \in pending \ {e} : Precedes(e, f)
          /\ yielded' = Append(yielded, e)
    BY DEF Yield
<1>2. pc = "yield" /\ pc' = pc /\ promised' = promised
    BY DEF Yield, relayVars
<1>3. e \in Event /\ e[1] <= until_stack[1]
    BY <1>2 DEF HInv, IInv, WindowOK, InWindow
<1>4. \A p \in pending : ~Precedes(p, e)
    <2>1. \A p \in pending : p \in Event
        BY DEF HInv, IInv, TypeOK
    <2> QED
        BY <1>1, <1>3, <2>1, EventFields DEF Precedes
<1>5. \A x \in promised : Precedes(x, e) => x \in SetOf(yielded)
    BY <1>2, <1>3, <1>4, NothingPassed
<1>6. yielded = <<>> \/ Precedes(yielded[Len(yielded)], e)
    <2>1. yielded # <<>> => Len(yielded) \in 1..Len(yielded)
        BY EmptySeq DEF HInv, IInv, TypeOK
    <2> QED
        BY <2>1 DEF HInv, IInv, YieldedOK
<1>7. OD!Deliver(e)
    BY <1>1, <1>2, <1>5, <1>6, SameOrder DEF OD!Deliver, OD!After
<1> QED
    BY <1>3, <1>7 DEF OD!Next

\* A normal return closes the stream: everything promised was delivered.
LEMMA FinishRefines == ASSUME HInv, Finish PROVE OD!Next
<1>1. /\ pc = "loop" /\ pc' = "done" /\ until_stack = <<>>
      /\ UNCHANGED <<promised, yielded>>
    BY DEF Finish, relayVars
<1>2. \A x \in promised : x \in SetOf(yielded)
    <2> SUFFICES ASSUME NEW x \in promised PROVE x \in SetOf(yielded)
        OBVIOUS
    <2>1. x[1] \in Nat /\ x[1] <= EndTime /\ StartTime <= x[1]
        BY PromisedFacts
    <2>2. current_since = EndTime + 1
        BY <1>1, <2>1, RequestAssumption DEF HInv, IInv, StackOK
    <2>3. x[1] < current_since
        BY <2>1, <2>2, RequestAssumption
    <2> QED
        BY <2>3 DEF HInv, DeliveredOK
<1>3. OD!Close
    BY <1>1, <1>2, SameOrder DEF OD!Close
<1> QED
    BY <1>3 DEF OD!Next

\* Every other step is a release, a cut or a stutter.
LEMMA OtherRefines ==
    ASSUME HInv, [Next]_vars, ~Yield, ~Finish
    PROVE  OD!Next \/ UNCHANGED OD!vars
<1>1. CASE RelayChange
    <2>1. promised' \in SUBSET promised /\ UNCHANGED <<pc, yielded>>
        BY <1>1 DEF RelayChange
    <2>2. OD!Release
        BY <2>1 DEF OD!Release
    <2> QED
        BY <2>2 DEF OD!Next
<1>2. CASE IdleTimeout \/ FetchError
    <2>1. /\ pc \in {"loop", "window", "boundary", "probe"} /\ pc' \in {"failed", "abandoned"}
          /\ UNCHANGED <<promised, yielded>>
        BY <1>2 DEF IdleTimeout, FetchError, Fetching, relayVars
    <2>2. OD!CutShort
        BY <2>1 DEF OD!CutShort
    <2> QED
        BY <2>2 DEF OD!Next
<1>3. CASE UNCHANGED vars
    <2>1. UNCHANGED <<pc, promised, yielded>>
        BY <1>3 DEF vars
    <2> QED
        BY <2>1 DEF OD!vars
<1>4. CASE OpenWindow \/ Receive \/ EmptyWindow \/ SingleSecond \/ BeginVerify
           \/ BoundaryInconsistent \/ BoundaryAtStart \/ BeginProbe \/ ProbeFound \/ ProbeEmpty
           \/ WindowYielded
    <2>1. /\ pc \in {"loop", "window", "boundary", "probe", "yield"}
          /\ pc' \in {"loop", "window", "boundary", "probe", "yield"}
          /\ UNCHANGED <<promised, yielded>>
        BY <1>4 DEF OpenWindow, Receive, EmptyWindow, SingleSecond, BeginVerify,
                    BoundaryInconsistent, BoundaryAtStart, BeginProbe, ProbeFound, ProbeEmpty,
                    WindowYielded, SplitWindow, AcceptEvents, Fetching, relayVars
    <2> QED
        BY <2>1 DEF OD!vars
<1> QED
    BY <1>1, <1>2, <1>3, <1>4 DEF Next, Step, Ended

\* The windowing algorithm over an honest relay, with one filter, implements
\* OrderedDelivery: each yield is in order and passes nothing over, and a
\* normal return is complete.
THEOREM Refinement == ASSUME Honest PROVE Spec => ImplementsOrderedDelivery
<1>1. Init => OD!Init
    BY InitRefines
<1>2. ASSUME HInv, [Next]_vars PROVE OD!Next \/ UNCHANGED OD!vars
    BY <1>2, YieldRefines, FinishRefines, OtherRefines
<1>3. ASSUME HInv, [Next]_vars PROVE [OD!Next]_(OD!vars)
    BY <1>2, <1>3
<1> QED
    BY <1>1, <1>3, HonestInvariance, PTL DEF Spec, ImplementsOrderedDelivery, OD!Spec
=============================================================================
