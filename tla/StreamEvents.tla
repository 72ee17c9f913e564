---------------------------- MODULE StreamEvents ----------------------------
(***************************************************************************)
(* The windowing algorithm of bigbrotr/utils/streaming.py.                 *)
(*                                                                         *)
(* stream_events walks the seconds [StartTime, EndTime] of one relay from  *)
(* the oldest to the newest.  It keeps a stack of upper bounds             *)
(* (until_stack) and the first second it has not finished (current_since). *)
(* A window is fetched, then verified by a second fetch at its oldest      *)
(* second and a probe below it; a window that cannot be verified is split. *)
(*                                                                         *)
(* The relay on the other side of the WebSocket is external code: it       *)
(* answers newest first, truncates to its own cap, and its store changes   *)
(* while the stream runs.  RelayKind says how far it can be trusted.       *)
(***************************************************************************)
EXTENDS EventOrder, FiniteSets

CONSTANTS
    Event,       \* every event a relay may send: pairs <<created_at, id>>
    Authentic,   \* the events whose signature and id verify
    Unstorable,  \* oversized, or rejected by the Event domain model
    Filters,     \* the configured filters, each the set of events it matches
    StartTime, EndTime,  \* inclusive bounds of the stream, in seconds
    Limit,       \* REQ limit of a window fetch
    RelayCap,    \* the relay's own limit, unknown to the client
    RelayKind    \* "honest", "slow" or "arbitrary"

ASSUME EventAssumption ==
    /\ Event \subseteq Nat \X Nat
    /\ IsFiniteSet(Event)
    /\ Authentic \subseteq Event
    /\ Unstorable \subseteq Event

ASSUME RequestAssumption ==
    /\ Filters \in Seq(SUBSET Event)
    /\ StartTime \in Nat
    /\ EndTime \in Nat
    /\ Limit \in Nat \ {0}

ASSUME RelayAssumption ==
    /\ RelayCap \in Nat \ {0}
    /\ RelayKind \in {"honest", "slow", "arbitrary"}

VARIABLES
    store,        \* the events the relay holds now
    promised,     \* ghost: storable matching events it has held all along
    pc,           \* where the generator is suspended
    until_stack,  \* upper bounds of the windows still to do, nearest first
    current_since,  \* lower bound of the window at hand
    filter,       \* _fetch_validated: index of the next filter to query
    fetched,      \* _fetch_validated: the validated events so far
    events,       \* the window's events, kept during verification
    min_ts,       \* oldest second among events
    boundary,     \* boundary_events, kept while the probe runs
    pending,      \* events of an accepted window, not yielded yet
    idle,         \* a fetch was made since the last yield
    yielded       \* every event yielded, in order

relayVars == <<store, promised>>
fetchVars == <<filter, fetched>>
vars == <<store, promised, pc, until_stack, current_since, filter, fetched,
          events, min_ts, boundary, pending, idle, yielded>>

-----------------------------------------------------------------------------
(* Events and windows *)

\* What _to_domain_events keeps of a fetched list; the order in which it is
\* yielded is that of Yield.
ToDomainEvents(S) == S \ Unstorable

\* The events of S created in [since, until].
Between(S, since, until) == {e \in S : since <= e[1] /\ e[1] <= until}

\* Mutant: verify() is not called.
ValidatedUnverified(S, f, since, until) == Between(S, since, until) \cap Filters[f]

\* windowed.match_event(evt) and evt.verify().
Validated(S, f, since, until) == Between(S, since, until) \cap Filters[f] \cap Authentic

\* The possible choices of the n newest events of S; ties are broken by the
\* relay as it likes.
Newest(S, n) ==
    {K \in SUBSET S :
        /\ Cardinality(K) = IF Cardinality(S) < n THEN Cardinality(S) ELSE n
        /\ \A k \in K, x \in S \ K : x[1] <= k[1]}

\* The events that some configured filter asks for.
Wanted == {e \in Authentic \ Unstorable :
             /\ StartTime <= e[1] /\ e[1] <= EndTime
             /\ \E f \in DOMAIN Filters : e \in Filters[f]}

\* No second holds more matching events than one answer can carry.  Nothing
\* can be fetched completely below the granularity of a second.
SparseSeconds(S) ==
    \A t \in StartTime..EndTime :
        Cardinality({e \in S : e[1] = t}) <= (IF Limit < RelayCap THEN Limit ELSE RelayCap)

-----------------------------------------------------------------------------
(* The relay (external) *)

\* What the relay may send for one REQ before it sends EOSE or the client's
\* timeout ends the stream.  A slow relay is cut off anywhere; an arbitrary
\* one ignores the filter and its store.
Served(f, since, until, limit) ==
    LET n    == IF limit < RelayCap THEN limit ELSE RelayCap
        hits == Validated(store, f, since, until)
    IN  CASE RelayKind = "honest"    -> Newest(hits, n)
          [] RelayKind = "slow"      -> UNION {Newest(hits, k) : k \in 0..n}
          [] RelayKind = "arbitrary" -> SUBSET Event

\* An event is published on the relay, or the relay drops one (expiry,
\* deletion request, retention), at any moment of the stream.
RelayChange ==
    /\ RelayKind # "arbitrary"
    /\ pc \notin {"done", "failed", "abandoned"}
    /\ \E e \in Authentic :
         \/ /\ e \notin store
            /\ SparseSeconds(store \cup {e})
            /\ store' = store \cup {e}
         \/ /\ e \in store
            /\ store' = store \ {e}
    /\ promised' = promised \cap store'
    /\ UNCHANGED <<pc, until_stack, current_since, fetchVars, events, min_ts,
                   boundary, pending, idle, yielded>>

-----------------------------------------------------------------------------
(* _fetch_validated: one step per filter of the request *)

Fetching == pc \in {"window", "boundary", "probe"}

FetchUntil ==
    CASE pc = "window"   -> Head(until_stack)
      [] pc = "boundary" -> min_ts
      [] pc = "probe"    -> min_ts - 1

FetchLimit == IF pc = "probe" THEN 1 ELSE Limit

\* All filters were queried, or the limit stopped the loop over them.
FetchDone ==
    /\ Fetching
    /\ filter > Len(Filters) \/ Cardinality(fetched) >= FetchLimit

\* Mutant: filters counted from 0.
StartFetchAtZero == filter' = 0 /\ fetched' = {} /\ idle' = TRUE

StartFetch == filter' = 1 /\ fetched' = {} /\ idle' = TRUE

\* One filter's stream, read until it ends, times out or fills the limit.
Receive ==
    /\ Fetching
    /\ ~FetchDone
    /\ \E served \in Served(filter, current_since, FetchUntil, FetchLimit) :
         \E kept \in Newest(Validated(served, filter, current_since, FetchUntil)
                              \ fetched,
                            FetchLimit - Cardinality(fetched)) :
             fetched' = fetched \cup kept
    /\ filter' = filter + 1
    /\ UNCHANGED <<relayVars, pc, until_stack, current_since, events, min_ts,
                   boundary, pending, idle, yielded>>

\* client.stream_events or stream.next raises: the exception leaves the
\* generator.
FetchError ==
    /\ Fetching
    /\ ~FetchDone
    /\ pc' = "failed"
    /\ UNCHANGED <<relayVars, until_stack, current_since, fetchVars, events,
                   min_ts, boundary, pending, idle, yielded>>

-----------------------------------------------------------------------------
(* stream_events and _try_verify_completeness *)

\* Mutant: the next window starts at the second just finished.
AdvanceWindowSameSecond ==
    /\ until_stack' = Tail(until_stack)
    /\ current_since' = Head(until_stack)
    /\ events' = {} /\ boundary' = {} /\ min_ts' = 0

\* The window is finished: pop it and go on with the second after it.
AdvanceWindow ==
    /\ until_stack' = Tail(until_stack)
    /\ current_since' = Head(until_stack) + 1
    /\ events' = {} /\ boundary' = {} /\ min_ts' = 0

\* Mutant: mid replaces the upper bound instead of being pushed on it.
SplitWindowReplacing ==
    /\ until_stack' =
         <<current_since + ((Head(until_stack) - current_since) \div 2)>> \o Tail(until_stack)
    /\ pc' = "loop"
    /\ events' = {} /\ boundary' = {} /\ min_ts' = 0
    /\ UNCHANGED <<relayVars, current_since, fetchVars, pending, idle, yielded>>

\* _try_verify_completeness returned None.
SplitWindow ==
    /\ until_stack' =
         <<current_since + ((Head(until_stack) - current_since) \div 2)>> \o until_stack
    /\ pc' = "loop"
    /\ events' = {} /\ boundary' = {} /\ min_ts' = 0
    /\ UNCHANGED <<relayVars, current_since, fetchVars, pending, idle, yielded>>

\* The events of a finished window go to the yield loop.
AcceptEvents(S) ==
    /\ pending' = ToDomainEvents(S)
    /\ pc' = "yield"
    /\ UNCHANGED <<relayVars, until_stack, current_since, fetchVars, events,
                   min_ts, boundary, idle, yielded>>

Init ==
    /\ store \in IF RelayKind = "arbitrary" THEN {{}}
                 ELSE {S \in SUBSET Authentic : SparseSeconds(S)}
    /\ promised = store \cap Wanted
    /\ pc = IF StartTime > EndTime THEN "done" ELSE "loop"
    /\ until_stack = IF StartTime > EndTime THEN <<>> ELSE <<EndTime>>
    /\ current_since = StartTime
    /\ filter = 1 /\ fetched = {}
    /\ events = {} /\ min_ts = 0 /\ boundary = {}
    /\ pending = {} /\ idle = FALSE /\ yielded = <<>>

\* while until_stack: fetch [current_since, until_stack[0]].
OpenWindow ==
    /\ pc = "loop"
    /\ until_stack # <<>>
    /\ pc' = "window"
    /\ StartFetch
    /\ UNCHANGED <<relayVars, until_stack, current_since, events, min_ts,
                   boundary, pending, yielded>>

\* The stack is empty: the generator returns.
Finish ==
    /\ pc = "loop"
    /\ until_stack = <<>>
    /\ pc' = "done"
    /\ UNCHANGED <<relayVars, until_stack, current_since, fetchVars, events,
                   min_ts, boundary, pending, idle, yielded>>

\* More than idle_timeout has passed since last_yield.  Only fetches take
\* time, so it cannot happen right after a yield.
IdleTimeout ==
    /\ pc = "loop"
    /\ until_stack # <<>>
    /\ idle
    /\ pc' = "abandoned"
    /\ UNCHANGED <<relayVars, until_stack, current_since, fetchVars, events,
                   min_ts, boundary, pending, idle, yielded>>

\* Mutant: an empty window is fetched again.
EmptyWindowAgain ==
    /\ pc = "window" /\ FetchDone
    /\ fetched = {}
    /\ pc' = "loop"
    /\ UNCHANGED <<relayVars, until_stack, current_since, events, min_ts, boundary,
                   fetchVars, pending, idle, yielded>>

EmptyWindow ==
    /\ pc = "window" /\ FetchDone
    /\ fetched = {}
    /\ AdvanceWindow
    /\ pc' = "loop"
    /\ UNCHANGED <<relayVars, fetchVars, pending, idle, yielded>>

\* A single second cannot be split: yield whatever was fetched.
SingleSecond ==
    /\ pc = "window" /\ FetchDone
    /\ fetched # {}
    /\ current_since = Head(until_stack)
    /\ AcceptEvents(fetched)

\* A longer window is always verified: find the oldest second of the answer
\* and fetch [current_since, min_ts].
BeginVerify ==
    /\ pc = "window" /\ FetchDone
    /\ fetched # {}
    /\ current_since # Head(until_stack)
    /\ \E m \in {e[1] : e \in fetched} :
          /\ \A e \in fetched : m <= e[1]
          /\ min_ts' = m
    /\ events' = fetched
    /\ pc' = "boundary"
    /\ StartFetch
    /\ UNCHANGED <<relayVars, until_stack, current_since, boundary, pending,
                   yielded>>

\* All of the boundary answer is at min_ts, and something is.
BoundaryConsistent == fetched # {} /\ \A e \in fetched : e[1] = min_ts

BoundaryInconsistent ==
    /\ pc = "boundary" /\ FetchDone
    /\ ~BoundaryConsistent
    /\ SplitWindow

\* events above min_ts together with the boundary answer at min_ts.
Combined(at_min) == at_min \cup {e \in events : e[1] # min_ts}

\* Mutant: no probe below min_ts.
BoundaryWithoutProbe ==
    /\ pc = "boundary" /\ FetchDone
    /\ BoundaryConsistent
    /\ AcceptEvents(Combined(fetched))

BoundaryAtStart ==
    /\ pc = "boundary" /\ FetchDone
    /\ BoundaryConsistent
    /\ min_ts = current_since
    /\ AcceptEvents(Combined(fetched))

BeginProbe ==
    /\ pc = "boundary" /\ FetchDone
    /\ BoundaryConsistent
    /\ min_ts > current_since
    /\ boundary' = fetched
    /\ pc' = "probe"
    /\ StartFetch
    /\ UNCHANGED <<relayVars, until_stack, current_since, events, min_ts,
                   pending, yielded>>

ProbeFound ==
    /\ pc = "probe" /\ FetchDone
    /\ fetched # {}
    /\ SplitWindow

ProbeEmpty ==
    /\ pc = "probe" /\ FetchDone
    /\ fetched = {}
    /\ AcceptEvents(Combined(boundary))

\* Mutant: the events of a window are not sorted.
YieldUnsorted ==
    /\ pc = "yield"
    /\ \E e \in pending :
          /\ yielded' = Append(yielded, e)
          /\ pending' = pending \ {e}
    /\ idle' = FALSE
    /\ UNCHANGED <<relayVars, pc, until_stack, current_since, fetchVars,
                   events, min_ts, boundary>>

\* The consumer asks for the next event: the least one not yielded yet.
Yield ==
    /\ pc = "yield"
    /\ \E e \in pending :
          /\ \A f \in pending \ {e} : Precedes(e, f)
          /\ yielded' = Append(yielded, e)
          /\ pending' = pending \ {e}
    /\ idle' = FALSE
    /\ UNCHANGED <<relayVars, pc, until_stack, current_since, fetchVars,
                   events, min_ts, boundary>>

WindowYielded ==
    /\ pc = "yield"
    /\ pending = {}
    /\ AdvanceWindow
    /\ pc' = "loop"
    /\ UNCHANGED <<relayVars, fetchVars, pending, idle, yielded>>

\* Steps of the coroutine itself.  Every one of them is bounded by a timeout
\* (stream_events, wait_for), so it is eventually taken.
Step ==
    \/ OpenWindow \/ Finish \/ Receive
    \/ EmptyWindow \/ SingleSecond \/ BeginVerify
    \/ BoundaryInconsistent \/ BoundaryAtStart \/ BeginProbe
    \/ ProbeFound \/ ProbeEmpty
    \/ Yield \/ WindowYielded

\* The generator has returned or raised.
Ended == pc \in {"done", "failed", "abandoned"} /\ UNCHANGED vars

Next == Step \/ IdleTimeout \/ FetchError \/ RelayChange \/ Ended

Spec == Init /\ [][Next]_vars
FairSpec == Spec /\ WF_vars(Step)

-----------------------------------------------------------------------------
(* Properties *)

Pcs == {"loop", "window", "boundary", "probe", "yield", "done", "failed", "abandoned"}

TypeOK ==
    /\ store \subseteq Event
    /\ promised \subseteq store
    /\ pc \in Pcs
    /\ until_stack \in Seq(Nat)
    /\ current_since \in Nat
    /\ filter \in Nat \ {0}
    /\ fetched \subseteq Event
    /\ events \subseteq Event
    /\ min_ts \in Nat
    /\ boundary \subseteq Event
    /\ pending \subseteq Event
    /\ idle \in BOOLEAN
    /\ yielded \in Seq(Event)

\* Whatever the relay answers, events leave the generator in strictly
\* ascending (created_at, id) order, so none is yielded twice and the
\* consumer's cursor only moves forward.
AscendingOrder ==
    \A i, j \in DOMAIN yielded : i < j => Precedes(yielded[i], yielded[j])

\* Whatever the relay answers, only events that verify, match a configured
\* filter and lie in [start_time, end_time] come out.
OnlyWanted == SetOf(yielded) \subseteq Wanted

\* A normal return means every second of the range was finished: splitting
\* and popping lost no window, and none was opened past the end.
RangeCovered ==
    /\ pc = "done" /\ StartTime <= EndTime => current_since = EndTime + 1
    /\ \A i \in DOMAIN yielded : yielded[i][1] <= EndTime

\* The consumer stores events as they come and resumes at the last one, so
\* nothing the relay has held all along may be missing below it, wherever
\* the stream stops.
PrefixComplete ==
    yielded # <<>> =>
      \A e \in promised :
        Precedes(e, yielded[Len(yielded)]) => e \in SetOf(yielded)

\* stream_events implements the promise its consumers rely on.
OD == INSTANCE OrderedDelivery WITH
        held <- promised,
        delivered <- yielded,
        status <- CASE pc = "done" -> "closed"
                    [] pc \in {"failed", "abandoned"} -> "cut"
                    [] OTHER -> "open"

\* The windowing algorithm over an honest relay implements OrderedDelivery:
\* each yield is in order and skips nothing, and a normal return is complete.
ImplementsOrderedDelivery == OD!Spec

\* The generator returns: every window is accepted or split into smaller
\* ones, down to single seconds, whatever the relay answers.
Termination == <>(pc \in {"done", "failed", "abandoned"})
=============================================================================
