-------------------------- MODULE RelayProbeProofs --------------------------
(***************************************************************************)
(* The relay tests for any number of concurrent tasks, any URLs they are   *)
(* given, any proxies and any documents.                                   *)
(***************************************************************************)
EXTENDS RelayProbe, FiniteSetTheorems, TLAPS

Networks == OverlayNetworks \cup {"clearnet", "local", "unknown"}
Relays == [network : Networks \cup {"none"}, words : BOOLEAN]
Tests == [kind : Kinds \cup {"none"}, insecure : BOOLEAN]
Clients == {"verified", "insecure", "proxied", "direct"}
Outcomes == {"none", "ok", "failed", "raised"}
Results == [open : Outcomes, read : Outcomes, write : Outcomes]
Lookups == {"tls", "dns", "geo", "net"}

Waiting == {"idle", "dropped", "parsed"}
Holding == {"dialing", "closing", "fetching", "reading", "writing", "verifying", "teardown"}
Places == Waiting \cup Holding \cup {"lookup", "resolving", "done"}

\* What a relay does after it was connected to.
Answers == {"eose", "silent", "auth", "event", "accepted", "retrieved"}
Signs == Answers \cup {"connected", "certificate", "tls", "ssl", "refused", "os", "timeout", "sdk",
                       "cancelled"}

\* The types of the variables; raw is known where it is used.
Typed ==
    /\ DOMAIN raw = Probe
    /\ relay \in [Probe -> Relays] /\ test \in [Probe -> Tests]
    /\ at \in [Probe -> Places] /\ client \in [Probe -> Clients \cup {NoClient}]
    /\ result \in [Probe -> Results] /\ alive \in [Probe -> SUBSET Clients]
    /\ cut \in [Probe -> BOOLEAN] /\ seen \in [Probe -> SUBSET Signs]

\* A task that waits to begin holds nothing; what it parsed is a relay.
WaitingOK(p) ==
    /\ at[p] \in Waiting => seen[p] = {} /\ test[p].kind = "none"
    /\ at[p] = "parsed" => raw[p] \in RawUrls /\ ParseRelay(raw[p]) # NoUrl

\* Which tests reach a place.
KindOK(p) ==
    /\ at[p] = "lookup" => test[p].kind \in Lookups
    /\ at[p] \in {"resolving", "closing"} => test[p].kind \in {"validate", "rtt"}
    /\ at[p] = "dialing" => test[p].kind \in {"validate", "rtt", "info", "http"}
    /\ at[p] = "fetching" => test[p].kind = "validate"
    /\ at[p] \in {"reading", "writing", "verifying"} => test[p].kind = "rtt"
    /\ at[p] = "teardown" => test[p].kind \in {"validate", "rtt"}

\* The verified connection that failed before one without verification.
TlsFailed(p) ==
    \/ test[p].kind = "http"
    \/ test[p].kind = "info" /\ "certificate" \in seen[p]
    \/ test[p].kind \in {"validate", "rtt"} /\ seen[p] \cap TlsErrors # {}

\* How an overlay relay is dialled.
ProxyOK(p) ==
    IF GetProxyUrl(relay[p].network)
    THEN relay[p].network = "tor" \/ test[p].kind \in {"info", "http"} => client[p] = "proxied"
    ELSE test[p].kind = "info"

\* A task holds a client exactly between making and releasing it.
ClientOK(p) ==
    /\ client[p] # NoClient <=> at[p] \in Holding
    /\ ~cut[p] => alive[p] = {client[p]} \ {NoClient}
    /\ cut[p] => at[p] = "done" /\ \A c, d \in alive[p] : c = d
    /\ client[p] = "insecure" => test[p].insecure /\ ~Overlay(p) /\ TlsFailed(p)
    /\ client[p] = "verified" => ~Overlay(p)
    /\ client[p] # NoClient /\ Overlay(p) => ProxyOK(p)
    /\ at[p] = "resolving" => Overlay(p) /\ GetProxyUrl(relay[p].network)
    /\ "ssl" \in seen[p] => seen[p] \cap TlsErrors # {}

\* Before a connection nothing was answered; afterwards each phase that is
\* over reports what was seen.
Reports(p) ==
    /\ result[p].open = "ok"
    /\ result[p].read = "ok" <=> "event" \in seen[p]
    /\ result[p].write = "ok" <=> {"accepted", "retrieved"} \subseteq seen[p]

ResultOK(p) ==
    /\ at[p] \in {"lookup", "resolving", "dialing", "closing"} =>
          seen[p] \cap (Answers \cup {"connected"}) = {}
    /\ at[p] = "fetching" => "connected" \in seen[p]
    /\ at[p] \in {"reading", "writing", "verifying"} => Reports(p) /\ "connected" \in seen[p]
    /\ at[p] \in {"reading", "writing"} => {"accepted", "retrieved"} \cap seen[p] = {}
    /\ at[p] = "reading" => "event" \notin seen[p]
    /\ at[p] = "verifying" => "accepted" \in seen[p] /\ "retrieved" \notin seen[p]
    /\ at[p] \in {"teardown", "done"} /\ test[p].kind = "validate" /\ result[p].open = "ok" =>
          \/ "connected" \in seen[p] /\ seen[p] \cap {"eose", "auth", "silent"} # {}
          \/ at[p] = "done" /\ relay[p].words /\ "connected" \notin seen[p]
    /\ at[p] = "teardown" /\ test[p].kind = "rtt" =>
          "connected" \in seen[p] /\ (result[p] # Raised => Reports(p))
    /\ at[p] = "done" /\ test[p].kind = "rtt" /\ result[p] # Raised =>
          IF "connected" \in seen[p] THEN Reports(p)
          ELSE result[p] = AllFailed /\ seen[p] \cap Answers = {}

TaskOK(p) == WaitingOK(p) /\ KindOK(p) /\ ClientOK(p) /\ ResultOK(p)

\* The validations that are inside the suppressor.
Redirecting == {"resolving", "dialing", "closing", "fetching", "teardown"}
Running == {p \in Probe : test[p].kind = "validate" /\ at[p] \in Redirecting}

StderrOK == IsFiniteSet(Running) /\ StderrRestored

\* The inductive invariant.
PInv == Typed /\ StderrOK /\ \A p \in Probe : TaskOK(p)

-----------------------------------------------------------------------------
(* One step of one task *)

\* The other tasks are left alone.
Same(p) ==
    \A q \in Probe \ {p} :
        /\ raw'[q] = raw[q] /\ relay'[q] = relay[q] /\ test'[q] = test[q] /\ at'[q] = at[q]
        /\ client'[q] = client[q] /\ result'[q] = result[q] /\ alive'[q] = alive[q]
        /\ cut'[q] = cut[q] /\ seen'[q] = seen[q]

\* What a step of task p does outside the suppressor.
Local(p) == Typed' /\ TaskOK(p)' /\ Same(p)

\* A task is as it was if nothing of it changed.
LEMMA OthersOK ==
    ASSUME NEW p \in Probe, Same(p), NEW q \in Probe, q # p, TaskOK(q)
    PROVE  TaskOK(q)'
BY DEF Same, TaskOK, WaitingOK, KindOK, ClientOK, ResultOK, Reports, Overlay, TlsFailed, ProxyOK

\* The network of a URL is one of those the code knows.
LEMMA NetworkType == \A u : NetworkOf(u) \in Networks
BY DEF NetworkOf, DetectNetwork, Networks, OverlayNetworks

\* A URL is received.
LEMMA ReceiveLocal ==
    ASSUME NEW p \in Probe, Typed, TaskOK(p), Receive(p)
    PROVE  Local(p)
<1>1. PICK u \in RawUrls :
          /\ raw' = [raw EXCEPT ![p] = u]
          /\ at' = [at EXCEPT ![p] = IF ParseRelay(u) = NoUrl THEN "dropped" ELSE "parsed"]
    BY DEF Receive
<1>2. at[p] = "idle" /\ UNCHANGED <<relay, test, client, result, alive, cut, seen>>
    BY DEF Receive, suppressor
<1>3. Typed' /\ Same(p)
    BY <1>1, <1>2 DEF Typed, Same, Places, Waiting
<1>4. raw'[p] = u /\ at'[p] = (IF ParseRelay(u) = NoUrl THEN "dropped" ELSE "parsed")
    BY <1>1 DEF Typed
<1>5. WaitingOK(p)'
    BY <1>1, <1>2, <1>4 DEF WaitingOK, TaskOK, Waiting
<1>6. KindOK(p)' /\ ClientOK(p)' /\ ResultOK(p)'
    BY <1>2, <1>4 DEF TaskOK, WaitingOK, KindOK, ClientOK, ResultOK, Overlay, Holding, Waiting,
                      NoClient
<1> QED
    BY <1>3, <1>5, <1>6 DEF Local, TaskOK

\* The relay connects.
LEMMA ConnectedLocal ==
    ASSUME NEW p \in Probe, Typed, TaskOK(p), Connected(p)
    PROVE  Local(p)
<1>1. /\ at[p] = "dialing" /\ test[p].kind \in {"validate", "rtt"}
      /\ at' = [at EXCEPT ![p] = IF test[p].kind = "validate" THEN "fetching" ELSE "reading"]
      /\ seen' = [seen EXCEPT ![p] = @ \cup {"connected"}]
      /\ result' = IF test[p].kind = "rtt"
                   THEN [result EXCEPT ![p] = Phases("ok", "none", "none")] ELSE result
      /\ UNCHANGED <<raw, relay, test, client, alive, cut>>
    BY DEF Connected, Connects, Goes, Sees, Returns
<1>2. Phases("ok", "none", "none") \in Results
    BY DEF Phases, Results, Outcomes
<1>3. Typed' /\ Same(p)
    BY <1>1, <1>2 DEF Typed, Same, Places, Holding, Signs
<1>4. /\ at'[p] = (IF test[p].kind = "validate" THEN "fetching" ELSE "reading")
      /\ seen'[p] = seen[p] \cup {"connected"}
      /\ test[p].kind = "rtt" => result'[p] = Phases("ok", "none", "none")
    BY <1>1 DEF Typed
<1>5. WaitingOK(p)' /\ KindOK(p)' /\ ClientOK(p)'
    BY <1>1, <1>4 DEF TaskOK, WaitingOK, KindOK, ClientOK, Overlay, Holding, Waiting,
                       TlsFailed, ProxyOK
<1>6. ResultOK(p)'
    BY <1>1, <1>4 DEF TaskOK, ResultOK, Reports, Phases, Answers
<1> QED
    BY <1>3, <1>5, <1>6 DEF Local, TaskOK

\* The relay does not connect.
LEMMA NotConnectedLocal ==
    ASSUME NEW p \in Probe, Typed, TaskOK(p), NEW error \in TlsErrors \cup {"refused"},
           NEW ssl \in BOOLEAN, NotConnected(p, error, ssl)
    PROVE  Local(p)
<1> DEFINE signs == {error} \cup IF ssl THEN {"ssl"} ELSE {}
<1>1. /\ at[p] = "dialing" /\ test[p].kind \in {"validate", "rtt"}
      /\ at' = [at EXCEPT ![p] = "closing"]
      /\ seen' = [seen EXCEPT ![p] = @ \cup signs]
      /\ UNCHANGED <<raw, relay, test, client, result, alive, cut>>
    BY DEF NotConnected, Connects, Goes, Sees
<1>2. /\ signs \subseteq TlsErrors \cup {"refused", "ssl"}
      /\ "ssl" \in signs => signs \cap TlsErrors # {}
    BY DEF NotConnected, TlsErrors
<1> HIDE DEF signs
<1>3. Typed' /\ Same(p)
    BY <1>1, <1>2 DEF Typed, Same, Places, Holding, Signs, TlsErrors
<1>4. at'[p] = "closing" /\ seen'[p] = seen[p] \cup signs
    BY <1>1 DEF Typed
<1>5. WaitingOK(p)' /\ KindOK(p)'
    BY <1>1, <1>4 DEF TaskOK, WaitingOK, KindOK, Waiting
<1>6. ClientOK(p)'
    BY <1>1, <1>2, <1>4 DEF TaskOK, ClientOK, Overlay, Holding, TlsFailed, ProxyOK
<1>7. ResultOK(p)'
    BY <1>1, <1>2, <1>4 DEF TaskOK, ResultOK, Reports, Answers, TlsErrors
<1> QED
    BY <1>3, <1>5, <1>6, <1>7 DEF Local, TaskOK

\* What connect_relay's exceptions make of the result.
LEMMA ConnectRaisesResult ==
    ASSUME NEW p \in Probe, Typed, NEW error, ConnectRaises(p, error),
           test[p].kind \in {"validate", "rtt"}
    PROVE  /\ at' = [at EXCEPT ![p] = "done"]
           /\ \E r \in Results :
                 /\ result' = [result EXCEPT ![p] = r]
                 /\ test[p].kind = "rtt" => r \in {Raised, AllFailed}
                 /\ test[p].kind = "validate" /\ r.open = "ok" => relay[p].words
<1> DEFINE r == IF test[p].kind = "rtt"
                THEN IF error = "cancelled" THEN Raised ELSE AllFailed
                ELSE IF error \in {"sdk", "cancelled"} THEN Raised
                ELSE Verdict(error = "os" /\ relay[p].words)
<1>1. result' = [result EXCEPT ![p] = r] /\ at' = [at EXCEPT ![p] = "done"]
    BY DEF ConnectRaises, Returns, Leaves, Goes
<1>2. r \in Results
    BY DEF Results, Outcomes, Raised, AllFailed, Verdict, Phases
<1>3. test[p].kind = "rtt" => r \in {Raised, AllFailed}
    OBVIOUS
<1>4. test[p].kind = "validate" /\ r.open = "ok" => relay[p].words
    BY DEF Raised, Verdict, Phases
<1> HIDE DEF r
<1> QED
    BY <1>1, <1>2, <1>3, <1>4

\* A task whose connection failed is over, with a client or without.
LEMMA RaisedLocal ==
    ASSUME NEW p \in Probe, Typed, TaskOK(p), NEW error, ConnectRaises(p, error),
           at[p] \in {"resolving", "dialing", "closing"}, test[p].kind \in {"validate", "rtt"},
           client' = [client EXCEPT ![p] = NoClient],
           \/ UNCHANGED <<alive, cut>> /\ client[p] = NoClient
           \/ alive' = [alive EXCEPT ![p] = @ \ {client[p]}] /\ UNCHANGED cut
           \/ UNCHANGED alive /\ cut' = [cut EXCEPT ![p] = TRUE],
           UNCHANGED <<raw, relay, test, seen>>
    PROVE  Local(p)
<1>1. PICK r \in Results :
          /\ result' = [result EXCEPT ![p] = r]
          /\ test[p].kind = "rtt" => r \in {Raised, AllFailed}
          /\ test[p].kind = "validate" /\ r.open = "ok" => relay[p].words
    BY ConnectRaisesResult
<1>2. at' = [at EXCEPT ![p] = "done"]
    BY ConnectRaisesResult
<1>3. Typed' /\ Same(p)
    BY <1>1, <1>2 DEF Typed, Same, Places
<1>4. at'[p] = "done" /\ result'[p] = r /\ client'[p] = NoClient
    BY <1>1, <1>2 DEF Typed
<1>5. WaitingOK(p)' /\ KindOK(p)'
    BY <1>4 DEF WaitingOK, KindOK, Waiting
<1>6. /\ ~cut'[p] => alive'[p] = {}
      /\ cut'[p] => \A c, d \in alive'[p] : c = d
    BY DEF Typed, TaskOK, ClientOK
<1>7. ClientOK(p)'
    BY <1>4, <1>6 DEF TaskOK, ClientOK, Holding, NoClient
<1>8. ResultOK(p)'
    BY <1>1, <1>4 DEF TaskOK, ResultOK, Answers
<1> QED
    BY <1>3, <1>5, <1>7, <1>8 DEF Local, TaskOK

\* The name of the proxy is resolved.
LEMMA ProxyResolvedLocal ==
    ASSUME NEW p \in Probe, Typed, TaskOK(p), ProxyResolved(p)
    PROVE  Local(p)
<1> DEFINE made == CreateClient(relay[p].network)
<1>1. /\ at[p] = "resolving"
      /\ client' = [client EXCEPT ![p] = made]
      /\ alive' = [alive EXCEPT ![p] = @ \cup {made}]
      /\ at' = [at EXCEPT ![p] = "dialing"]
      /\ UNCHANGED <<raw, relay, test, result, cut, seen>>
    BY DEF ProxyResolved, Makes, Goes
<1>2. made \in {"proxied", "direct"} /\ (relay[p].network = "tor" => made = "proxied")
    BY DEF CreateClient
<1> HIDE DEF made
<1>3. Typed' /\ Same(p)
    BY <1>1, <1>2 DEF Typed, Same, Places, Holding, Clients
<1>4. at'[p] = "dialing" /\ client'[p] = made /\ alive'[p] = alive[p] \cup {made}
    BY <1>1 DEF Typed
<1>5. ~cut[p] /\ alive[p] = {} /\ test[p].kind \in {"validate", "rtt"}
    BY <1>1 DEF TaskOK, ClientOK, KindOK, Holding, NoClient
<1>6. WaitingOK(p)' /\ KindOK(p)' /\ ResultOK(p)'
    BY <1>1, <1>4, <1>5 DEF TaskOK, WaitingOK, KindOK, ResultOK, Reports, Waiting
<1>7. ClientOK(p)'
    BY <1>1, <1>2, <1>4, <1>5 DEF TaskOK, ClientOK, Overlay, Holding, NoClient, ProxyOK
<1> QED
    BY <1>3, <1>6, <1>7 DEF Local, TaskOK

\* It is not, or connect_relay ends with an exception, in order or cut short.
LEMMA ProxyUnresolvedLocal ==
    ASSUME NEW p \in Probe, Typed, TaskOK(p), NEW error, ProxyUnresolved(p, error)
    PROVE  Local(p)
<1>1. at[p] = "resolving" /\ client[p] = NoClient /\ test[p].kind \in {"validate", "rtt"}
    BY DEF ProxyUnresolved, TaskOK, ClientOK, KindOK, Holding
<1>2. client' = [client EXCEPT ![p] = NoClient]
    BY <1>1 DEF ProxyUnresolved, Typed
<1> QED
    BY <1>1, <1>2, RaisedLocal DEF ProxyUnresolved

LEMMA ConnectInterruptedLocal ==
    ASSUME NEW p \in Probe, Typed, TaskOK(p), NEW error, ConnectInterrupted(p, error)
    PROVE  Local(p)
BY RaisedLocal DEF ConnectInterrupted, Connects

\* A client that failed to verify the certificate is replaced by one that does not.
LEMMA FallsBackLocal ==
    ASSUME NEW p \in Probe, Typed, TaskOK(p), at[p] \in {"dialing", "closing"},
           client[p] = "verified", test[p].insecure, TlsFailed(p)',
           client' = [client EXCEPT ![p] = "insecure"],
           alive' = [alive EXCEPT ![p] = (@ \ {client[p]}) \cup {"insecure"}],
           at' = [at EXCEPT ![p] = "dialing"],
           NEW signs \in SUBSET {"certificate"}, seen' = [seen EXCEPT ![p] = @ \cup signs],
           UNCHANGED <<raw, relay, test, result, cut>>
    PROVE  Local(p)
<1>1. Typed' /\ Same(p)
    BY DEF Typed, Same, Places, Holding, Clients, Signs
<1>2. /\ at'[p] = "dialing" /\ client'[p] = "insecure" /\ seen'[p] = seen[p] \cup signs
      /\ alive'[p] = (alive[p] \ {client[p]}) \cup {"insecure"}
    BY DEF Typed
<1>3. WaitingOK(p)' /\ KindOK(p)'
    BY <1>2 DEF TaskOK, WaitingOK, KindOK, Waiting
<1>4. ClientOK(p)'
    BY <1>2 DEF TaskOK, ClientOK, Overlay, Holding, NoClient, TlsErrors
<1>5. ResultOK(p)'
    BY <1>2 DEF TaskOK, ResultOK, Answers
<1> QED
    BY <1>1, <1>3, <1>4, <1>5 DEF Local, TaskOK

\* connect_relay has shut its first client down.
LEMMA ClosedLocal ==
    ASSUME NEW p \in Probe, Typed, TaskOK(p), Closed(p)
    PROVE  Local(p)
<1>1. at[p] = "closing" /\ test[p].kind \in {"validate", "rtt"}
    BY DEF Closed, TaskOK, KindOK
<1>2. CASE client[p] = "verified" /\ "ssl" \in seen[p] /\ test[p].insecure
    <2> DEFINE signs == {}
    <2>1. seen' = [seen EXCEPT ![p] = @ \cup signs]
        BY <1>2 DEF Closed, Typed
    <2>2. /\ client' = [client EXCEPT ![p] = "insecure"]
          /\ alive' = [alive EXCEPT ![p] = (@ \ {client[p]}) \cup {"insecure"}]
          /\ at' = [at EXCEPT ![p] = "dialing"]
          /\ UNCHANGED <<raw, relay, test, result, cut, seen>>
        BY <1>2 DEF Closed, Goes
    <2>3. TlsFailed(p)'
        BY <1>1, <1>2, <2>2 DEF TaskOK, ClientOK, TlsFailed
    <2>4. signs \in SUBSET {"certificate"}
        OBVIOUS
    <2> HIDE DEF signs
    <2> QED
        BY <1>1, <1>2, <2>1, <2>2, <2>3, <2>4, FallsBackLocal
<1>3. CASE ~(client[p] = "verified" /\ "ssl" \in seen[p] /\ test[p].insecure)
    BY <1>1, <1>3, RaisedLocal DEF Closed, Releases
<1> QED
    BY <1>2, <1>3

\* The request of is_nostr_relay ends.
LEMMA FetchLocal ==
    ASSUME NEW p \in Probe, Typed, TaskOK(p),
           NEW answer \in FetchAnswers, Fetch(p, answer)
    PROVE  Local(p)
<1> DEFINE r == IF answer \in {"sdk", "cancelled"} THEN Raised
                ELSE Verdict(answer \in {"eose", "auth", "silent"})
<1>1. /\ at[p] = "fetching" /\ at' = [at EXCEPT ![p] = "teardown"]
      /\ result' = [result EXCEPT ![p] = r]
      /\ seen' = [seen EXCEPT ![p] = @ \cup {answer}]
      /\ UNCHANGED <<raw, relay, test, client, alive, cut>>
    BY DEF Fetch, Goes, Returns, Sees
<1>2. r \in Results /\ (r.open = "ok" => answer \in {"eose", "auth", "silent"})
    BY DEF Results, Outcomes, Raised, Verdict, Phases
<1> HIDE DEF r
<1>3. Typed' /\ Same(p)
    BY <1>1, <1>2 DEF Typed, Same, Places, Holding, Signs, Answers, FetchAnswers
<1>4. at'[p] = "teardown" /\ seen'[p] = seen[p] \cup {answer} /\ result'[p] = r
    BY <1>1 DEF Typed
<1>5. test[p].kind = "validate"
    BY <1>1 DEF TaskOK, KindOK
<1>6. WaitingOK(p)' /\ KindOK(p)' /\ ClientOK(p)'
    BY <1>1, <1>4, <1>5 DEF TaskOK, WaitingOK, KindOK, ClientOK, Overlay, Holding, Waiting,
                            TlsFailed, ProxyOK, FetchAnswers
<1>7. ResultOK(p)'
    BY <1>1, <1>2, <1>4, <1>5 DEF TaskOK, ResultOK
<1> QED
    BY <1>3, <1>6, <1>7 DEF Local, TaskOK

\* The finally that shuts the client down, and its interruption.
LEMMA TornDownLocal ==
    ASSUME NEW p \in Probe, Typed, TaskOK(p), at[p] = "teardown",
           at' = [at EXCEPT ![p] = "done"],
           client' = [client EXCEPT ![p] = NoClient],
           \/ alive' = [alive EXCEPT ![p] = @ \ {client[p]}] /\ UNCHANGED cut
           \/ UNCHANGED alive /\ cut' = [cut EXCEPT ![p] = TRUE],
           UNCHANGED result \/ result' = [result EXCEPT ![p] = Raised],
           UNCHANGED <<raw, relay, test, seen>>
    PROVE  Local(p)
<1>1. Raised \in Results /\ Raised.open # "ok"
    BY DEF Results, Outcomes, Raised, Phases
<1>2. Typed' /\ Same(p)
    BY <1>1 DEF Typed, Same, Places
<1>3. /\ at'[p] = "done" /\ client'[p] = NoClient /\ result'[p] \in {result[p], Raised}
      /\ ~cut'[p] => alive'[p] = {}
      /\ cut'[p] => \A c, d \in alive'[p] : c = d
    BY DEF Typed, TaskOK, ClientOK
<1>4. WaitingOK(p)' /\ KindOK(p)'
    BY <1>3 DEF WaitingOK, KindOK, Waiting
<1>5. ClientOK(p)'
    BY <1>3 DEF TaskOK, ClientOK, Holding, NoClient
<1>6. ResultOK(p)'
    BY <1>1, <1>3 DEF TaskOK, ResultOK, Reports
<1> QED
    BY <1>2, <1>4, <1>5, <1>6 DEF Local, TaskOK

LEMMA TeardownLocal ==
    ASSUME NEW p \in Probe, Typed, TaskOK(p), Teardown(p)
    PROVE  Local(p)
BY TornDownLocal DEF Teardown, Releases, Leaves, Goes

LEMMA TeardownInterruptedLocal ==
    ASSUME NEW p \in Probe, Typed, TaskOK(p), NEW error, TeardownInterrupted(p, error)
    PROVE  Local(p)
BY TornDownLocal DEF TeardownInterrupted, Returns, Leaves, Goes

\* The phases of the RTT test: one step of it, to the next place.
LEMMA PhaseLocal ==
    ASSUME NEW p \in Probe, Typed, TaskOK(p),
           at[p] \in {"reading", "writing", "verifying"},
           NEW place \in {"writing", "verifying", "teardown"}, at' = [at EXCEPT ![p] = place],
           NEW r \in Results, result' = [result EXCEPT ![p] = r],
           NEW what \in SUBSET Answers, seen' = [seen EXCEPT ![p] = @ \cup what],
           ResultOK(p)', UNCHANGED <<raw, relay, test, client, alive, cut>>
    PROVE  Local(p)
<1>1. Typed' /\ Same(p)
    BY DEF Typed, Same, Places, Holding, Signs
<1>2. at'[p] = place /\ seen'[p] = seen[p] \cup what
    BY DEF Typed
<1>3. WaitingOK(p)' /\ KindOK(p)' /\ ClientOK(p)'
    BY <1>2 DEF TaskOK, WaitingOK, KindOK, ClientOK, Overlay, Holding, Waiting,
                      TlsFailed, ProxyOK, Answers
<1> QED
    BY <1>1, <1>3 DEF Local, TaskOK

LEMMA TestReadLocal ==
    ASSUME NEW p \in Probe, Typed, TaskOK(p), NEW event \in BOOLEAN, TestRead(p, event)
    PROVE  Local(p)
<1> DEFINE r == [result[p] EXCEPT !.read = IF event THEN "ok" ELSE "failed"]
           what == IF event THEN {"event"} ELSE {}
<1>1. /\ at[p] = "reading" /\ at' = [at EXCEPT ![p] = "writing"]
      /\ result' = [result EXCEPT ![p] = r]
      /\ seen' = [seen EXCEPT ![p] = @ \cup what]
      /\ UNCHANGED <<raw, relay, test, client, alive, cut>>
    BY DEF TestRead, Goes, Returns, Sees
<1>2. /\ r \in Results /\ what \in SUBSET Answers
      /\ r.open = result[p].open /\ r.write = result[p].write
      /\ r.read = "ok" <=> event
    BY DEF Typed, Results, Outcomes, Answers
<1>3. at'[p] = "writing" /\ seen'[p] = seen[p] \cup what /\ result'[p] = r
    BY <1>1 DEF Typed
<1>4. what = IF event THEN {"event"} ELSE {}
    OBVIOUS
<1> HIDE DEF r, what
<1>5. ResultOK(p)'
    BY <1>1, <1>2, <1>3, <1>4 DEF TaskOK, ResultOK, Reports
<1> QED
    BY <1>1, <1>2, <1>5, PhaseLocal

LEMMA TestWriteLocal ==
    ASSUME NEW p \in Probe, Typed, TaskOK(p), NEW accepted \in BOOLEAN, TestWrite(p, accepted)
    PROVE  Local(p)
<1> DEFINE r == IF accepted THEN result[p] ELSE [result[p] EXCEPT !.write = "failed"]
           what == IF accepted THEN {"accepted"} ELSE {}
           place == IF accepted THEN "verifying" ELSE "teardown"
<1>1. /\ at[p] = "writing" /\ at' = [at EXCEPT ![p] = place]
      /\ result' = [result EXCEPT ![p] = r]
      /\ seen' = [seen EXCEPT ![p] = @ \cup what]
      /\ UNCHANGED <<raw, relay, test, client, alive, cut>>
    BY DEF TestWrite, Goes, Returns, Sees
<1>2. /\ r \in Results /\ what \in SUBSET Answers /\ place \in {"verifying", "teardown"}
      /\ r.open = result[p].open /\ r.read = result[p].read
      /\ r.write = "ok" => result[p].write = "ok"
    BY DEF Typed, Results, Outcomes, Answers
<1>3. at'[p] = place /\ seen'[p] = seen[p] \cup what /\ result'[p] = r
    BY <1>1 DEF Typed
<1>4. what = (IF accepted THEN {"accepted"} ELSE {}) /\ (place = "verifying" => accepted)
    OBVIOUS
<1>5. test[p].kind = "rtt"
    BY <1>1 DEF TaskOK, KindOK
<1> HIDE DEF r, what, place
<1>6. ResultOK(p)'
    BY <1>1, <1>2, <1>3, <1>4, <1>5 DEF TaskOK, ResultOK, Reports
<1> QED
    BY <1>1, <1>2, <1>6, PhaseLocal

LEMMA VerifyWriteLocal ==
    ASSUME NEW p \in Probe, Typed, TaskOK(p), NEW retrieved \in BOOLEAN,
           VerifyWrite(p, retrieved)
    PROVE  Local(p)
<1> DEFINE r == [result[p] EXCEPT !.write = IF retrieved THEN "ok" ELSE "failed"]
           what == IF retrieved THEN {"retrieved"} ELSE {}
<1>1. /\ at[p] = "verifying" /\ at' = [at EXCEPT ![p] = "teardown"]
      /\ result' = [result EXCEPT ![p] = r]
      /\ seen' = [seen EXCEPT ![p] = @ \cup what]
      /\ UNCHANGED <<raw, relay, test, client, alive, cut>>
    BY DEF VerifyWrite, Goes, Returns, Sees
<1>2. /\ r \in Results /\ what \in SUBSET Answers
      /\ r.open = result[p].open /\ r.read = result[p].read
      /\ r.write = "ok" <=> retrieved
    BY DEF Typed, Results, Outcomes, Answers
<1>3. at'[p] = "teardown" /\ seen'[p] = seen[p] \cup what /\ result'[p] = r
    BY <1>1 DEF Typed
<1>4. what = IF retrieved THEN {"retrieved"} ELSE {}
    OBVIOUS
<1>5. test[p].kind = "rtt"
    BY <1>1 DEF TaskOK, KindOK
<1> HIDE DEF r, what
<1>6. ResultOK(p)'
    BY <1>1, <1>2, <1>3, <1>4, <1>5 DEF TaskOK, ResultOK, Reports
<1> QED
    BY <1>1, <1>2, <1>6, PhaseLocal

LEMMA RttCancelledLocal ==
    ASSUME NEW p \in Probe, Typed, TaskOK(p), RttCancelled(p)
    PROVE  Local(p)
<1> DEFINE what == {}
<1>1. /\ at[p] \in {"reading", "writing", "verifying"} /\ at' = [at EXCEPT ![p] = "teardown"]
      /\ result' = [result EXCEPT ![p] = Raised]
      /\ seen' = [seen EXCEPT ![p] = @ \cup what]
      /\ UNCHANGED <<raw, relay, test, client, alive, cut, seen>>
    BY DEF RttCancelled, Goes, Returns, Typed
<1>2. Raised \in Results /\ what \in SUBSET Answers
    BY DEF Results, Outcomes, Raised, Phases
<1>3. at'[p] = "teardown" /\ result'[p] = Raised
    BY <1>1 DEF Typed
<1>4. test[p].kind = "rtt"
    BY <1>1 DEF TaskOK, KindOK
<1>5. ResultOK(p)'
    BY <1>1, <1>3, <1>4 DEF TaskOK, ResultOK
<1> HIDE DEF what
<1> QED
    BY <1>1, <1>2, <1>5, PhaseLocal

\* A session ends, or a lookup: a test that connects to no relay is over.
LEMMA EndedLocal ==
    ASSUME NEW p \in Probe, Typed, TaskOK(p),
           at[p] \in {"dialing", "lookup"}, test[p].kind \notin {"validate", "rtt"},
           at' = [at EXCEPT ![p] = "done"],
           client' = [client EXCEPT ![p] = NoClient],
           alive' = [alive EXCEPT ![p] = @ \ {client[p]}],
           NEW r \in Results, result' = [result EXCEPT ![p] = r],
           NEW what \in SUBSET (Signs \ {"ssl"}), seen' = [seen EXCEPT ![p] = @ \cup what],
           UNCHANGED <<raw, relay, test, cut>>
    PROVE  Local(p)
<1>1. Typed' /\ Same(p)
    BY DEF Typed, Same, Places
<1>2. at'[p] = "done" /\ client'[p] = NoClient /\ ~cut'[p] /\ alive'[p] = {}
    BY DEF Typed, TaskOK, ClientOK
<1>3. WaitingOK(p)' /\ KindOK(p)'
    BY <1>2 DEF WaitingOK, KindOK, Waiting
<1>4. ClientOK(p)'
    BY <1>2 DEF TaskOK, ClientOK, Typed, Holding, NoClient
<1>5. ResultOK(p)'
    BY <1>2 DEF ResultOK
<1> QED
    BY <1>1, <1>3, <1>4, <1>5 DEF Local, TaskOK

\* Results of the tests with one phase.
LEMMA VerdictType == Raised \in Results /\ AllFailed \in Results /\ \A ok : Verdict(ok) \in Results
BY DEF Raised, AllFailed, Verdict, Phases, Results, Outcomes

LEMMA InfoAnsweredLocal ==
    ASSUME NEW p \in Probe, Typed, TaskOK(p), NEW doc, InfoAnswered(p, doc)
    PROVE  Local(p)
<1>1. Verdict(Acceptable(doc)) \in Results /\ {"connected"} \in SUBSET (Signs \ {"ssl"})
    BY VerdictType DEF Signs
<1> QED
    BY <1>1, EndedLocal DEF InfoAnswered, Releases, Goes, Returns, Sees

LEMMA HttpAnsweredLocal ==
    ASSUME NEW p \in Probe, Typed, TaskOK(p), NEW headers, HttpAnswered(p, headers)
    PROVE  Local(p)
<1>1. Verdict(headers) \in Results /\ {"connected"} \in SUBSET (Signs \ {"ssl"})
    BY VerdictType DEF Signs
<1> QED
    BY <1>1, EndedLocal DEF HttpAnswered, Releases, Goes, Returns, Sees

LEMMA SessionFailsLocal ==
    ASSUME NEW p \in Probe, Typed, TaskOK(p), NEW error \in TlsErrors \cup {"refused", "cancelled"},
           SessionFails(p, error)
    PROVE  Local(p)
<1>1. /\ at[p] = "dialing" /\ test[p].kind \in {"info", "http"}
      /\ error = "certificate" => client[p] = "verified"
      /\ seen' = [seen EXCEPT ![p] = @ \cup {error}]
      /\ UNCHANGED <<raw, relay, test, cut>>
    BY DEF SessionFails, Sees
<1>2. CASE error = "certificate" /\ test[p].kind = "info" /\ test[p].insecure
    <2>1. /\ client' = [client EXCEPT ![p] = "insecure"]
          /\ alive' = [alive EXCEPT ![p] = (@ \ {client[p]}) \cup {"insecure"}]
          /\ UNCHANGED <<at, result>>
        BY <1>2 DEF SessionFails
    <2>2. at' = [at EXCEPT ![p] = "dialing"] /\ TlsFailed(p)'
        BY <1>1, <1>2, <2>1 DEF Typed, TlsFailed
    <2> QED
        BY <1>1, <1>2, <2>1, <2>2, FallsBackLocal
<1>3. CASE ~(error = "certificate" /\ test[p].kind = "info" /\ test[p].insecure)
    <2> DEFINE r == IF error = "cancelled" THEN Raised ELSE Verdict(FALSE)
    <2>1. result' = [result EXCEPT ![p] = r] /\ Releases(p) /\ at' = [at EXCEPT ![p] = "done"]
        BY <1>3 DEF SessionFails, Returns, Goes
    <2>2. r \in Results /\ {error} \in SUBSET (Signs \ {"ssl"})
        BY VerdictType DEF Signs, TlsErrors
    <2> HIDE DEF r
    <2> QED
        BY <1>1, <2>1, <2>2, EndedLocal DEF Releases
<1> QED
    BY <1>2, <1>3

\* A lookup holds no client.
LEMMA LookupFacts ==
    ASSUME NEW p \in Probe, Typed, TaskOK(p), at[p] = "lookup",
           UNCHANGED <<client, alive, seen>>
    PROVE  /\ test[p].kind \in Lookups
           /\ client' = [client EXCEPT ![p] = NoClient]
           /\ alive' = [alive EXCEPT ![p] = @ \ {client[p]}]
           /\ seen' = [seen EXCEPT ![p] = @ \cup {}]
<1>1. test[p].kind \in Lookups /\ client[p] = NoClient
    BY DEF TaskOK, KindOK, ClientOK, Holding
<1>2. alive[p] \in SUBSET Clients /\ NoClient \notin Clients
    BY DEF Typed, Clients, NoClient
<1>3. alive[p] \ {client[p]} = alive[p] /\ seen[p] \cup {} = seen[p]
    BY <1>1, <1>2
<1> QED
    BY <1>1, <1>3 DEF Typed

LEMMA LookupLocal ==
    ASSUME NEW p \in Probe, Typed, TaskOK(p), NEW found, Lookup(p, found) \/ LookupCancelled(p)
    PROVE  Local(p)
<1> DEFINE what == {}
<1>1. /\ at[p] = "lookup" /\ at' = [at EXCEPT ![p] = "done"]
      /\ UNCHANGED <<raw, relay, test, client, alive, cut, seen>>
    BY DEF Lookup, LookupCancelled, Goes
<1>2. PICK r \in Results : result' = [result EXCEPT ![p] = r]
    BY VerdictType DEF Lookup, LookupCancelled, Returns
<1>3. /\ test[p].kind \in Lookups
      /\ client' = [client EXCEPT ![p] = NoClient]
      /\ alive' = [alive EXCEPT ![p] = @ \ {client[p]}]
      /\ seen' = [seen EXCEPT ![p] = @ \cup what]
    BY <1>1, LookupFacts
<1>4. what \in SUBSET (Signs \ {"ssl"}) /\ test[p].kind \notin {"validate", "rtt"}
    BY <1>3 DEF Lookups
<1> HIDE DEF what
<1> QED
    BY <1>1, <1>2, <1>3, <1>4, EndedLocal

\* Which client is made first, by the network, the proxies and the test.
LEMMA FirstClientFacts ==
    ASSUME NEW kind, NEW network, NEW insecure
    PROVE  LET c == FirstClient(kind, network, insecure)
           IN  /\ c \in Clients \cup {NoClient}
               /\ c = "insecure" => insecure /\ network \notin OverlayNetworks /\ kind = "http"
               /\ c = "verified" => network \notin OverlayNetworks
               /\ c # NoClient /\ network \in OverlayNetworks =>
                     IF GetProxyUrl(network)
                     THEN network = "tor" \/ kind \in {"info", "http"} => c = "proxied"
                     ELSE kind = "info"
BY DEF FirstClient, CreateClient, Clients, NoClient

\* A test begins.
LEMMA BeginLocal ==
    ASSUME NEW p \in Probe, Typed, TaskOK(p), NEW kind \in Kinds, NEW insecure \in BOOLEAN,
           Begin(p, kind, insecure)
    PROVE  Local(p)
<1> DEFINE network == NetworkOf(ParseRelay(raw[p]))
           first == FirstClient(kind, network, insecure)
           words == Words \in ToSet(ParseRelay(raw[p]).path)
           rel == [network |-> network, words |-> words]
           tst == [kind |-> kind, insecure |-> insecure]
           asked == IF kind = "validate" THEN Raised
                    ELSE IF kind = "rtt" THEN AllFailed ELSE Verdict(FALSE)
<1>1. /\ at[p] = "parsed"
      /\ raw' = [raw EXCEPT ![p] = NoUrl]
      /\ relay' = [relay EXCEPT ![p] = rel]
      /\ test' = [test EXCEPT ![p] = tst]
      /\ UNCHANGED <<cut, seen>>
    BY DEF Begin
<1>2. \/ /\ kind \in Lookups /\ at' = [at EXCEPT ![p] = "lookup"]
         /\ UNCHANGED <<client, result, alive>>
      \/ /\ kind \notin Lookups /\ at' = [at EXCEPT ![p] = "done"]
         /\ result' = [result EXCEPT ![p] = asked] /\ UNCHANGED <<client, alive>>
      \/ /\ kind \in {"validate", "rtt"} /\ first # NoClient /\ network \in OverlayNetworks
         /\ at' = [at EXCEPT ![p] = "resolving"] /\ UNCHANGED <<client, alive, result>>
      \/ /\ kind \notin Lookups /\ first # NoClient
         /\ at' = [at EXCEPT ![p] = "dialing"] /\ UNCHANGED result
         /\ client' = [client EXCEPT ![p] = first]
         /\ alive' = [alive EXCEPT ![p] = @ \cup {first}]
    BY DEF Begin, Lookups, Goes, Returns, Makes, suppressor
<1>3. /\ first \in Clients \cup {NoClient}
      /\ first = "insecure" => insecure /\ network \notin OverlayNetworks /\ kind = "http"
      /\ first = "verified" => network \notin OverlayNetworks
      /\ first # NoClient /\ network \in OverlayNetworks =>
            IF GetProxyUrl(network)
            THEN network = "tor" \/ kind \in {"info", "http"} => first = "proxied"
            ELSE kind = "info"
    BY FirstClientFacts
<1>4. /\ rel \in Relays /\ rel.network = network
      /\ tst \in Tests /\ tst.kind = kind /\ tst.insecure = insecure
    BY NetworkType DEF Relays, Tests
<1>5. asked \in Results /\ (kind = "rtt" => asked = AllFailed)
      /\ (kind = "validate" => asked.open # "ok")
    BY VerdictType DEF Raised, Phases
<1> HIDE DEF network, first, words, rel, tst, asked
<1>6. /\ seen[p] = {} /\ client[p] = NoClient /\ ~cut[p] /\ alive[p] = {}
    BY <1>1 DEF TaskOK, WaitingOK, ClientOK, Waiting, Holding
<1>7. Typed' /\ Same(p)
    BY <1>1, <1>2, <1>3, <1>4, <1>5 DEF Typed, Same, Places, Holding
<1>8. relay'[p] = rel /\ test'[p] = tst /\ seen'[p] = {} /\ cut'[p] = cut[p]
    BY <1>1, <1>6 DEF Typed
<1>9. \/ /\ kind \in Lookups /\ at'[p] = "lookup"
         /\ client'[p] = NoClient /\ alive'[p] = alive[p]
      \/ /\ kind \notin Lookups /\ at'[p] = "done" /\ result'[p] = asked
         /\ client'[p] = NoClient /\ alive'[p] = alive[p]
      \/ /\ kind \in {"validate", "rtt"} /\ first # NoClient /\ network \in OverlayNetworks
         /\ at'[p] = "resolving"
         /\ client'[p] = NoClient /\ alive'[p] = alive[p]
      \/ /\ kind \notin Lookups /\ first # NoClient /\ at'[p] = "dialing"
         /\ client'[p] = first /\ alive'[p] = alive[p] \cup {first}
    BY <1>2, <1>6 DEF Typed
<1>10. WaitingOK(p)' /\ KindOK(p)'
    BY <1>4, <1>8, <1>9 DEF WaitingOK, KindOK, Waiting, Kinds, Lookups
<1>11. ClientOK(p)'
    BY <1>3, <1>4, <1>6, <1>8, <1>9 DEF ClientOK, Overlay, Holding, NoClient, TlsFailed, ProxyOK
<1>12. ResultOK(p)'
    BY <1>4, <1>5, <1>8, <1>9 DEF ResultOK
<1> QED
    BY <1>7, <1>10, <1>11, <1>12 DEF Local, TaskOK

\* A step of a task keeps its own invariant and leaves the others alone.
LEMMA TaskLocal ==
    ASSUME NEW p \in Probe, Typed, TaskOK(p), Task(p)
    PROVE  Local(p)
BY ReceiveLocal, ConnectedLocal, ClosedLocal, TeardownLocal, RttCancelledLocal,
   ProxyResolvedLocal, LookupLocal, ProxyUnresolvedLocal, BeginLocal, NotConnectedLocal,
   ConnectInterruptedLocal, FetchLocal, TeardownInterruptedLocal, TestReadLocal,
   TestWriteLocal, VerifyWriteLocal, InfoAnsweredLocal, HttpAnsweredLocal, SessionFailsLocal
   DEF Task

-----------------------------------------------------------------------------
(* The suppressor *)

Inside(p) == test[p].kind = "validate" /\ at[p] \in Redirecting

Enters(p) == ~Inside(p) /\ Inside(p)' /\ EnterSuppressor
Exits(p) == Inside(p) /\ ~Inside(p)' /\ ExitSuppressor
Keeps(p) == (Inside(p)' <=> Inside(p)) /\ UNCHANGED suppressor

\* is_nostr_relay leaves the suppressor once, the other tests never entered it.
LEMMA LeavesExits ==
    ASSUME NEW p \in Probe, Typed, Leaves(p), at[p] \in Redirecting, UNCHANGED test
    PROVE  Exits(p) \/ Keeps(p)
<1>1. at'[p] = "done" /\ ~Inside(p)'
    BY DEF Leaves, Goes, Typed, Inside, Redirecting
<1> QED
    BY <1>1 DEF Leaves, Exits, Keeps, Inside

\* A step that changes neither kind nor redirection keeps it.
LEMMA InsideSame ==
    ASSUME NEW p \in Probe, UNCHANGED <<test, suppressor>>,
           \/ at[p] \in Redirecting /\ at'[p] \in Redirecting
           \/ at[p] \notin Redirecting /\ at'[p] \notin Redirecting
           \/ test[p].kind # "validate"
    PROVE  Keeps(p)
BY DEF Keeps, Inside

\* A validation that begins enters it, if it has a client to connect with.
LEMMA BeginEnters ==
    ASSUME NEW p \in Probe, Typed, NEW kind \in Kinds, NEW insecure \in BOOLEAN,
           Begin(p, kind, insecure)
    PROVE  Enters(p) \/ Keeps(p)
<1> DEFINE network == NetworkOf(ParseRelay(raw[p]))
           first == FirstClient(kind, network, insecure)
           tst == [kind |-> kind, insecure |-> insecure]
<1>1. at[p] = "parsed" /\ test' = [test EXCEPT ![p] = tst]
    BY DEF Begin
<1>2. test'[p].kind = kind /\ ~Inside(p)
    BY <1>1 DEF Typed, Inside, Redirecting
<1>3. \/ kind \in Lookups /\ at' = [at EXCEPT ![p] = "lookup"] /\ UNCHANGED suppressor
      \/ at' = [at EXCEPT ![p] = "done"] /\ UNCHANGED suppressor
      \/ /\ at' = [at EXCEPT ![p] = "resolving"] \/ at' = [at EXCEPT ![p] = "dialing"]
         /\ IF kind = "validate" THEN EnterSuppressor ELSE UNCHANGED suppressor
    BY DEF Begin, Goes, Lookups
<1> HIDE DEF network, first, tst
<1>4. \/ kind # "validate" /\ UNCHANGED suppressor
      \/ at'[p] = "done" /\ UNCHANGED suppressor
      \/ kind = "validate" /\ at'[p] \in {"resolving", "dialing"} /\ EnterSuppressor
    BY <1>3 DEF Typed, Lookups
<1> QED
    BY <1>2, <1>4 DEF Enters, Keeps, Inside, Redirecting

\* Every step of a task enters the suppressor, leaves it or keeps it.
LEMMA TaskSuppressor ==
    ASSUME NEW p \in Probe, Typed, TaskOK(p), Task(p)
    PROVE  Enters(p) \/ Exits(p) \/ Keeps(p)
<1>1. CASE \E kind \in Kinds, insecure \in BOOLEAN : Begin(p, kind, insecure)
    BY <1>1, BeginEnters
<1>2. CASE \/ Teardown(p) \/ \E error \in {"timeout", "cancelled"} : TeardownInterrupted(p, error)
    <2>1. Leaves(p) /\ at[p] = "teardown" /\ UNCHANGED test
        BY <1>2 DEF Teardown, TeardownInterrupted
    <2> QED
        BY <2>1, LeavesExits DEF Redirecting
<1>3. CASE \/ \E error \in {"dns", "timeout", "cancelled"} : ProxyUnresolved(p, error)
           \/ \E error \in {"sdk", "timeout", "cancelled"} : ConnectInterrupted(p, error)
    <2>1. Leaves(p) /\ at[p] \in {"resolving", "dialing", "closing"} /\ UNCHANGED test
        BY <1>3 DEF ProxyUnresolved, ConnectInterrupted, ConnectRaises
    <2> QED
        BY <2>1, LeavesExits DEF Redirecting
<1>4. CASE Closed(p)
    <2>1. at[p] = "closing" /\ UNCHANGED test
        BY <1>4 DEF Closed
    <2>2. Leaves(p) \/ (at' = [at EXCEPT ![p] = "dialing"] /\ UNCHANGED suppressor)
        BY <1>4 DEF Closed, ConnectRaises, Goes
    <2>3. Leaves(p) \/ (at'[p] = "dialing" /\ UNCHANGED suppressor)
        BY <2>2 DEF Typed
    <2> QED
        BY <2>1, <2>3, LeavesExits, InsideSame DEF Redirecting
<1>5. CASE Receive(p)
    <2>1. at[p] = "idle" /\ UNCHANGED <<test, suppressor>> /\ at'[p] \in {"dropped", "parsed"}
        BY <1>5 DEF Receive, Typed
    <2> QED
        BY <2>1, InsideSame DEF Redirecting
<1>6. CASE \/ Connected(p) \/ ProxyResolved(p) \/ \E error, ssl : NotConnected(p, error, ssl)
    <2>1. /\ at[p] \in {"resolving", "dialing"} /\ UNCHANGED <<test, suppressor>>
          /\ at'[p] \in Redirecting \/ test[p].kind # "validate"
        BY <1>6 DEF Connected, ProxyResolved, NotConnected, Goes, Typed, Redirecting
    <2> QED
        BY <2>1, InsideSame DEF Redirecting
<1>7. CASE \E answer \in FetchAnswers : Fetch(p, answer)
    <2>1. at[p] = "fetching" /\ at'[p] = "teardown" /\ UNCHANGED <<test, suppressor>>
        BY <1>7 DEF Fetch, Goes, Typed
    <2> QED
        BY <2>1, InsideSame DEF Redirecting
<1>8. CASE \/ RttCancelled(p)
           \/ \E ok \in BOOLEAN : TestRead(p, ok) \/ TestWrite(p, ok) \/ VerifyWrite(p, ok)
    <2>1. at[p] \in {"reading", "writing", "verifying"} /\ UNCHANGED <<test, suppressor>>
        BY <1>8 DEF RttCancelled, TestRead, TestWrite, VerifyWrite
    <2>2. test[p].kind # "validate"
        BY <2>1 DEF TaskOK, KindOK
    <2> QED
        BY <2>1, <2>2, InsideSame
<1>9. CASE \/ \E doc \in Documents : InfoAnswered(p, doc)
           \/ \E headers \in BOOLEAN : HttpAnswered(p, headers)
           \/ \E error \in TlsErrors \cup {"refused", "cancelled"} : SessionFails(p, error)
    <2>1. test[p].kind \in {"info", "http"} /\ UNCHANGED <<test, suppressor>>
        BY <1>9 DEF InfoAnswered, HttpAnswered, SessionFails
    <2> QED
        BY <2>1, InsideSame
<1>10. CASE LookupCancelled(p) \/ \E found \in SUBSET Sources : Lookup(p, found)
    <2>1. at[p] = "lookup" /\ at'[p] = "done" /\ UNCHANGED <<test, suppressor>>
        BY <1>10 DEF LookupCancelled, Lookup, Goes, Typed
    <2> QED
        BY <2>1, InsideSame DEF Redirecting
<1> QED
    BY <1>1, <1>2, <1>3, <1>4, <1>5, <1>6, <1>7, <1>8, <1>9, <1>10 DEF Task

\* The reference count is the number of validations inside.
LEMMA SuppressorStep ==
    ASSUME NEW p \in Probe, StderrOK, Same(p), Enters(p) \/ Exits(p) \/ Keeps(p)
    PROVE  StderrOK'
<1>1. Running' = {q \in Probe : Inside(q)'} /\ Running = {q \in Probe : Inside(q)}
    BY DEF Running, Inside
<1>2. \A q \in Probe \ {p} : Inside(q)' <=> Inside(q)
    BY DEF Same, Inside
<1>3. /\ IsFiniteSet(Running) /\ refcount = Cardinality(Running) /\ refcount \in Nat
      /\ IF Running = {} THEN stderr = "filter" /\ devnull = "closed"
         ELSE stderr = "null" /\ devnull = "open" /\ saved_stderr = "filter"
    BY FS_CardinalityType DEF StderrOK, StderrRestored, Running, Redirecting
<1>4. Running = {} <=> refcount = 0
    BY <1>3, FS_EmptySet
<1> SUFFICES /\ IsFiniteSet(Running') /\ refcount' = Cardinality(Running')
             /\ IF Running' = {} THEN stderr' = "filter" /\ devnull' = "closed"
                ELSE stderr' = "null" /\ devnull' = "open" /\ saved_stderr' = "filter"
    BY DEF StderrOK, StderrRestored, Running, Redirecting
<1>5. CASE Enters(p)
    <2>1. Running' = Running \cup {p} /\ p \notin Running
        BY <1>1, <1>2, <1>5 DEF Enters
    <2>2. IsFiniteSet(Running') /\ Cardinality(Running') = Cardinality(Running) + 1
        BY <1>3, <2>1, FS_AddElement
    <2>3. /\ refcount' = refcount + 1 /\ devnull' = "open" /\ stderr' = "null"
          /\ saved_stderr' = "filter"
        BY <1>3, <1>4, <1>5 DEF Enters, EnterSuppressor
    <2> QED
        BY <1>3, <2>1, <2>2, <2>3
<1>6. CASE Exits(p)
    <2>1. Running' = Running \ {p} /\ p \in Running
        BY <1>1, <1>2, <1>6 DEF Exits
    <2>2. IsFiniteSet(Running') /\ Cardinality(Running') = Cardinality(Running) - 1
        BY <1>3, <2>1, FS_RemoveElement
    <2>3. Running' = {} <=> refcount = 1
        BY <1>3, <2>2, FS_EmptySet
    <2>4. Running # {}
        BY <2>1
    <2>5. /\ refcount' = refcount - 1
          /\ IF refcount = 1
             THEN stderr' = saved_stderr /\ devnull' = "closed"
             ELSE UNCHANGED <<stderr, devnull, saved_stderr>>
        BY <1>6 DEF Exits, ExitSuppressor
    <2> QED
        BY <1>3, <2>2, <2>3, <2>4, <2>5
<1>7. CASE Keeps(p)
    <2>1. Running' = Running
        BY <1>1, <1>2, <1>7 DEF Keeps
    <2> QED
        BY <1>3, <1>7, <2>1 DEF Keeps, suppressor
<1> QED
    BY <1>5, <1>6, <1>7

-----------------------------------------------------------------------------
(* URLs *)

\* The URL that sanitize_relay_url makes of a raw one, where it does not raise.
CleanUrl(u) ==
    [scheme |-> SchemeOf(DetectNetwork(u.host)), host |-> u.host, form |-> HostForm(u.form),
     port |-> IF u.port = DefaultPort(SchemeOf(DetectNetwork(u.host))) THEN NoPort ELSE u.port,
     path |-> SanitizePath(ResolveDots(u.path)), tail |-> FALSE]

LEMMA SanitizeClean ==
    ASSUME NEW u, Sanitize(u) # NoUrl
    PROVE  Sanitize(u) = CleanUrl(u)
<1> DEFINE refused == \/ u.scheme \notin Schemes
                      \/ DetectNetwork(u.host) \in {"local", "unknown"}
                      \/ u.port # NoPort /\ u.port \notin 1..PORT_MAX
                      \/ Len(SanitizePath(ResolveDots(u.path))) > MaxSegments
<1>1. Sanitize(u) = IF refused THEN NoUrl ELSE CleanUrl(u)
    BY DEF Sanitize, CleanUrl
<1> HIDE DEF refused
<1> QED
    BY <1>1

\* Of the spellings of a host only "plain" is canonical; a canonical URL keeps
\* the host, and its scheme follows from the network.
LEMMA CanonicalUrl ==
    ASSUME NEW u \in RawUrls, ParseRelay(u) # NoUrl
    PROVE  ParseRelay(u) = CleanUrl(u) /\ HostForm(u.form) = "plain"
<1>1. ParseRelay(u) = Sanitize(u) /\ Sanitize(u) # NoUrl /\ Sanitize(Sanitize(u)) = Sanitize(u)
    BY Zenon DEF ParseRelay, IsCanonical
<1>2. Sanitize(u) = CleanUrl(u) /\ Sanitize(Sanitize(u)) = CleanUrl(Sanitize(u))
    BY <1>1, SanitizeClean
<1>3. CleanUrl(CleanUrl(u)) = CleanUrl(u)
    BY <1>1, <1>2, Zenon
<1>4. \A w : CleanUrl(w).form = HostForm(w.form)
    BY DEF CleanUrl
<1>5. HostForm(HostForm(u.form)) = HostForm(u.form)
    BY <1>3, <1>4
<1>6. u.form \in {"plain", "upper", "escaped", "idn", "dotted", "long"}
    BY RawUrlsAssumption
<1>7. HostForm(u.form) = "plain"
    BY <1>5, <1>6 DEF HostForm, NormalizeIp, Unquote, Lowercase, PreprocessIdn
<1> QED
    BY <1>1, <1>2, <1>7

\* What decides the URL of a relay: the host, the port and the path.
Standard(u) == DefaultPort(SchemeOf(DetectNetwork(u.host)))
Stored(u) == IF u.port = Standard(u) THEN NoPort ELSE u.port
Dialled(u) == IF u.port # NoPort THEN u.port ELSE Standard(u)
Path(u) == SanitizePath(ResolveDots(u.path))

LEMMA SameUrl ==
    ASSUME NEW u \in RawUrls, NEW v \in RawUrls, ParseRelay(u) # NoUrl, ParseRelay(v) # NoUrl
    PROVE  ParseRelay(u) = ParseRelay(v) <=>
              u.host = v.host /\ Stored(u) = Stored(v) /\ Path(u) = Path(v)
<1>1. \A w : CleanUrl(w) =
        [scheme |-> SchemeOf(DetectNetwork(w.host)), host |-> w.host,
         form |-> HostForm(w.form), port |-> Stored(w), path |-> Path(w), tail |-> FALSE]
    BY DEF CleanUrl, Stored, Standard, Path
<1>2. CleanUrl(u) = CleanUrl(v) =>
         u.host = v.host /\ Stored(u) = Stored(v) /\ Path(u) = Path(v)
    BY <1>1
<1>3. HostForm(u.form) = "plain" /\ HostForm(v.form) = "plain"
    BY CanonicalUrl
<1>4. u.host = v.host /\ Stored(u) = Stored(v) /\ Path(u) = Path(v)
      => CleanUrl(u) = CleanUrl(v)
    BY <1>1, <1>3
<1> QED
    BY <1>2, <1>4, CanonicalUrl

\* The port that is stored is the one that is dialled, but for the default.
LEMMA SamePort ==
    ASSUME NEW u \in RawUrls, NEW v \in RawUrls, u.host = v.host
    PROVE  Stored(u) = Stored(v) <=> Dialled(u) = Dialled(v)
BY RawUrlsAssumption DEF Stored, Dialled, Standard, DefaultPort, NoPort

\* A path that is kept is the one that was spelled.
LEMMA KeptPath ==
    ASSUME NEW u
    PROVE  Path(u) \in {Segments(u), <<>>}
BY DEF Path, SanitizePath, Segments

\* Spelling decides whether it is.
LEMMA PathOfSegments ==
    ASSUME NEW u, NEW v, Segments(u) = Segments(v)
    PROVE  Path(u) = Path(v)
<1> DEFINE kept(s) ==
        IF \A i \in DOMAIN s : ToSet(NonEmpty(Decode(s[i]))) \subseteq PathSegments
        THEN s ELSE <<>>
<1>1. Path(u) = kept(Segments(u)) /\ Path(v) = kept(Segments(v))
    BY Zenon DEF Path, SanitizePath, Segments
<1> HIDE DEF kept
<1> QED
    BY <1>1

\* URLs with one key are one endpoint, but for paths that were dropped.
LEMMA OneKeyOneEndpoint ==
    ASSUME NEW u \in RawUrls, NEW v \in RawUrls, ParseRelay(u) # NoUrl, ParseRelay(v) # NoUrl,
           ParseRelay(u) = ParseRelay(v)
    PROVE  /\ Endpoint(u).host = Endpoint(v).host
           /\ Endpoint(u).port = Endpoint(v).port
           /\ \/ Endpoint(u).resource = Endpoint(v).resource
              \/ PathDropped(u) \/ PathDropped(v)
<1>1. u.host = v.host /\ Dialled(u) = Dialled(v) /\ Path(u) = Path(v)
    BY SameUrl, SamePort
<1>2. \A w : /\ Endpoint(w).host = w.host /\ Endpoint(w).port = Dialled(w)
             /\ Endpoint(w).resource = Resource(w)
    BY DEF Endpoint, Dialled, Standard
<1>3. ParseRelay(u).path = Path(u) /\ ParseRelay(v).path = Path(v)
    BY CanonicalUrl DEF CleanUrl, Path
<1>4. CASE Segments(u) = Segments(v)
    <2>1. Resource(u) = Resource(v)
        BY <1>4 DEF Resource, Escaped
    <2> QED
        BY <1>1, <1>2, <2>1
<1>5. CASE Segments(u) # Segments(v)
    BY <1>1, <1>2, <1>3, <1>5, KeptPath DEF PathDropped
<1> QED
    BY <1>4, <1>5

\* An endpoint that is spelled without escapes has one key.
LEMMA OneEndpointOneKey ==
    ASSUME NEW u \in RawUrls, NEW v \in RawUrls, ParseRelay(u) # NoUrl, ParseRelay(v) # NoUrl,
           Endpoint(u) = Endpoint(v), ~Escaped(u), ~Escaped(v)
    PROVE  ParseRelay(u) = ParseRelay(v)
<1>1. u.host = v.host /\ Dialled(u) = Dialled(v) /\ Segments(u) = Segments(v)
    BY DEF Endpoint, Dialled, Standard, Resource
<1> QED
    BY <1>1, SameUrl, SamePort, PathOfSegments

-----------------------------------------------------------------------------
(* Theorems *)

LEMMA InitInv == Init => PInv
<1> SUFFICES ASSUME Init PROVE PInv
    OBVIOUS
<1>1. NoTest \in Tests /\ NoTest.kind = "none" /\ NoRelay \in Relays /\ Pending \in Results
    BY DEF NoTest, Tests, NoRelay, Relays, Networks, Pending, Phases, Results, Outcomes
<1>2. Typed
    BY <1>1 DEF Init, Typed, Places, Waiting
<1>3. ASSUME NEW p \in Probe PROVE TaskOK(p)
    <2>1. /\ at[p] = "idle" /\ client[p] = NoClient /\ alive[p] = {} /\ seen[p] = {}
          /\ test[p].kind = "none" /\ ~cut[p]
        BY <1>1 DEF Init
    <2> QED
        BY <2>1 DEF TaskOK, WaitingOK, KindOK, ClientOK, ResultOK, Holding, NoClient
<1>4. StderrOK
    <2>1. Running = {}
        BY <1>1 DEF Init, Running
    <2> QED
        BY <2>1, FS_EmptySet DEF StderrOK, StderrRestored, Running, Redirecting, Init
<1> QED
    BY <1>2, <1>3, <1>4 DEF PInv

LEMMA NextInv == PInv /\ [Next]_vars => PInv'
<1> SUFFICES ASSUME PInv, [Next]_vars PROVE PInv'
    OBVIOUS
<1>1. CASE Next
    <2>1. PICK p \in Probe : Task(p)
        BY <1>1 DEF Next
    <2>2. Local(p) /\ (Enters(p) \/ Exits(p) \/ Keeps(p))
        BY <2>1, TaskLocal, TaskSuppressor DEF PInv
    <2>3. \A q \in Probe : TaskOK(q)'
        BY <2>2, OthersOK DEF PInv, Local
    <2>4. StderrOK'
        BY <2>2, SuppressorStep DEF PInv, Local
    <2> QED
        BY <2>2, <2>3, <2>4 DEF PInv, Local
<1>2. CASE UNCHANGED vars
    BY <1>2 DEF vars, suppressor, PInv, Typed, StderrOK, StderrRestored, Running, TaskOK,
                WaitingOK, KindOK, ClientOK, ResultOK, Reports, Overlay, TlsFailed, ProxyOK
<1> QED
    BY <1>1, <1>2

\* The inductive invariant: the place of every task determines its test, its
\* client and what its result may claim, and refcount counts the validations.
THEOREM Invariance == Spec => []PInv
BY InitInv, NextInv, PTL DEF Spec

\* However many validations overlap, sys.stderr is redirected exactly while one
\* of them runs and restored by the last to leave.
THEOREM StderrIsRestored == Spec => []StderrRestored
<1>1. PInv => StderrRestored
    BY DEF PInv, StderrOK
<1> QED
    BY <1>1, Invariance, PTL

\* A test that was not interrupted while it connected or shut down has released
\* every client it made; one that was has lost one client at most.
THEOREM ClientsAreReleased == Spec => []ClientsReleased
<1>1. PInv => ClientsReleased
    <2> SUFFICES ASSUME PInv, NEW p \in Probe
                 PROVE  /\ ~cut[p] => alive[p] = {client[p]} \ {NoClient}
                                      /\ (at[p] = "done" => alive[p] = {})
                        /\ cut[p] => at[p] = "done" /\ \A c, d \in alive[p] : c = d
        BY DEF ClientsReleased
    <2>1. /\ ~cut[p] => alive[p] = {client[p]} \ {NoClient}
          /\ cut[p] => at[p] = "done" /\ \A c, d \in alive[p] : c = d
          /\ client[p] # NoClient <=> at[p] \in Holding
        BY DEF PInv, TaskOK, ClientOK
    <2> QED
        BY <2>1 DEF Holding
<1> QED
    BY <1>1, Invariance, PTL

\* Certificates go unverified, and overlay relays around their proxy, only where
\* DialsAllowed says.
THEOREM DialsAreAllowed == Spec => []DialsAllowed
<1>1. PInv => DialsAllowed
    BY DEF PInv, TaskOK, ClientOK, TlsFailed, ProxyOK, DialsAllowed
<1> QED
    BY <1>1, Invariance, PTL

\* A verdict claims only what the relay was seen to do.
THEOREM VerdictsAreSound == Spec => []VerdictSound
<1>1. PInv => VerdictSound
    <2> SUFFICES ASSUME PInv, NEW p \in Probe, at[p] = "done"
                 PROVE  /\ test[p].kind = "validate" /\ result[p].open = "ok" =>
                              \/ /\ "connected" \in seen[p]
                                 /\ seen[p] \cap {"eose", "auth", "silent"} # {}
                              \/ relay[p].words /\ "connected" \notin seen[p]
                        /\ test[p].kind = "rtt" => \A m \in MetadataOf(p) :
                              /\ IF "connected" \in seen[p] THEN m.open = "ok" ELSE m = AllFailed
                              /\ m.read = "ok" <=> "event" \in seen[p]
                              /\ m.write = "ok" <=> {"accepted", "retrieved"} \subseteq seen[p]
        BY DEF VerdictSound
    <2>1. ResultOK(p)
        BY DEF PInv, TaskOK
    <2>2. AllFailed.read # "ok" /\ AllFailed.write # "ok"
        BY DEF AllFailed, Phases
    <2>3. ASSUME test[p].kind = "rtt", NEW m \in MetadataOf(p)
          PROVE  /\ IF "connected" \in seen[p] THEN m.open = "ok" ELSE m = AllFailed
                 /\ m.read = "ok" <=> "event" \in seen[p]
                 /\ m.write = "ok" <=> {"accepted", "retrieved"} \subseteq seen[p]
        <3>1. m = result[p] /\ result[p] # Raised
            BY <2>3 DEF MetadataOf
        <3> QED
            BY <2>1, <2>2, <2>3, <3>1 DEF ResultOK, Reports, Answers
    <2> QED
        BY <2>1, <2>3 DEF ResultOK
<1> QED
    BY <1>1, Invariance, PTL

\* Any URLs stored under one key are one endpoint, but for paths that were
\* dropped, and spellings of one endpoint without escapes have one key.
THEOREM OneUrl == Spec => []OneUrlPerRelay
<1>1. PInv => OneUrlPerRelay
    BY OneKeyOneEndpoint, OneEndpointOneKey DEF PInv, TaskOK, WaitingOK, OneUrlPerRelay
<1> QED
    BY <1>1, Invariance, PTL
=============================================================================
