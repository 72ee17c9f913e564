----------------------------- MODULE RelayProbe -----------------------------
(***************************************************************************)
(* Tasks of one process that examine relays: the validation handshake      *)
(* (utils/protocol.py, is_nostr_relay), the NIP-66 tests and the NIP-11    *)
(* document.  They run concurrently, may be cancelled at any await, and    *)
(* share sys.stderr, which is_nostr_relay redirects while it runs.         *)
(*                                                                         *)
(* A "client" is a nostr-sdk client, or the aiohttp session of the NIP-11  *)
(* and HTTP tests.                                                         *)
(***************************************************************************)
EXTENDS RelayUrl, FiniteSets

CONSTANTS
    Probe,      \* tasks
    RawUrls,    \* URLs they are given
    Proxied,    \* overlay networks with a proxy_url
    Documents   \* answers to a NIP-11 request

\* URLs as RelayUrl describes them.
ASSUME RawUrlsAssumption ==
    RawUrls \subseteq [scheme : STRING, host : [labels : Seq(STRING), ip : STRING],
                       form : {"plain", "upper", "escaped", "idn", "dotted", "long"},
                       port : Int, path : Seq(STRING), tail : BOOLEAN]

Words == "auth-required"

VARIABLES
    raw,      \* task -> the URL it was given
    relay,    \* task -> what is kept of its relay: network, and whether the URL has the words
    test,     \* task -> kind of test, and allow_insecure
    at,       \* task -> where it is
    client,   \* task -> the client it holds
    result,   \* task -> what it returns
    refcount, saved_stderr, devnull, stderr,  \* _StderrSuppressor and sys.stderr
    alive,    \* ghost: task -> clients it made that were not shut down
    cut,      \* ghost: task -> was it interrupted while it connected or tore down
    seen      \* ghost: task -> what the relay did

suppressor == <<refcount, saved_stderr, devnull, stderr>>
vars == <<raw, relay, test, at, client, result, suppressor, alive, cut, seen>>

NoClient == "none"
NoTest == [kind |-> "none", insecure |-> FALSE]
NoRelay == [network |-> "none", words |-> FALSE]
Kinds == {"validate", "rtt", "info", "http", "tls", "dns", "geo", "net"}

\* The result of an RTT test has three phases, the others use the first.
Phases(open, read, write) == [open |-> open, read |-> read, write |-> write]
Pending == Phases("none", "none", "none")
Raised == Phases("raised", "none", "none")
AllFailed == Phases("failed", "failed", "failed")
Verdict(ok) == Phases(IF ok THEN "ok" ELSE "failed", "none", "none")

Overlay(p) == relay[p].network \in OverlayNetworks

\* NetworksConfig.get_proxy_url
GetProxyUrl(network) == network \in Proxied

-----------------------------------------------------------------------------

Init ==
    /\ raw = [p \in Probe |-> NoUrl] /\ relay = [p \in Probe |-> NoRelay]
    /\ test = [p \in Probe |-> NoTest] /\ at = [p \in Probe |-> "idle"]
    /\ client = [p \in Probe |-> NoClient] /\ result = [p \in Probe |-> Pending]
    /\ refcount = 0 /\ saved_stderr = "none" /\ devnull = "closed" /\ stderr = "filter"
    /\ alive = [p \in Probe |-> {}] /\ cut = [p \in Probe |-> FALSE]
    /\ seen = [p \in Probe |-> {}]

\* A URL is parsed; one that is not valid is dropped.
Receive(p) ==
    /\ at[p] = "idle"
    /\ \E u \in RawUrls :
          /\ raw' = [raw EXCEPT ![p] = u]
          /\ at' = [at EXCEPT ![p] = IF ParseRelay(u) = NoUrl THEN "dropped" ELSE "parsed"]
    /\ UNCHANGED <<relay, test, client, result, suppressor, alive, cut, seen>>

\* _StderrSuppressor.__call__, up to the yield and after it.
EnterSuppressor ==
    /\ refcount' = refcount + 1
    /\ saved_stderr' = IF refcount = 0 THEN stderr ELSE saved_stderr
    /\ devnull' = "open"
    /\ stderr' = "null"

\* Mutant: every exit restores sys.stderr.
ExitSuppressorEach ==
    /\ refcount' = refcount - 1
    /\ stderr' = saved_stderr
    /\ IF refcount = 1 THEN devnull' = "closed" /\ saved_stderr' = "none"
       ELSE UNCHANGED <<devnull, saved_stderr>>

ExitSuppressor ==
    /\ refcount' = refcount - 1
    /\ IF refcount = 1
       THEN stderr' = saved_stderr /\ devnull' = "closed" /\ saved_stderr' = "none"
       ELSE UNCHANGED <<stderr, devnull, saved_stderr>>

Makes(p, c) ==
    /\ client' = [client EXCEPT ![p] = c]
    /\ alive' = [alive EXCEPT ![p] = @ \cup {c}]

\* The client is shut down (shutdown_client, or the session's async with).
Releases(p) ==
    /\ client' = [client EXCEPT ![p] = NoClient]
    /\ alive' = [alive EXCEPT ![p] = @ \ {client[p]}]

Returns(p, r) == result' = [result EXCEPT ![p] = r]
Goes(p, place) == at' = [at EXCEPT ![p] = place]
Sees(p, what) == seen' = [seen EXCEPT ![p] = @ \cup what]

\* is_nostr_relay is left: the suppressor's finally.
Leaves(p) ==
    /\ Goes(p, "done")
    /\ IF test[p].kind = "validate" THEN ExitSuppressor ELSE UNCHANGED suppressor

\* create_client with a proxy_url: ConnectionTarget.ONION sends only the relays
\* of Tor through it, the others are dialled without.
CreateClient(network) == IF network = "tor" THEN "proxied" ELSE "direct"

\* connect_relay and the tests that open sessions: which client is made first.
\* NIP-11 has no check for a missing proxy; the HTTP test does not verify
\* certificates at all if allow_insecure is set.
FirstClient(kind, network, insecure) ==
    IF network \notin OverlayNetworks
    THEN IF kind = "http" /\ insecure THEN "insecure" ELSE "verified"
    ELSE IF ~GetProxyUrl(network) THEN IF kind = "info" THEN "direct" ELSE NoClient
    ELSE IF kind \in {"validate", "rtt"} THEN CreateClient(network) ELSE "proxied"

\* A test begins and runs up to its first await.  is_nostr_relay raises
\* ValueError for an overlay relay without proxy, the other tests fail.
Begin(p, kind, insecure) ==
    LET network == NetworkOf(ParseRelay(raw[p]))
        first == FirstClient(kind, network, insecure)
    IN  /\ at[p] = "parsed"
        /\ raw' = [raw EXCEPT ![p] = NoUrl]
        /\ relay' = [relay EXCEPT ![p] =
              [network |-> network, words |-> Words \in ToSet(ParseRelay(raw[p]).path)]]
        /\ test' = [test EXCEPT ![p] = [kind |-> kind, insecure |-> insecure]]
        /\ IF kind \in {"tls", "dns", "geo", "net"}
           THEN Goes(p, "lookup") /\ UNCHANGED <<client, result, suppressor, alive>>
           ELSE IF first = NoClient
           THEN /\ Goes(p, "done")
                /\ Returns(p, IF kind = "validate" THEN Raised
                              ELSE IF kind = "rtt" THEN AllFailed ELSE Verdict(FALSE))
                /\ UNCHANGED <<client, suppressor, alive>>
           ELSE /\ IF network \in OverlayNetworks /\ kind \in {"validate", "rtt"}
                   THEN Goes(p, "resolving") /\ UNCHANGED <<client, alive>>
                   ELSE Goes(p, "dialing") /\ Makes(p, first)
                /\ UNCHANGED result
                /\ IF kind = "validate" THEN EnterSuppressor ELSE UNCHANGED suppressor
        /\ UNCHANGED <<cut, seen>>

-----------------------------------------------------------------------------
(* connect_relay: is_nostr_relay and the RTT test *)

Connects(p) == test[p].kind \in {"validate", "rtt"}

\* try_connect or wait_for_connection succeeds: the client is returned.
Connected(p) ==
    /\ at[p] = "dialing" /\ Connects(p)
    /\ Goes(p, IF test[p].kind = "validate" THEN "fetching" ELSE "reading")
    /\ Sees(p, {"connected"})
    /\ IF test[p].kind = "rtt" THEN Returns(p, Phases("ok", "none", "none")) ELSE UNCHANGED result
    /\ UNCHANGED <<raw, relay, test, client, suppressor, alive, cut>>

TlsErrors == {"certificate", "tls"}

\* It does not, and connect_relay shuts the client down.  `ssl' says whether
\* _is_ssl_error finds one of its patterns in the library's message: it may
\* find one in that of any TLS failure, and may miss that of a certificate.
NotConnected(p, error, ssl) ==
    /\ at[p] = "dialing" /\ Connects(p)
    /\ error \in TlsErrors => ~Overlay(p)
    /\ ssl => error \in TlsErrors
    /\ Goes(p, "closing")
    /\ Sees(p, {error} \cup IF ssl THEN {"ssl"} ELSE {})
    /\ UNCHANGED <<raw, relay, test, client, result, suppressor, alive, cut>>

\* connect_relay raises.  is_nostr_relay takes an OSError whose text has the
\* words for an answer, and the text of connect_relay's own has the URL.
ConnectRaises(p, error) ==
    /\ Leaves(p)
    /\ Returns(p, IF test[p].kind = "rtt"
                  THEN IF error = "cancelled" THEN Raised ELSE AllFailed
                  ELSE IF error \in {"sdk", "cancelled"} THEN Raised
                  ELSE Verdict(error = "os" /\ relay[p].words))

\* create_client resolves the name of the proxy before it makes a client; the
\* text of an error there does not have the URL.
ProxyResolved(p) ==
    /\ at[p] = "resolving"
    /\ Makes(p, CreateClient(relay[p].network)) /\ Goes(p, "dialing")
    /\ UNCHANGED <<raw, relay, test, result, suppressor, cut, seen>>

ProxyUnresolved(p, error) ==
    /\ at[p] = "resolving"
    /\ error = "timeout" => test[p].kind = "validate"
    /\ ConnectRaises(p, error)
    /\ UNCHANGED <<raw, relay, test, client, alive, cut, seen>>

\* Mutant: any failure makes it fall back.
ClosedAnyFailure(p) ==
    /\ at[p] = "closing"
    /\ IF client[p] = "verified" /\ test[p].insecure
       THEN /\ client' = [client EXCEPT ![p] = "insecure"]
            /\ alive' = [alive EXCEPT ![p] = (@ \ {client[p]}) \cup {"insecure"}]
            /\ Goes(p, "dialing") /\ UNCHANGED <<result, suppressor>>
       ELSE Releases(p) /\ ConnectRaises(p, IF Overlay(p) THEN "timeout" ELSE "os")
    /\ UNCHANGED <<raw, relay, test, cut, seen>>

\* After the shutdown: the insecure transport, if the message was taken for a
\* TLS error and it is allowed, or an exception.
Closed(p) ==
    /\ at[p] = "closing"
    /\ IF client[p] = "verified" /\ "ssl" \in seen[p] /\ test[p].insecure
       THEN /\ client' = [client EXCEPT ![p] = "insecure"]
            /\ alive' = [alive EXCEPT ![p] = (@ \ {client[p]}) \cup {"insecure"}]
            /\ Goes(p, "dialing") /\ UNCHANGED <<result, suppressor>>
       ELSE Releases(p) /\ ConnectRaises(p, IF Overlay(p) THEN "timeout" ELSE "os")
    /\ UNCHANGED <<raw, relay, test, cut, seen>>

\* An exception of the library, the overall timeout of is_nostr_relay or a
\* cancellation while connect_relay awaits: its client is never shut down.
ConnectInterrupted(p, error) ==
    /\ at[p] \in {"dialing", "closing"} /\ Connects(p)
    /\ error = "sdk" => at[p] = "dialing"
    /\ error = "timeout" => test[p].kind = "validate"
    /\ client' = [client EXCEPT ![p] = NoClient]
    /\ cut' = [cut EXCEPT ![p] = TRUE]
    /\ ConnectRaises(p, error)
    /\ UNCHANGED <<raw, relay, test, alive, seen>>

-----------------------------------------------------------------------------
(* is_nostr_relay *)

\* Mutant: the TimeoutError is taken for an empty answer, too.
FetchTimeoutValid(p, answer) ==
    /\ at[p] = "fetching"
    /\ Goes(p, "teardown")
    /\ Returns(p, IF answer \in {"sdk", "cancelled"} THEN Raised
                  ELSE Verdict(answer \in {"eose", "auth", "silent", "timeout"}))
    /\ Sees(p, {answer})
    /\ UNCHANGED <<raw, relay, test, client, suppressor, alive, cut>>

\* fetch_events returns when EOSE comes, or without it when its own timeout
\* ends ("silent"); it raises an OSError (which may be "auth-required"), or the
\* overall timeout does ("timeout"); other exceptions are not caught.
Fetch(p, answer) ==
    /\ at[p] = "fetching"
    /\ Goes(p, "teardown")
    /\ Returns(p, IF answer \in {"sdk", "cancelled"} THEN Raised
                  ELSE Verdict(answer \in {"eose", "auth", "silent"}))
    /\ Sees(p, {answer})
    /\ UNCHANGED <<raw, relay, test, client, suppressor, alive, cut>>

\* Mutant: shutdown_client only in the path without exception.
TeardownSuccessOnly(p) ==
    /\ at[p] = "teardown"
    /\ IF result[p] = Raised THEN UNCHANGED <<client, alive>> ELSE Releases(p)
    /\ Leaves(p)
    /\ UNCHANGED <<raw, relay, test, result, cut, seen>>

\* The finally of is_nostr_relay and of the RTT test: shutdown_client.
Teardown(p) ==
    /\ at[p] = "teardown"
    /\ Releases(p)
    /\ Leaves(p)
    /\ UNCHANGED <<raw, relay, test, result, cut, seen>>

\* It is cut short: by its timeout (is_nostr_relay only) or a cancellation.
TeardownInterrupted(p, error) ==
    /\ at[p] = "teardown"
    /\ error = "timeout" => test[p].kind = "validate"
    /\ client' = [client EXCEPT ![p] = NoClient]
    /\ cut' = [cut EXCEPT ![p] = TRUE]
    /\ IF error = "cancelled" THEN Returns(p, Raised) ELSE UNCHANGED result
    /\ Leaves(p)
    /\ UNCHANGED <<raw, relay, test, alive, seen>>

-----------------------------------------------------------------------------
(* The RTT test *)

\* _test_read: the first event of the stream, none, or a caught exception.
TestRead(p, event) ==
    /\ at[p] = "reading"
    /\ Goes(p, "writing")
    /\ Returns(p, [result[p] EXCEPT !.read = IF event THEN "ok" ELSE "failed"])
    /\ Sees(p, IF event THEN {"event"} ELSE {})
    /\ UNCHANGED <<raw, relay, test, client, suppressor, alive, cut>>

\* _test_write: an event that was accepted is looked for.
TestWrite(p, accepted) ==
    /\ at[p] = "writing"
    /\ Goes(p, IF accepted THEN "verifying" ELSE "teardown")
    /\ Returns(p, IF accepted THEN result[p] ELSE [result[p] EXCEPT !.write = "failed"])
    /\ Sees(p, IF accepted THEN {"accepted"} ELSE {})
    /\ UNCHANGED <<raw, relay, test, client, suppressor, alive, cut>>

\* _verify_write
VerifyWrite(p, retrieved) ==
    /\ at[p] = "verifying"
    /\ Goes(p, "teardown")
    /\ Returns(p, [result[p] EXCEPT !.write = IF retrieved THEN "ok" ELSE "failed"])
    /\ Sees(p, IF retrieved THEN {"retrieved"} ELSE {})
    /\ UNCHANGED <<raw, relay, test, client, suppressor, alive, cut>>

\* A cancellation, which only the finally catches.
RttCancelled(p) ==
    /\ at[p] \in {"reading", "writing", "verifying"}
    /\ Goes(p, "teardown") /\ Returns(p, Raised)
    /\ UNCHANGED <<raw, relay, test, client, suppressor, alive, cut, seen>>

-----------------------------------------------------------------------------
(* Sessions and lookups *)

\* _read_bounded: the chunks of a body are read until they exceed max_size.
ReadBounded(doc) == FoldLeft(+, 0, doc.chunks) <= doc.max_size

\* Nip11InfoMetadata._request: status 200, a JSON type, within the size, a dict.
Acceptable(doc) == doc.status = 200 /\ doc.json /\ ReadBounded(doc) /\ doc.dict

\* Nip11InfoMetadata.execute: an answer to the request.
InfoAnswered(p, doc) ==
    /\ at[p] = "dialing" /\ test[p].kind = "info"
    /\ Releases(p) /\ Goes(p, "done")
    /\ Returns(p, Verdict(Acceptable(doc)))
    /\ Sees(p, {"connected"})
    /\ UNCHANGED <<raw, relay, test, suppressor, cut>>

\* Nip66HttpMetadata.execute: the handshake ends with headers, or without.
HttpAnswered(p, headers) ==
    /\ at[p] = "dialing" /\ test[p].kind = "http"
    /\ Releases(p) /\ Goes(p, "done")
    /\ Returns(p, Verdict(headers))
    /\ Sees(p, {"connected"})
    /\ UNCHANGED <<raw, relay, test, suppressor, cut>>

\* The request fails, and its session is closed; NIP-11 falls back to a
\* session without verification if the certificate was refused
\* (ClientConnectorCertificateError), and for no other failure of TLS.
SessionFails(p, error) ==
    /\ at[p] = "dialing" /\ test[p].kind \in {"info", "http"}
    /\ error = "tls" => client[p] \in {"verified", "insecure"}
    /\ error = "certificate" => client[p] = "verified"
    /\ IF error = "certificate" /\ test[p].kind = "info" /\ test[p].insecure
       THEN /\ client' = [client EXCEPT ![p] = "insecure"]
            /\ alive' = [alive EXCEPT ![p] = (@ \ {client[p]}) \cup {"insecure"}]
            /\ UNCHANGED <<at, result>>
       ELSE /\ Releases(p) /\ Goes(p, "done")
            /\ Returns(p, IF error = "cancelled" THEN Raised ELSE Verdict(FALSE))
    /\ Sees(p, {error})
    /\ UNCHANGED <<raw, relay, test, suppressor, cut>>

\* resolve_host: the addresses of the host, each family on its own.
ResolveHost(found) == found \cap {"ipv4", "ipv6"}

\* execute of the certificate, DNS, geolocation and network tests: clearnet
\* only.  `found' says which of their sources had something: a TLS handshake,
\* any DNS record, addresses of the host, an entry of the GeoIP database.
TlsFound(network, found) == network = "clearnet" /\ "handshake" \in found
DnsFound(network, found) == network = "clearnet" /\ "record" \in found
GeoFound(network, found) ==
    network = "clearnet" /\ ResolveHost(found) # {} /\ "entry" \in found
NetFound(network, found) == network = "clearnet" /\ ResolveHost(found) # {}

LookupCancelled(p) ==
    /\ at[p] = "lookup"
    /\ Goes(p, "done") /\ Returns(p, Raised)
    /\ UNCHANGED <<raw, relay, test, client, suppressor, alive, cut, seen>>

Lookup(p, found) ==
    /\ at[p] = "lookup"
    /\ Goes(p, "done")
    /\ Returns(p, LET n == relay[p].network
                  IN  Verdict(CASE test[p].kind = "tls" -> TlsFound(n, found)
                                [] test[p].kind = "dns" -> DnsFound(n, found)
                                [] test[p].kind = "geo" -> GeoFound(n, found)
                                [] test[p].kind = "net" -> NetFound(n, found)))
    /\ UNCHANGED <<raw, relay, test, client, suppressor, alive, cut, seen>>

-----------------------------------------------------------------------------

Sources == {"handshake", "record", "ipv4", "ipv6", "entry"}
FetchAnswers == {"eose", "silent", "auth", "os", "timeout", "sdk", "cancelled"}

Task(p) ==
    \/ Receive(p) \/ Connected(p) \/ Closed(p) \/ Teardown(p) \/ RttCancelled(p)
    \/ ProxyResolved(p) \/ LookupCancelled(p)
    \/ \E error \in {"dns", "timeout", "cancelled"} : ProxyUnresolved(p, error)
    \/ \E kind \in Kinds, insecure \in BOOLEAN : Begin(p, kind, insecure)
    \/ \E error \in TlsErrors \cup {"refused"}, ssl \in BOOLEAN : NotConnected(p, error, ssl)
    \/ \E error \in {"sdk", "timeout", "cancelled"} : ConnectInterrupted(p, error)
    \/ \E answer \in FetchAnswers : Fetch(p, answer)
    \/ \E error \in {"timeout", "cancelled"} : TeardownInterrupted(p, error)
    \/ \E ok \in BOOLEAN : TestRead(p, ok) \/ TestWrite(p, ok) \/ VerifyWrite(p, ok)
    \/ \E doc \in Documents : InfoAnswered(p, doc)
    \/ \E headers \in BOOLEAN : HttpAnswered(p, headers)
    \/ \E error \in TlsErrors \cup {"refused", "cancelled"} : SessionFails(p, error)
    \/ \E found \in SUBSET Sources : Lookup(p, found)

Next == \E p \in Probe : Task(p)

\* Nip66.create and to_relay_metadata_tuple: a record of each test that
\* returned, none of one that raised.
MetadataOf(p) == IF at[p] = "done" /\ result[p] # Raised THEN {result[p]} ELSE {}

Spec == Init /\ [][Next]_vars

-----------------------------------------------------------------------------
(* Properties *)

\* sanitize_relay_url neither merges two relays nor splits one.  URLs stored
\* under one key are dialled at one host and port and name one resource, except
\* that a path with an invalid segment is stored as the root; and two spellings
\* of one endpoint without percent-encoded segments have one key.
OneUrlPerRelay ==
    \A p, q \in Probe :
       LET u == raw[p]  v == raw[q]
           oneKey == ParseRelay(u) = ParseRelay(v)
       IN  at[p] = "parsed" /\ at[q] = "parsed" =>
             /\ oneKey => /\ Endpoint(u).host = Endpoint(v).host
                          /\ Endpoint(u).port = Endpoint(v).port
                          /\ \/ Endpoint(u).resource = Endpoint(v).resource
                             \/ PathDropped(u) \/ PathDropped(v)
             /\ Endpoint(u) = Endpoint(v) /\ ~Escaped(u) /\ ~Escaped(v) => oneKey

\* sys.stderr is redirected exactly while validations run, whatever the order
\* in which concurrent ones begin and end, and afterwards it is what it was
\* and /dev/null is closed.
StderrRestored ==
    LET running == {p \in Probe :
                       /\ test[p].kind = "validate"
                       /\ at[p] \in {"resolving", "dialing", "closing", "fetching", "teardown"}}
    IN  /\ refcount = Cardinality(running)
        /\ IF running = {} THEN stderr = "filter" /\ devnull = "closed"
           ELSE stderr = "null" /\ devnull = "open" /\ saved_stderr = "filter"

\* A test that has ended left no client behind, and a running one at most the
\* one it holds, unless it was interrupted while it connected or shut down:
\* then it is over and has lost the client of that moment, and no other.
ClientsReleased ==
    \A p \in Probe :
       /\ ~cut[p] => alive[p] = {client[p]} \ {NoClient}
                     /\ (at[p] = "done" => alive[p] = {})
       /\ cut[p] => at[p] = "done" /\ \A c, d \in alive[p] : c = d

\* A certificate goes unverified only if that is allowed and, but for the HTTP
\* test, only after a verified connection failed: in TLS for connect_relay,
\* for its certificate in NIP-11.  An overlay network without proxy is dialled
\* by NIP-11 only, which lacks the check; with a proxy every test of a Tor relay
\* goes through it, and those of I2P and Lokinet that use aiohttp.
DialsAllowed ==
    \A p \in Probe : LET kind == test[p].kind IN
       /\ client[p] = "insecure" =>
             /\ test[p].insecure /\ ~Overlay(p)
             /\ \/ kind = "http"
                \/ kind = "info" /\ "certificate" \in seen[p]
                \/ kind \in {"validate", "rtt"} /\ seen[p] \cap TlsErrors # {}
       /\ client[p] # NoClient /\ Overlay(p) =>
             IF GetProxyUrl(relay[p].network)
             THEN relay[p].network = "tor" \/ kind \in {"info", "http"} => client[p] = "proxied"
             ELSE kind = "info"

\* What is reported was observed: a relay is valid if it was connected to and
\* then ended a request with EOSE, asked for authentication or said nothing
\* until the request's own timeout (or if it failed to connect and has the words
\* in its URL), never if it failed the request or the overall timeout came; a
\* failed open fails all phases, and a write succeeded only if the event was
\* accepted and came back.
VerdictSound ==
    \A p \in Probe : at[p] = "done" =>
       /\ test[p].kind = "validate" /\ result[p].open = "ok" =>
             \/ "connected" \in seen[p] /\ seen[p] \cap {"eose", "auth", "silent"} # {}
             \/ relay[p].words /\ "connected" \notin seen[p]
       /\ test[p].kind = "rtt" => \A m \in MetadataOf(p) :
             /\ IF "connected" \in seen[p] THEN m.open = "ok" ELSE m = AllFailed
             /\ m.read = "ok" <=> "event" \in seen[p]
             /\ m.write = "ok" <=> {"accepted", "retrieved"} \subseteq seen[p]
=============================================================================
