------------------------------ MODULE RelayUrl ------------------------------
(***************************************************************************)
(* models/relay.py: how a relay URL from an event, a source or a           *)
(* configuration becomes the key under which the relay is stored.          *)
(*                                                                         *)
(* A URL is a record: its scheme; its host (the labels of a name, or the   *)
(* range of an IP address) and the form in which that is spelled; its      *)
(* port; the segments of its path; and whether a query or fragment         *)
(* follows.  The labels that matter are "localhost", "b32", the overlay    *)
(* TLDs, the base32 hashes by their length ("hash16", "hash52", "hash56"), *)
(* one of digits only, and "bad", one that RFC 1123 does not allow.  The   *)
(* forms of a host are                                                     *)
(*    "plain"    as it is stored: lowercase ASCII, compressed IPv6         *)
(*    "upper"    with a capital letter                                     *)
(*    "escaped"  with a percent-encoded capital letter                     *)
(*    "idn"      with a label that is not ASCII                            *)
(*    "dotted"   with a final dot                                          *)
(*    "long"     an IPv6 address that is not compressed                    *)
(* An empty segment stands for a doubled or a final slash.  A segment with *)
(* percent-encoded characters is in the domain of Decoded, which gives the *)
(* segments that unquote makes of it: several for an encoded slash.        *)
(***************************************************************************)
EXTENDS Integers, Sequences, SequencesExt

CONSTANTS
    PathSegments,  \* segments made of path characters, bounded by letters or digits
    Decoded,       \* segment with an escape -> the segments it stands for
    MaxSegments    \* _MAX_URL_LENGTH, in segments

NoPort == -1
PORT_MAX == 65535
NoUrl == [scheme |-> "none", host |-> [labels |-> <<>>, ip |-> "none"], form |-> "none",
          port |-> NoPort, path |-> <<>>, tail |-> FALSE]

OverlayNetworks == {"tor", "i2p", "loki"}
Schemes == {"ws", "wss"}

-----------------------------------------------------------------------------

\* _preprocess_idn: labels become punycode before the URL is parsed.
PreprocessIdn(form) == IF form = "idn" THEN "plain" ELSE form

\* The host as rfc3986 normalizes it: lowercase, percent-encoding untouched.
Lowercase(form) == IF form = "upper" THEN "plain" ELSE form

\* unquote and rstrip("."), after the host has been lowercased.
Unquote(form) == IF form = "escaped" THEN "upper" ELSE IF form = "dotted" THEN "plain" ELSE form

\* _normalize_ip
NormalizeIp(form) == IF form = "long" THEN "plain" ELSE form

HostForm(form) == NormalizeIp(Unquote(Lowercase(PreprocessIdn(form))))

\* _is_valid_hostname
IsValidHostname(labels) ==
    /\ Len(labels) >= 2
    /\ \A i \in DOMAIN labels : labels[i] \notin {"", "bad"}
    /\ Last(labels) # "digits"

\* _is_valid_overlay_hostname, of the labels before the TLD.
IsValidOverlayHostname(labels, network) ==
    CASE network = "tor" ->
            /\ Last(labels) \in {"hash56", "hash16"}
            /\ Len(labels) > 1 => IsValidHostname(Append(Front(labels), "onion"))
      [] network = "loki" -> labels = <<"hash52">>
      [] network = "i2p" ->
            IF Len(labels) > 1 /\ Last(labels) = "b32" THEN labels = <<"hash52", "b32">>
            ELSE IsValidHostname(Append(labels, "i2p"))

\* _detect_network
DetectNetwork(host) ==
    LET tld == IF Len(host.labels) > 1 THEN Last(host.labels) ELSE "none"
        overlay == IF tld = "onion" THEN "tor" ELSE tld
    IN  IF overlay \in OverlayNetworks
        THEN IF IsValidOverlayHostname(Front(host.labels), overlay) THEN overlay ELSE "unknown"
        ELSE IF \/ host.labels \in {<<"localhost">>, <<"localhost", "localdomain">>}
                \/ host.ip = "reserved" THEN "local"
        ELSE IF host.ip = "public" \/ IsValidHostname(host.labels) THEN "clearnet"
        ELSE "unknown"

\* rfc3986: "." and ".." segments are resolved.
ResolveDots(path) ==
    FoldLeft(LAMBDA out, s : IF s = "." THEN out
                             ELSE IF s = ".." THEN (IF out = <<>> THEN out ELSE Front(out))
                             ELSE Append(out, s), <<>>, path)

NonEmpty(path) == SelectSeq(path, LAMBDA s : s # "")

\* unquote, of one segment.
Decode(s) == IF s \in DOMAIN Decoded THEN Decoded[s] ELSE <<s>>

\* _sanitize_path: no empty segments, and no path at all if a segment is
\* invalid once decoded.  The path that is kept is the encoded one.
SanitizePath(path) ==
    LET segments == NonEmpty(path)
    IN  IF \A i \in DOMAIN segments : ToSet(NonEmpty(Decode(segments[i]))) \subseteq PathSegments
        THEN segments ELSE <<>>

SchemeOf(network) == IF network = "clearnet" THEN "wss" ELSE "ws"
DefaultPort(scheme) == IF scheme = "wss" THEN 443 ELSE 80

\* Mutant: the default port is that of the scheme in the raw URL.
SanitizeRawPort(raw) ==
    LET network == DetectNetwork(raw.host)
        scheme == SchemeOf(network)
        path == SanitizePath(ResolveDots(raw.path))
    IN  IF \/ raw.scheme \notin Schemes
           \/ network \in {"local", "unknown"}
           \/ raw.port # NoPort /\ raw.port \notin 1..PORT_MAX
           \/ Len(path) > MaxSegments
        THEN NoUrl
        ELSE [scheme |-> scheme, host |-> raw.host, form |-> HostForm(raw.form),
              port |-> IF raw.port = DefaultPort(raw.scheme) THEN NoPort ELSE raw.port,
              path |-> path, tail |-> FALSE]

\* sanitize_relay_url, NoUrl if it raises ValueError.
Sanitize(raw) ==
    LET network == DetectNetwork(raw.host)
        scheme == SchemeOf(network)
        path == SanitizePath(ResolveDots(raw.path))
    IN  IF \/ raw.scheme \notin Schemes
           \/ network \in {"local", "unknown"}
           \/ raw.port # NoPort /\ raw.port \notin 1..PORT_MAX
           \/ Len(path) > MaxSegments
        THEN NoUrl
        ELSE [scheme |-> scheme, host |-> raw.host, form |-> HostForm(raw.form),
              port |-> IF raw.port = DefaultPort(scheme) THEN NoPort ELSE raw.port,
              path |-> path, tail |-> FALSE]

\* Relay.__post_init__: only a URL in canonical form makes a relay.
IsCanonical(url) == url # NoUrl /\ Sanitize(url) = url

\* parse_relay, NoUrl for None.
ParseRelay(raw) == LET url == Sanitize(raw) IN IF IsCanonical(url) THEN url ELSE NoUrl

\* The network of a relay (Relay._parse).
NetworkOf(url) == DetectNetwork(url.host)

-----------------------------------------------------------------------------

\* What a raw URL names, whatever sanitize_relay_url makes of it: a host, the
\* port that is dialled once the scheme of the network is imposed, and the
\* resource, the decoded segments of its path.  Repeated and final slashes and
\* dot segments mean nothing; an encoded slash does not separate segments.
Segments(raw) == NonEmpty(ResolveDots(raw.path))
Escaped(raw) == ToSet(Segments(raw)) \cap DOMAIN Decoded # {}

Named(s) == IF Len(Decode(s)) = 1 THEN Head(Decode(s)) ELSE s

Resource(raw) ==
    IF Escaped(raw) THEN [i \in DOMAIN Segments(raw) |-> Named(Segments(raw)[i])]
    ELSE Segments(raw)

Endpoint(raw) ==
    [host |-> raw.host,
     port |-> IF raw.port # NoPort THEN raw.port
              ELSE DefaultPort(SchemeOf(DetectNetwork(raw.host))),
     resource |-> Resource(raw)]

\* The path of a URL was thrown away for an invalid segment.
PathDropped(raw) == Segments(raw) # <<>> /\ ParseRelay(raw).path = <<>>
=============================================================================
