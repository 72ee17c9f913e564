--------------------------- MODULE MCStreamEvents ---------------------------
(* Instances of StreamEvents for TLC.  Events are <<created_at, id>>. *)
EXTENDS StreamEvents

\* An arbitrary relay: events before, inside and after the range, a forged
\* one, an oversized one, and two overlapping filters.
ArbitraryEvents == {<<0, 1>>, <<1, 5>>, <<2, 2>>, <<2, 4>>, <<3, 3>>, <<4, 7>>, <<5, 6>>}
ArbitraryAuthentic == ArbitraryEvents \ {<<2, 4>>}
ArbitraryUnstorable == {<<3, 3>>}
ArbitraryFilters ==
    << {<<0, 1>>, <<2, 2>>, <<2, 4>>, <<3, 3>>, <<4, 7>>, <<5, 6>>},
       {<<1, 5>>, <<2, 2>>, <<4, 7>>} >>

\* An honest relay: two seconds filled up to its cap, one filter.
HonestEvents == {<<1, 5>>, <<2, 2>>, <<2, 4>>, <<3, 3>>, <<4, 6>>, <<4, 1>>}
HonestUnstorable == {<<3, 3>>}
OneFilter == << HonestEvents >>

\* A relay that is cut off by the client's timeout.
SlowEvents == {<<1, 1>>, <<2, 2>>}
SlowFilter == << SlowEvents >>
None == {}
=============================================================================
