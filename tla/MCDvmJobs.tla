------------------------------ MODULE MCDvmJobs ------------------------------
(* Instances of DvmJobs for TLC. *)
EXTENDS DvmJobs

CONSTANTS j1, j2

\* A free table and a priced one; the third is discovered but not enabled.
MCRelations ==
    [relay |-> [kind |-> "table", columns |-> [url |-> "text", id |-> "bytea"],
                unique |-> <<{"url"}>>],
     stats |-> [kind |-> "matview", columns |-> [day |-> "date"], unique |-> <<>>],
     state |-> [kind |-> "table", columns |-> [key |-> "text"], unique |-> <<{"key"}>>]]
MCEnabled == {"relay", "stats"}
MCPrice == [t \in MCEnabled |-> IF t = "stats" THEN 1 ELSE 0]

Asks(table, bids, filters) ==
    [table |-> table, bids |-> bids, ptag |-> "us", numeric |-> TRUE, filters |-> filters,
     sort |-> None]

\* Answered, too cheap, a string as bid, not enabled, not a number, rejected
\* before and while it is executed, and addressed to another.
MCRequests ==
    {Asks("stats", <<<<"bid", 1>>, <<"bid", -1>>>>, <<>>), Asks("stats", <<<<"bid", 0>>>>, <<>>),
     Asks("stats", <<<<"bid", 1>>, <<"param", 0>>>>, <<>>), Asks("state", <<>>, <<>>),
     [Asks("relay", <<>>, <<>>) EXCEPT !.numeric = FALSE],
     Asks("relay", <<>>, [id |-> <<None, "bad">>]),
     Asks("relay", <<>>, [url |-> <<">", "bad">>]),
     [Asks("relay", <<>>, <<>>) EXCEPT !.ptag = "other"]}
=============================================================================
