---------------------------- MODULE MCIngestion ----------------------------
(***************************************************************************)
(* Two processes that ingest prices, in two windows of which one yields    *)
(* the same rows for two requests, actions, and filings without a file.    *)
(***************************************************************************)
EXTENDS Ingestion

MCPrices == {[symbol |-> "A", day |-> 1], [symbol |-> "A", day |-> 2], [symbol |-> "B", day |-> 2]}
MCActions == {[symbol |-> "A", day |-> 2]}

Ask(dataset, symbols, from, to) ==
    [dataset |-> dataset, symbols |-> symbols, from |-> from, to |-> to]

MCJobs ==
    {Ask("prices", {}, 1, 2), Ask("prices", {"A", "B"}, 1, 3), Ask("prices", {"A"}, 1, 1),
     Ask("actions", {"A"}, 1, 2), Ask("fundamentals", {"A"}, 1, 2)}
=============================================================================
