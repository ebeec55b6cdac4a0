------------------------- MODULE DatasetProperties -------------------------
(***************************************************************************)
(* What a dataset build must get right, and what a study reads from it.    *)
(***************************************************************************)
EXTENDS DatasetBuild

(* Every variable has its type, and a running build works on rows, files   *)
(* and tables of its own source.                                           *)
ControlOK ==
    /\ phase \in [Datasets -> Phase]
    /\ DOMAIN todo = Datasets /\ DOMAIN source = Datasets
    /\ \A d \in Datasets : source[d] \in Sources[d] \cup {NoFile}
    /\ \A d \in Datasets : phase[d] \in Running =>
          source[d] # NoFile /\ todo[d] \subseteq Todo(phase[d], source[d])
    /\ builds \in [Datasets -> 0 .. MaxBuilds]
    /\ stops \in 0 .. MaxStops

StoreOK ==
    /\ DOMAIN instruments = Instruments
    /\ \A i \in Instruments :
          instruments[i] = NoFile \/ InstrumentOf[instruments[i].symbol] = i
    /\ symbolHistory \in [HistoryRows -> Nat]
    /\ actions \in [ActionRows -> Nat]
    /\ fundamentals \in [FilingRows -> Nat]
    /\ DOMAIN barFiles = Datasets /\ DOMAIN manifest = Datasets
    /\ \A d \in Datasets : DOMAIN barFiles[d] = Partitions
    /\ DOMAIN tables = Datasets
    /\ \A d \in Datasets :
          tables[d] = [t \in DOMAIN TableNames |-> tables[d][t]]

TypeOK == ControlOK /\ StoreOK

-----------------------------------------------------------------------------
(* Reading.                                                                *)

(* resolve: the rows of the symbol's history that are valid on the session.*)
ValidOn(r, symbol, session) ==
    /\ r.row.symbol = symbol
    /\ r.row.from <= session /\ session <= r.row.to
IsAmbiguous(symbol, session) ==
    LET found == {r \in HistoryRows : ValidOn(r, symbol, session) /\ symbolHistory[r] > 0}
    IN  Cardinality(found) > 1 \/ \E r \in found : symbolHistory[r] > 1

(* DatasetUniverseResolver.members: the roster a study ranks, read back    *)
(* from the table the dataset was published with; ETFs are filtered by the *)
(* callers, and a missing or a torn file raises.                           *)
Members(d) == tables[d].instruments

-----------------------------------------------------------------------------
(* When a build has finished, each corporate action and each filing of its *)
(* source is in the shared tables, and no row is there twice, however many *)
(* builds of whichever datasets came before, were stopped half way, or run *)
(* at the same time.                                                       *)
(* (corporate_actions.py: record_action; fundamentals.py:                  *)
(* record_statements)                                                      *)
IngestedExactlyOnce ==
    \A d \in Datasets : phase[d] = "done" =>
        /\ \A a \in OfListed(source[d], source[d].actions) : actions[Row(a)] = 1
        /\ \A f \in OfListed(source[d], source[d].filings) : fundamentals[Row(f)] = 1

(* When a build has finished, every partition it wrote holds its bars and  *)
(* a study of the dataset ranks the listings of its source: nothing of     *)
(* another dataset ("would otherwise contaminate each other's              *)
(* cross-sections"), of an earlier build, or of one that was cut short.    *)
(* (market_bars.py: write_daily_bars, namespace_for; datasets.py: publish, *)
(* DatasetUniverseResolver)                                                *)
ReadsBackOwnRows ==
    \A d \in Datasets : phase[d] = "done" =>
        /\ \A p \in Todo("bars", source[d]) : barFiles[d][p] = BarsOf(source[d], p)
        /\ Members(d) = source[d].listings

(* A manifest is only ever written over the tables it describes: all five  *)
(* are whole and hold the rows whose hashes it lists.                      *)
(* (datasets.py: publish; dataset_service.py: build_dataset)               *)
ManifestMatchesTables ==
    [][\A d \in Datasets :
        manifest'[d] # manifest[d] /\ manifest'[d] # Torn =>
            manifest'[d] = tables[d]]_vars

(* After builds of the same source, a symbol still resolves to one row on  *)
(* every session. (instrument_repository.py: resolve, upsert_identity)     *)
ResolvesUniquely ==
    \A l \in UNION {s.listings : s \in AnySource} :
        ~ IsAmbiguous(l.symbol, l.from)

-----------------------------------------------------------------------------
(* The inductive invariant: what a build has already been through is in    *)
(* its place, whatever else was built or stopped meanwhile.                *)
Reached ==
    [actions      |-> {"actions", "fundamentals", "bars", "publish", "manifest", "done"},
     fundamentals |-> {"fundamentals", "bars", "publish", "manifest", "done"},
     bars         |-> {"bars", "publish", "manifest", "done"},
     publish      |-> {"publish", "manifest", "done"}]

(* The rows of phase ph that the build of d has dealt with. *)
Handled(d, ph) ==
    Todo(ph, source[d]) \ (IF phase[d] = ph THEN todo[d] ELSE {})

CopiesInv ==
    /\ \A r \in ActionRows : actions[r] \in {0, 1}
    /\ \A r \in FilingRows : fundamentals[r] \in {0, 1}

ActionsInv ==
    \A d \in Datasets : phase[d] \in Reached.actions =>
        \A a \in Handled(d, "actions") : actions[Row(a)] = 1

FilingsInv ==
    \A d \in Datasets : phase[d] \in Reached.fundamentals =>
        \A f \in Handled(d, "fundamentals") : fundamentals[Row(f)] = 1

BarsInv ==
    \A d \in Datasets : phase[d] \in Reached.bars =>
        \A p \in Handled(d, "bars") : barFiles[d][p] = BarsOf(source[d], p)

TablesInv ==
    \A d \in Datasets : phase[d] \in Reached.publish =>
        \A t \in Handled(d, "publish") : tables[d][t] = TableRows(source[d])[t]

IInv ==
    /\ TypeOK
    /\ CopiesInv
    /\ ActionsInv
    /\ FilingsInv
    /\ BarsInv
    /\ TablesInv
=============================================================================
