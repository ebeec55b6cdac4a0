---------------------------- MODULE DatasetBuild ----------------------------
(***************************************************************************)
(* DatasetService.build_dataset: a source directory becomes rows of the    *)
(* shared database, bar partitions, table partitions and a manifest.  Each *)
(* row is a transaction of its own and each file a write of its own, so a  *)
(* build that stops in the middle leaves what it has written, and builds   *)
(* of two datasets, which share the database, interleave.                  *)
(*                                                                         *)
(* A source is a record of sets: its rows may come in any order.  Sessions *)
(* are integers and all listings are on one exchange.  An instrument's     *)
(* identifier is derived from the symbol, so no two instruments share one  *)
(* and upsert_identity, which compares a listing with those of other       *)
(* instruments, never rejects.  Builds of one dataset do not overlap.      *)
(***************************************************************************)
EXTENDS Integers, FiniteSets

CONSTANTS
    Datasets,
    Instruments,
    InstrumentOf,     \* function from symbols to instruments
    YearLength,       \* sessions per year
    Sources,          \* for a dataset, the sources it may be built from
    MaxBuilds,        \* bound: builds started per dataset
    MaxStops,         \* bound: builds stopped in the middle
    NoFile,           \* stands for a file or a row that does not exist
    Torn              \* stands for a file cut short while it was written

ASSUME YearAssumption == YearLength \in Nat \ {0}
ASSUME SourceAssumption ==
    \A d \in Datasets :
        /\ NoFile \notin Sources[d]
        /\ \A s \in Sources[d] : \A l \in s.listings :
              InstrumentOf[l.symbol] \in Instruments
ASSUME BuildAssumption == MaxBuilds \in Nat /\ MaxStops \in Nat

VARIABLES
    phase,            \* per dataset: what its build does next
    todo,             \* per dataset: what is left of this phase
    source,           \* per dataset: the source its last build read
    builds,           \* per dataset: builds started
    stops,            \* builds stopped so far
    instruments,      \* table instruments: the listing of each instrument
    symbolHistory,    \* table instrument_symbol_history: copies of each row
    actions,          \* table corporate_actions: copies of each row
    fundamentals,     \* table fundamentals: copies of each row
    barFiles,         \* per namespace: the partitions of bars
    tables,           \* per dataset: the published table partitions
    manifest          \* per dataset: manifest.json

control == <<phase, todo, source, builds, stops>>
identity == <<instruments, symbolHistory>>
files == <<barFiles, tables, manifest>>
vars == <<control, identity, actions, fundamentals, files>>

-----------------------------------------------------------------------------
(* What a source holds.                                                    *)

Running == {"listings", "actions", "fundamentals", "bars", "publish", "manifest"}
Phase == Running \cup {"idle", "done", "stopped"}

AnySource == UNION {Sources[d] : d \in Datasets}

(* Rows whose symbol is not listed are skipped. *)
OfListed(s, rows) == {r \in rows : \E l \in s.listings : l.symbol = r.symbol}

InWindow(s, b) == s.from <= b.session /\ b.session <= s.to

(* The bars a build writes. *)
BarsIn(s) == {b \in OfListed(s, s.bars) : InWindow(s, b)}

YearOf(session) == session \div YearLength

PartitionOf(b) == <<InstrumentOf[b.symbol], YearOf(b.session)>>

Partitions == {PartitionOf(b) : b \in UNION {s.bars : s \in AnySource}}

BarsOf(s, p) == {b \in BarsIn(s) : PartitionOf(b) = p}

(* The published tables, in the order they are written.                    *)
TableNames == [instruments |-> 1, symbol_history |-> 2, prices |-> 3,
               actions |-> 4, fundamentals |-> 5]

TableRows(s) ==
    [instruments |-> s.listings, symbol_history |-> s.listings,
     prices |-> BarsIn(s), actions |-> OfListed(s, s.actions),
     fundamentals |-> OfListed(s, s.filings)]

(* What each phase goes through. *)
Todo(ph, s) ==
    [listings     |-> s.listings,
     actions      |-> OfListed(s, s.actions),
     fundamentals |-> OfListed(s, s.filings),
     bars         |-> {PartitionOf(b) : b \in BarsIn(s)},
     publish      |-> DOMAIN TableNames,
     manifest     |-> {},
     done         |-> {}][ph]

(* A database row names the instrument, not only the symbol.               *)
Row(r) == [inst |-> InstrumentOf[r.symbol], row |-> r]

RowsOf(rows) == {Row(r) : r \in rows}
HistoryRows == RowsOf(UNION {s.listings : s \in AnySource})
ActionRows == RowsOf(UNION {s.actions : s \in AnySource})
FilingRows == RowsOf(UNION {s.filings : s \in AnySource})

-----------------------------------------------------------------------------
Init ==
    /\ phase = [d \in Datasets |-> "idle"]
    /\ todo = [d \in Datasets |-> {}]
    /\ source = [d \in Datasets |-> NoFile]
    /\ builds = [d \in Datasets |-> 0]
    /\ stops = 0
    /\ instruments = [i \in Instruments |-> NoFile]
    /\ symbolHistory = [r \in HistoryRows |-> 0]
    /\ actions = [r \in ActionRows |-> 0]
    /\ fundamentals = [r \in FilingRows |-> 0]
    /\ barFiles = [d \in Datasets |-> [p \in Partitions |-> NoFile]]
    /\ tables = [d \in Datasets |-> [t \in DOMAIN TableNames |-> NoFile]]
    /\ manifest = [d \in Datasets |-> NoFile]

StartBuild(d, s) ==
    /\ phase[d] \notin Running
    /\ builds[d] < MaxBuilds
    /\ builds' = [builds EXCEPT ![d] = @ + 1]
    /\ source' = [source EXCEPT ![d] = s]
    /\ phase' = [phase EXCEPT ![d] = "listings"]
    /\ todo' = [todo EXCEPT ![d] = Todo("listings", s)]
    /\ UNCHANGED <<stops, identity, actions, fundamentals, files>>

(* One item of the phase is dealt with. *)
Handle(d, ph, x) ==
    /\ phase[d] = ph
    /\ x \in todo[d]
    /\ todo' = [todo EXCEPT ![d] = @ \ {x}]
    /\ UNCHANGED <<phase, source, builds, stops>>

(* upsert_identity: the instrument's row is overwritten, the listing is    *)
(* added to the history whether or not it is there already.                *)
RecordListing(d, l) ==
    /\ Handle(d, "listings", l)
    /\ instruments' = [instruments EXCEPT ![InstrumentOf[l.symbol]] = l]
    /\ symbolHistory' = [symbolHistory EXCEPT ![Row(l)] = @ + 1]
    /\ UNCHANGED <<actions, fundamentals, files>>

(* A plausible bug: the row is appended without looking at its key.        *)
InsertOrIgnore_Appends(copies) == copies + 1

(* INSERT OR IGNORE under a unique index over the whole row.               *)
InsertOrIgnore(copies) == IF copies = 0 THEN 1 ELSE copies

RecordAction(d, a) ==
    /\ Handle(d, "actions", a)
    /\ actions' = [actions EXCEPT ![Row(a)] = InsertOrIgnore(@)]
    /\ UNCHANGED <<identity, fundamentals, files>>

RecordStatement(d, f) ==
    /\ Handle(d, "fundamentals", f)
    /\ fundamentals' = [fundamentals EXCEPT ![Row(f)] = InsertOrIgnore(@)]
    /\ UNCHANGED <<identity, actions, files>>

(* A plausible bug: every dataset's bars go to one namespace.              *)
NamespaceFor_Shared(d) == CHOOSE e \in Datasets : TRUE

NamespaceFor(d) == d

(* The bars of one instrument and year replace those in the partition.     *)
WriteBars(d, p) ==
    /\ Handle(d, "bars", p)
    /\ barFiles' = [barFiles EXCEPT ![NamespaceFor(d)][p] = BarsOf(source[d], p)]
    /\ UNCHANGED <<identity, actions, fundamentals, tables, manifest>>

IsNextTable(d, t) == \A u \in todo[d] : TableNames[t] <= TableNames[u]

WriteTable(d, t) ==
    /\ Handle(d, "publish", t)
    /\ IsNextTable(d, t)
    /\ tables' = [tables EXCEPT ![d][t] = TableRows(source[d])[t]]
    /\ UNCHANGED <<identity, actions, fundamentals, barFiles, manifest>>

(* A plausible bug: the manifest is written when the bars are.             *)
After_ManifestEarly == [listings |-> "actions", actions |-> "fundamentals",
    fundamentals |-> "bars", bars |-> "manifest", manifest |-> "publish",
    publish |-> "done"]

After == [listings |-> "actions", actions |-> "fundamentals",
          fundamentals |-> "bars", bars |-> "publish",
          publish |-> "manifest", manifest |-> "done"]

(* A plausible bug: the new phase goes through the rows of the last.       *)
EnterPhase_OldTodo(d) ==
    /\ phase' = [phase EXCEPT ![d] = After[@]]
    /\ todo' = [todo EXCEPT ![d] = Todo(phase[d], source[d])]
    /\ UNCHANGED <<source, builds, stops>>

EnterPhase(d) ==
    /\ phase' = [phase EXCEPT ![d] = After[@]]
    /\ todo' = [todo EXCEPT ![d] = Todo(After[phase[d]], source[d])]
    /\ UNCHANGED <<source, builds, stops>>

NextPhase(d) ==
    /\ phase[d] \in Running \ {"manifest"}
    /\ todo[d] = {}
    /\ EnterPhase(d)
    /\ UNCHANGED <<identity, actions, fundamentals, files>>

(* The hashes in the manifest are those of the rows held in memory, which  *)
(* they stand for here.                                                    *)
WriteManifest(d) ==
    /\ phase[d] = "manifest"
    /\ manifest' = [manifest EXCEPT ![d] = TableRows(source[d])]
    /\ EnterPhase(d)
    /\ UNCHANGED <<identity, actions, fundamentals, barFiles, tables>>

(* The build's process dies or raises.  A file it was writing is cut short.*)
StopBuild(d) ==
    /\ phase[d] \in Running
    /\ stops < MaxStops
    /\ stops' = stops + 1
    /\ phase' = [phase EXCEPT ![d] = "stopped"]
    /\ todo' = [todo EXCEPT ![d] = {}]
    /\ UNCHANGED <<source, builds, identity, actions, fundamentals>>

StopBetweenWrites(d) == StopBuild(d) /\ UNCHANGED files

StopInBars(d, p) ==
    /\ StopBuild(d)
    /\ phase[d] = "bars" /\ p \in todo[d]
    /\ barFiles' = [barFiles EXCEPT ![NamespaceFor(d)][p] = Torn]
    /\ UNCHANGED <<tables, manifest>>

StopInTable(d, t) ==
    /\ StopBuild(d)
    /\ phase[d] = "publish" /\ t \in todo[d] /\ IsNextTable(d, t)
    /\ tables' = [tables EXCEPT ![d][t] = Torn]
    /\ UNCHANGED <<barFiles, manifest>>

StopInManifest(d) ==
    /\ StopBuild(d)
    /\ phase[d] = "manifest"
    /\ manifest' = [manifest EXCEPT ![d] = Torn]
    /\ UNCHANGED <<barFiles, tables>>

Next ==
    \E d \in Datasets :
        \/ \E s \in Sources[d] : StartBuild(d, s)
        \/ \E l \in todo[d] : RecordListing(d, l)
        \/ \E a \in todo[d] : RecordAction(d, a)
        \/ \E f \in todo[d] : RecordStatement(d, f)
        \/ \E p \in todo[d] : WriteBars(d, p)
        \/ \E t \in todo[d] : WriteTable(d, t)
        \/ NextPhase(d)
        \/ WriteManifest(d)
        \/ StopBetweenWrites(d)
        \/ \E p \in todo[d] : StopInBars(d, p)
        \/ \E t \in todo[d] : StopInTable(d, t)
        \/ StopInManifest(d)

Spec == Init /\ [][Next]_vars
=============================================================================
