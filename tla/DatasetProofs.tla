--------------------------- MODULE DatasetProofs ---------------------------
(***************************************************************************)
(* Proofs about dataset builds, for every number of datasets, sources and  *)
(* builds, stopped anywhere and interleaved anyhow.                        *)
(***************************************************************************)
EXTENDS DatasetProperties, TLAPS

-----------------------------------------------------------------------------
(* What a running build works on.                                          *)

LEMMA RunningSource ==
    ASSUME ControlOK, NEW d \in Datasets, phase[d] \in Running
    PROVE  /\ source[d] \in Sources[d] /\ source[d] \in AnySource
           /\ todo[d] \subseteq Todo(phase[d], source[d])
  BY DEF ControlOK, AnySource

LEMMA ReachedSource ==
    ASSUME NEW ph \in DOMAIN Reached
    PROVE  /\ ph \in Reached[ph]
           /\ "listings" \notin Reached[ph] /\ "stopped" \notin Reached[ph]
           /\ "idle" \notin Reached[ph]
  BY DEF Reached

LEMMA ListingRow ==
    ASSUME NEW s \in AnySource, NEW l \in Todo("listings", s)
    PROVE  /\ l \in s.listings
           /\ Row(l) \in HistoryRows
  BY DEF Todo, HistoryRows, RowsOf

LEMMA ActionRow ==
    ASSUME NEW s \in AnySource, NEW a \in Todo("actions", s)
    PROVE  Row(a) \in ActionRows
  BY DEF Todo, ActionRows, RowsOf, OfListed

LEMMA FilingRow ==
    ASSUME NEW s \in AnySource, NEW f \in Todo("fundamentals", s)
    PROVE  Row(f) \in FilingRows
  BY DEF Todo, FilingRows, RowsOf, OfListed

LEMMA PartitionType ==
    ASSUME NEW s \in AnySource, NEW p \in Todo("bars", s)
    PROVE  p \in Partitions
  BY DEF Todo, Partitions, BarsIn, OfListed

LEMMA TableType ==
    ASSUME NEW s \in AnySource, NEW t \in Todo("publish", s)
    PROVE  t \in DOMAIN TableNames
  BY DEF Todo

-----------------------------------------------------------------------------
(* Control: what each kind of step does to phases and to what is handled.  *)

LEMMA HandleControl ==
    ASSUME ControlOK, NEW d \in Datasets, NEW ph, NEW x, Handle(d, ph, x)
    PROVE  ControlOK'
  BY DEF ControlOK, Handle

LEMMA StartControl ==
    ASSUME ControlOK, NEW d \in Datasets, NEW s \in Sources[d], StartBuild(d, s)
    PROVE  ControlOK'
<1>1. s # NoFile
  BY SourceAssumption
<1>2. builds' \in [Datasets -> 0 .. MaxBuilds]
  BY BuildAssumption DEF ControlOK, StartBuild
<1>3. phase' \in [Datasets -> Phase]
  BY DEF ControlOK, StartBuild, Phase, Running
<1>4. QED
  BY <1>1, <1>2, <1>3 DEF ControlOK, StartBuild

LEMMA EnterControl ==
    ASSUME ControlOK, NEW d \in Datasets, phase[d] \in Running, EnterPhase(d)
    PROVE  ControlOK'
<1>1. After[phase[d]] \in Phase
  BY DEF After, Running, Phase
<1>2. phase' \in [Datasets -> Phase]
  BY <1>1 DEF ControlOK, EnterPhase
<1>3. QED
  BY <1>2 DEF ControlOK, EnterPhase

LEMMA StopControl ==
    ASSUME ControlOK, NEW d \in Datasets, StopBuild(d)
    PROVE  ControlOK'
<1>1. phase' \in [Datasets -> Phase]
  BY DEF ControlOK, StopBuild, Phase
<1>2. stops' \in 0 .. MaxStops
  BY BuildAssumption DEF ControlOK, StopBuild
<1>3. QED
  BY <1>1, <1>2 DEF ControlOK, StopBuild, Running

(* A row dealt with after a step was so before it, or it is the one the    *)
(* step dealt with.                                                        *)
LEMMA HandledByHandle ==
    ASSUME ControlOK, NEW d \in Datasets, NEW ph, NEW x, Handle(d, ph, x),
           NEW e \in Datasets, NEW q \in DOMAIN Reached, phase'[e] \in Reached[q],
           NEW y \in Handled(e, q)'
    PROVE  /\ phase[e] \in Reached[q] /\ source'[e] = source[e]
           /\ y \in Handled(e, q) \/ (e = d /\ q = ph /\ y = x)
  BY DEF ControlOK, Handle, Handled

(* Any other step deals with nothing.                                      *)
LEMMA HandledByEnter ==
    ASSUME ControlOK, NEW d \in Datasets, phase[d] \in Running, todo[d] = {},
           EnterPhase(d),
           NEW e \in Datasets, NEW q \in DOMAIN Reached, phase'[e] \in Reached[q],
           NEW y \in Handled(e, q)'
    PROVE  /\ phase[e] \in Reached[q] /\ source'[e] = source[e]
           /\ y \in Handled(e, q)
<1>1. CASE e # d
  BY <1>1 DEF ControlOK, EnterPhase, Handled
<1>2. CASE e = d
  <2>1. /\ phase'[d] = After[phase[d]] /\ source'[d] = source[d]
        /\ todo'[d] = Todo(After[phase[d]], source[d])
    BY DEF ControlOK, EnterPhase
  <2>2. phase'[d] # q
    BY <1>2, <2>1 DEF Handled
  <2>3. phase[d] \in Reached[q]
    BY <1>2, <2>1, <2>2 DEF Reached, After, Running
  <2>4. QED
    BY <1>2, <2>1, <2>2, <2>3 DEF Handled
<1>3. QED
  BY <1>1, <1>2

LEMMA HandledByStart ==
    ASSUME ControlOK, NEW d \in Datasets, NEW s \in Sources[d], StartBuild(d, s),
           NEW e \in Datasets, NEW q \in DOMAIN Reached, phase'[e] \in Reached[q],
           NEW y \in Handled(e, q)'
    PROVE  /\ phase[e] \in Reached[q] /\ source'[e] = source[e]
           /\ y \in Handled(e, q)
<1>1. e # d
  BY ReachedSource DEF ControlOK, StartBuild
<1>2. QED
  BY <1>1 DEF ControlOK, StartBuild, Handled

LEMMA HandledByStop ==
    ASSUME ControlOK, NEW d \in Datasets, StopBuild(d),
           NEW e \in Datasets, NEW q \in DOMAIN Reached, phase'[e] \in Reached[q],
           NEW y \in Handled(e, q)'
    PROVE  /\ phase[e] \in Reached[q] /\ source'[e] = source[e] /\ e # d
           /\ y \in Handled(e, q)
<1>1. e # d
  BY ReachedSource DEF ControlOK, StopBuild
<1>2. QED
  BY <1>1 DEF ControlOK, StopBuild, Handled

-----------------------------------------------------------------------------
(* What is in its place stays there.                                       *)

(* At most x, in phase ph of the build of d, is newly dealt with.          *)
AtMostNew(d, ph, x) ==
    \A e \in Datasets : \A q \in DOMAIN Reached : phase'[e] \in Reached[q] =>
        \A y \in Handled(e, q)' :
            /\ phase[e] \in Reached[q] /\ source'[e] = source[e]
            /\ y \in Handled(e, q) \/ (e = d /\ q = ph /\ y = x)

LEMMA ActionsKept ==
    ASSUME ActionsInv, NEW d, NEW ph, NEW x, AtMostNew(d, ph, x),
           \A r : actions[r] = 1 => actions'[r] = 1,
           ph = "actions" => actions'[Row(x)] = 1
    PROVE  ActionsInv'
<1> SUFFICES ASSUME NEW e \in Datasets, phase'[e] \in Reached.actions,
                    NEW a \in Handled(e, "actions")'
             PROVE  actions'[Row(a)] = 1
  BY DEF ActionsInv
<1>1. "actions" \in DOMAIN Reached /\ Reached["actions"] = Reached.actions
  BY DEF Reached
<1>2. /\ phase[e] \in Reached.actions
      /\ a \in Handled(e, "actions") \/ (ph = "actions" /\ a = x)
  BY <1>1 DEF AtMostNew
<1>3. QED
  BY <1>2 DEF ActionsInv

LEMMA FilingsKept ==
    ASSUME FilingsInv, NEW d, NEW ph, NEW x, AtMostNew(d, ph, x),
           \A r : fundamentals[r] = 1 => fundamentals'[r] = 1,
           ph = "fundamentals" => fundamentals'[Row(x)] = 1
    PROVE  FilingsInv'
<1> SUFFICES ASSUME NEW e \in Datasets, phase'[e] \in Reached.fundamentals,
                    NEW f \in Handled(e, "fundamentals")'
             PROVE  fundamentals'[Row(f)] = 1
  BY DEF FilingsInv
<1>1. /\ "fundamentals" \in DOMAIN Reached
      /\ Reached["fundamentals"] = Reached.fundamentals
  BY DEF Reached
<1>2. /\ phase[e] \in Reached.fundamentals
      /\ f \in Handled(e, "fundamentals") \/ (ph = "fundamentals" /\ f = x)
  BY <1>1 DEF AtMostNew
<1>3. QED
  BY <1>2 DEF FilingsInv

LEMMA BarsKept ==
    ASSUME BarsInv, NEW d, NEW ph, NEW x, AtMostNew(d, ph, x),
           \A e \in Datasets : phase'[e] \in Reached.bars =>
              \A p : \/ barFiles'[e][p] = barFiles[e][p]
                     \/ barFiles'[e][p] = BarsOf(source[e], p),
           ph = "bars" => barFiles'[d][x] = BarsOf(source[d], x)
    PROVE  BarsInv'
<1> SUFFICES ASSUME NEW e \in Datasets, phase'[e] \in Reached.bars,
                    NEW p \in Handled(e, "bars")'
             PROVE  barFiles'[e][p] = BarsOf(source'[e], p)
  BY DEF BarsInv, BarsOf, BarsIn, OfListed
<1>1. "bars" \in DOMAIN Reached /\ Reached["bars"] = Reached.bars
  BY DEF Reached
<1>2. /\ phase[e] \in Reached.bars /\ source'[e] = source[e]
      /\ p \in Handled(e, "bars") \/ (e = d /\ ph = "bars" /\ p = x)
  BY <1>1 DEF AtMostNew
<1>3. CASE p \in Handled(e, "bars")
  <2>1. barFiles[e][p] = BarsOf(source[e], p)
    BY <1>2, <1>3 DEF BarsInv
  <2>2. QED
    BY <1>2, <2>1
<1>4. CASE e = d /\ ph = "bars" /\ p = x
  BY <1>2, <1>4
<1>5. QED
  BY <1>2, <1>3, <1>4

LEMMA TablesKept ==
    ASSUME TablesInv, NEW d, NEW ph, NEW x, AtMostNew(d, ph, x),
           \A e \in Datasets : phase'[e] \in Reached.publish =>
              \A t : \/ tables'[e][t] = tables[e][t]
                     \/ tables'[e][t] = TableRows(source[e])[t],
           ph = "publish" => tables'[d][x] = TableRows(source[d])[x]
    PROVE  TablesInv'
<1> SUFFICES ASSUME NEW e \in Datasets, phase'[e] \in Reached.publish,
                    NEW t \in Handled(e, "publish")'
             PROVE  tables'[e][t] = TableRows(source'[e])[t]
  BY DEF TablesInv, TableRows, BarsIn, OfListed
<1>1. "publish" \in DOMAIN Reached /\ Reached["publish"] = Reached.publish
  BY DEF Reached
<1>2. /\ phase[e] \in Reached.publish /\ source'[e] = source[e]
      /\ t \in Handled(e, "publish") \/ (e = d /\ ph = "publish" /\ t = x)
  BY <1>1 DEF AtMostNew
<1>3. CASE t \in Handled(e, "publish")
  <2>1. tables[e][t] = TableRows(source[e])[t]
    BY <1>2, <1>3 DEF TablesInv
  <2>2. QED
    BY <1>2, <2>1
<1>4. CASE e = d /\ ph = "publish" /\ t = x
  BY <1>2, <1>4
<1>5. QED
  BY <1>2, <1>3, <1>4

(* A step that leaves the shared tables and the files alone and deals with *)
(* nothing that is recorded there.                                         *)
LEMMA AllKept ==
    ASSUME IInv, NEW d, NEW ph, NEW x, AtMostNew(d, ph, x),
           ph \notin DOMAIN Reached,
           UNCHANGED <<actions, fundamentals, barFiles, tables>>
    PROVE  CopiesInv' /\ ActionsInv' /\ FilingsInv' /\ BarsInv' /\ TablesInv'
<1>1. /\ ph # "actions" /\ ph # "fundamentals"
      /\ ph # "bars" /\ ph # "publish"
  BY DEF Reached
<1>2. CopiesInv'
  BY DEF IInv, CopiesInv
<1>3. ActionsInv'
  BY <1>1, ActionsKept DEF IInv
<1>4. FilingsInv'
  BY <1>1, FilingsKept DEF IInv
<1>5. BarsInv'
  BY <1>1, BarsKept DEF IInv
<1>6. TablesInv'
  BY <1>1, TablesKept DEF IInv
<1>7. QED
  BY <1>2, <1>3, <1>4, <1>5, <1>6

-----------------------------------------------------------------------------
(* One lemma per action.                                                   *)

LEMMA InitInvariant == Init => IInv
<1> SUFFICES ASSUME Init PROVE IInv
  OBVIOUS
<1>1. ControlOK
  BY BuildAssumption DEF Init, ControlOK, Phase, Running
<1>2. StoreOK
  BY DEF Init, StoreOK
<1>3. CopiesInv
  BY DEF Init, CopiesInv
<1>4. ActionsInv /\ FilingsInv /\ BarsInv /\ TablesInv
  BY DEF Init, ActionsInv, FilingsInv, BarsInv, TablesInv, Reached
<1>5. QED
  BY <1>1, <1>2, <1>3, <1>4 DEF IInv, TypeOK

LEMMA StutterInvariant == ASSUME IInv, UNCHANGED vars PROVE IInv'
<1> USE DEF vars, control, identity, files
<1>1. ControlOK'
  BY DEF IInv, TypeOK, ControlOK
<1>2. StoreOK'
  BY DEF IInv, TypeOK, StoreOK
<1>3. AtMostNew(0, "listings", 0)
  BY DEF AtMostNew, Handled
<1>4. CopiesInv' /\ ActionsInv' /\ FilingsInv' /\ BarsInv' /\ TablesInv'
  BY <1>3, AllKept DEF Reached
<1>5. QED
  BY <1>1, <1>2, <1>4 DEF IInv, TypeOK

LEMMA StartBuildInvariant ==
    ASSUME IInv, NEW d \in Datasets, NEW s \in Sources[d], StartBuild(d, s)
    PROVE  IInv'
<1>1. ControlOK /\ ControlOK'
  BY StartControl DEF IInv, TypeOK
<1>2. StoreOK'
  BY DEF IInv, TypeOK, StoreOK, StartBuild, identity, files
<1>3. AtMostNew(d, "listings", 0)
  BY <1>1, HandledByStart DEF AtMostNew
<1>4. CopiesInv' /\ ActionsInv' /\ FilingsInv' /\ BarsInv' /\ TablesInv'
  BY <1>3, AllKept DEF Reached, StartBuild, files
<1>5. QED
  BY <1>1, <1>2, <1>4 DEF IInv, TypeOK

LEMMA HandleNew ==
    ASSUME ControlOK, NEW d \in Datasets, NEW ph, NEW x, Handle(d, ph, x)
    PROVE  AtMostNew(d, ph, x)
<1> SUFFICES ASSUME NEW e \in Datasets, NEW q \in DOMAIN Reached,
                    phase'[e] \in Reached[q], NEW y \in Handled(e, q)'
             PROVE  /\ phase[e] \in Reached[q] /\ source'[e] = source[e]
                    /\ y \in Handled(e, q) \/ (e = d /\ q = ph /\ y = x)
  BY DEF AtMostNew
<1>1. QED
  BY HandledByHandle

LEMMA RecordListingInvariant ==
    ASSUME IInv, NEW d \in Datasets, NEW l \in todo[d], RecordListing(d, l)
    PROVE  IInv'
<1>1. ControlOK /\ Handle(d, "listings", l)
  BY DEF IInv, TypeOK, RecordListing
<1>2. /\ source[d] \in Sources[d] /\ source[d] \in AnySource
      /\ l \in Todo("listings", source[d])
  BY <1>1, RunningSource DEF Handle, Running
<1>3. l \in source[d].listings /\ Row(l) \in HistoryRows
  BY <1>2, ListingRow
<1>4. InstrumentOf[l.symbol] \in Instruments
  BY <1>2, <1>3, SourceAssumption
<1>5. StoreOK'
  <2>1. /\ DOMAIN instruments' = Instruments
        /\ \A i \in Instruments : instruments'[i] = instruments[i]
               \/ (i = InstrumentOf[l.symbol] /\ instruments'[i] = l)
    BY DEF IInv, TypeOK, StoreOK, RecordListing
  <2>2. symbolHistory' \in [HistoryRows -> Nat]
    BY <1>3 DEF IInv, TypeOK, StoreOK, RecordListing
  <2>3. QED
    BY <2>1, <2>2 DEF IInv, TypeOK, StoreOK, RecordListing, files
<1>6. CopiesInv' /\ ActionsInv' /\ FilingsInv' /\ BarsInv' /\ TablesInv'
  BY <1>1, HandleNew, AllKept DEF Reached, RecordListing, files
<1>7. QED
  BY <1>1, <1>5, <1>6, HandleControl DEF IInv, TypeOK

LEMMA RecordActionInvariant ==
    ASSUME IInv, NEW d \in Datasets, NEW a \in todo[d], RecordAction(d, a)
    PROVE  IInv'
<1>1. ControlOK /\ Handle(d, "actions", a)
  BY DEF IInv, TypeOK, RecordAction
<1>2. source[d] \in AnySource /\ a \in Todo("actions", source[d])
  BY <1>1, RunningSource DEF Handle, Running
<1>3. Row(a) \in ActionRows
  BY <1>2, ActionRow
<1>4. /\ actions \in [ActionRows -> Nat]
      /\ actions' = [actions EXCEPT ![Row(a)] = InsertOrIgnore(@)]
      /\ \A r \in ActionRows : actions[r] \in {0, 1}
  BY DEF IInv, TypeOK, StoreOK, CopiesInv, RecordAction
<1>5. /\ actions' \in [ActionRows -> Nat] /\ actions'[Row(a)] = 1
      /\ \A r \in ActionRows : actions'[r] \in {0, 1}
  BY <1>3, <1>4 DEF InsertOrIgnore
<1>6. \A r : actions[r] = 1 => actions'[r] = 1
  BY <1>3, <1>4 DEF InsertOrIgnore
<1>7. StoreOK' /\ CopiesInv'
  BY <1>5 DEF IInv, TypeOK, StoreOK, CopiesInv, RecordAction, identity, files
<1>8. AtMostNew(d, "actions", a)
  BY <1>1, HandleNew
<1>9. ActionsInv'
  BY <1>5, <1>6, <1>8, ActionsKept DEF IInv
<1>10. FilingsInv'
  BY <1>8, FilingsKept DEF IInv, RecordAction
<1>11. BarsInv'
  BY <1>8, BarsKept DEF IInv, RecordAction, files
<1>12. TablesInv'
  BY <1>8, TablesKept DEF IInv, RecordAction, files
<1>13. QED
  BY <1>1, <1>7, <1>9, <1>10, <1>11, <1>12, HandleControl DEF IInv, TypeOK

LEMMA RecordStatementInvariant ==
    ASSUME IInv, NEW d \in Datasets, NEW f \in todo[d], RecordStatement(d, f)
    PROVE  IInv'
<1>1. ControlOK /\ Handle(d, "fundamentals", f)
  BY DEF IInv, TypeOK, RecordStatement
<1>2. source[d] \in AnySource /\ f \in Todo("fundamentals", source[d])
  BY <1>1, RunningSource DEF Handle, Running
<1>3. Row(f) \in FilingRows
  BY <1>2, FilingRow
<1>4. /\ fundamentals \in [FilingRows -> Nat]
      /\ fundamentals' = [fundamentals EXCEPT ![Row(f)] = InsertOrIgnore(@)]
      /\ \A r \in FilingRows : fundamentals[r] \in {0, 1}
  BY DEF IInv, TypeOK, StoreOK, CopiesInv, RecordStatement
<1>5. /\ fundamentals' \in [FilingRows -> Nat] /\ fundamentals'[Row(f)] = 1
      /\ \A r \in FilingRows : fundamentals'[r] \in {0, 1}
  BY <1>3, <1>4 DEF InsertOrIgnore
<1>6. \A r : fundamentals[r] = 1 => fundamentals'[r] = 1
  BY <1>3, <1>4 DEF InsertOrIgnore
<1>7. StoreOK' /\ CopiesInv'
  BY <1>5 DEF IInv, TypeOK, StoreOK, CopiesInv, RecordStatement, identity, files
<1>8. AtMostNew(d, "fundamentals", f)
  BY <1>1, HandleNew
<1>9. FilingsInv'
  BY <1>5, <1>6, <1>8, FilingsKept DEF IInv
<1>10. ActionsInv'
  BY <1>8, ActionsKept DEF IInv, RecordStatement
<1>11. BarsInv'
  BY <1>8, BarsKept DEF IInv, RecordStatement, files
<1>12. TablesInv'
  BY <1>8, TablesKept DEF IInv, RecordStatement, files
<1>13. QED
  BY <1>1, <1>7, <1>9, <1>10, <1>11, <1>12, HandleControl DEF IInv, TypeOK

LEMMA WriteBarsInvariant ==
    ASSUME IInv, NEW d \in Datasets, NEW p \in todo[d], WriteBars(d, p)
    PROVE  IInv'
<1>1. ControlOK /\ Handle(d, "bars", p)
  BY DEF IInv, TypeOK, WriteBars
<1>2. source[d] \in AnySource /\ p \in Todo("bars", source[d])
  BY <1>1, RunningSource DEF Handle, Running
<1>3. p \in Partitions
  BY <1>2, PartitionType
<1>4. barFiles' = [barFiles EXCEPT ![d][p] = BarsOf(source[d], p)]
  BY DEF WriteBars, NamespaceFor
<1>5. /\ DOMAIN barFiles = Datasets
      /\ \A e \in Datasets : DOMAIN barFiles[e] = Partitions
  BY DEF IInv, TypeOK, StoreOK
<1>6. /\ DOMAIN barFiles' = Datasets
      /\ \A e \in Datasets : DOMAIN barFiles'[e] = Partitions
      /\ barFiles'[d][p] = BarsOf(source[d], p)
      /\ \A e \in Datasets : \A q :
            \/ barFiles'[e][q] = barFiles[e][q]
            \/ barFiles'[e][q] = BarsOf(source[e], q)
  BY <1>3, <1>4, <1>5
<1>7. StoreOK' /\ CopiesInv'
  BY <1>6 DEF IInv, TypeOK, StoreOK, CopiesInv, WriteBars, identity
<1>8. AtMostNew(d, "bars", p)
  BY <1>1, HandleNew
<1>9. BarsInv'
  BY <1>6, <1>8, BarsKept DEF IInv
<1>10. ActionsInv' /\ FilingsInv'
  BY <1>8, ActionsKept, FilingsKept DEF IInv, WriteBars
<1>11. TablesInv'
  BY <1>8, TablesKept DEF IInv, WriteBars
<1>12. QED
  BY <1>1, <1>7, <1>9, <1>10, <1>11, HandleControl DEF IInv, TypeOK

LEMMA WriteTableInvariant ==
    ASSUME IInv, NEW d \in Datasets, NEW t \in todo[d], WriteTable(d, t)
    PROVE  IInv'
<1>1. ControlOK /\ Handle(d, "publish", t)
  BY DEF IInv, TypeOK, WriteTable
<1>2. source[d] \in AnySource /\ t \in Todo("publish", source[d])
  BY <1>1, RunningSource DEF Handle, Running
<1>3. t \in DOMAIN TableNames
  BY <1>2, TableType
<1>4. tables' = [tables EXCEPT ![d][t] = TableRows(source[d])[t]]
  BY DEF WriteTable
<1>5. /\ DOMAIN tables = Datasets
      /\ \A e \in Datasets :
            tables[e] = [u \in DOMAIN TableNames |-> tables[e][u]]
  BY DEF IInv, TypeOK, StoreOK
<1>6. /\ DOMAIN tables' = Datasets
      /\ \A e \in Datasets :
            tables'[e] = [u \in DOMAIN TableNames |-> tables'[e][u]]
      /\ tables'[d][t] = TableRows(source[d])[t]
      /\ \A e \in Datasets : \A u :
            \/ tables'[e][u] = tables[e][u]
            \/ tables'[e][u] = TableRows(source[e])[u]
  <2> DEFINE row == TableRows(source[d])[t]
  <2> HIDE DEF row
  <2>1. /\ DOMAIN tables' = Datasets
        /\ tables'[d] = [tables[d] EXCEPT ![t] = row]
        /\ \A e \in Datasets \ {d} : tables'[e] = tables[e]
    BY <1>4, <1>5 DEF row
  <2>2. /\ tables'[d] = [u \in DOMAIN TableNames |->
                            IF u = t THEN row ELSE tables[d][u]]
    BY <2>1, <1>5
  <2>3. \A e \in Datasets :
            tables'[e] = [u \in DOMAIN TableNames |-> tables'[e][u]]
    <3> TAKE e \in Datasets
    <3>1. CASE e = d
      BY <3>1, <2>2
    <3>2. CASE e # d
      BY <3>2, <2>1, <1>5
    <3>3. QED
      BY <3>1, <3>2
  <2>4. tables'[d][t] = row /\ \A u : u # t => tables'[d][u] = tables[d][u]
    BY <2>1, <1>3, <1>5
  <2>5. QED
    BY <2>1, <2>3, <2>4 DEF row
<1>7. StoreOK' /\ CopiesInv'
  BY <1>6 DEF IInv, TypeOK, StoreOK, CopiesInv, WriteTable, identity
<1>8. AtMostNew(d, "publish", t)
  BY <1>1, HandleNew
<1>9. TablesInv'
  BY <1>6, <1>8, TablesKept DEF IInv
<1>10. ActionsInv' /\ FilingsInv'
  BY <1>8, ActionsKept, FilingsKept DEF IInv, WriteTable
<1>11. BarsInv'
  BY <1>8, BarsKept DEF IInv, WriteTable
<1>12. QED
  BY <1>1, <1>7, <1>9, <1>10, <1>11, HandleControl DEF IInv, TypeOK

LEMMA EnterNew ==
    ASSUME ControlOK, NEW d \in Datasets, phase[d] \in Running, todo[d] = {},
           EnterPhase(d)
    PROVE  AtMostNew(d, "listings", 0)
<1> SUFFICES ASSUME NEW e \in Datasets, NEW q \in DOMAIN Reached,
                    phase'[e] \in Reached[q], NEW y \in Handled(e, q)'
             PROVE  /\ phase[e] \in Reached[q] /\ source'[e] = source[e]
                    /\ y \in Handled(e, q)
  BY DEF AtMostNew
<1>1. QED
  BY HandledByEnter

LEMMA NextPhaseInvariant ==
    ASSUME IInv, NEW d \in Datasets, NextPhase(d)
    PROVE  IInv'
<1>1. ControlOK /\ phase[d] \in Running /\ todo[d] = {} /\ EnterPhase(d)
  BY DEF IInv, TypeOK, NextPhase
<1>2. StoreOK'
  BY DEF IInv, TypeOK, StoreOK, NextPhase, identity, files
<1>3. CopiesInv' /\ ActionsInv' /\ FilingsInv' /\ BarsInv' /\ TablesInv'
  BY <1>1, EnterNew, AllKept DEF Reached, NextPhase, files
<1>4. QED
  BY <1>1, <1>2, <1>3, EnterControl DEF IInv, TypeOK

LEMMA WriteManifestInvariant ==
    ASSUME IInv, NEW d \in Datasets, WriteManifest(d)
    PROVE  IInv'
<1>1. ControlOK /\ phase[d] \in Running /\ phase[d] = "manifest" /\ EnterPhase(d)
  BY DEF IInv, TypeOK, WriteManifest, Running
<1>2. todo[d] = {}
  <2>1. todo[d] \subseteq Todo("manifest", source[d])
    BY <1>1, RunningSource
  <2>2. QED
    BY <2>1 DEF Todo
<1>3. StoreOK'
  BY DEF IInv, TypeOK, StoreOK, WriteManifest, identity
<1>4. CopiesInv' /\ ActionsInv' /\ FilingsInv' /\ BarsInv' /\ TablesInv'
  BY <1>1, <1>2, EnterNew, AllKept DEF Reached, WriteManifest
<1>5. QED
  BY <1>1, <1>3, <1>4, EnterControl DEF IInv, TypeOK

(* A stopped build claims nothing any more; the others keep their places,  *)
(* since the file that is cut short is one of the stopped build.           *)
LEMMA StopNew ==
    ASSUME ControlOK, NEW d \in Datasets, StopBuild(d)
    PROVE  AtMostNew(d, "listings", 0)
<1> SUFFICES ASSUME NEW e \in Datasets, NEW q \in DOMAIN Reached,
                    phase'[e] \in Reached[q], NEW y \in Handled(e, q)'
             PROVE  /\ phase[e] \in Reached[q] /\ source'[e] = source[e]
                    /\ y \in Handled(e, q)
  BY DEF AtMostNew
<1>1. QED
  BY HandledByStop

LEMMA Stopped ==
    ASSUME ControlOK, NEW d \in Datasets, StopBuild(d)
    PROVE  phase'[d] = "stopped" /\ phase'[d] \notin Reached.bars
           /\ phase'[d] \notin Reached.publish
  BY DEF ControlOK, StopBuild, Reached

LEMMA StopBetweenWritesInvariant ==
    ASSUME IInv, NEW d \in Datasets, StopBetweenWrites(d)
    PROVE  IInv'
<1>1. ControlOK /\ StopBuild(d) /\ UNCHANGED files
  BY DEF IInv, TypeOK, StopBetweenWrites
<1>2. UNCHANGED <<identity, actions, fundamentals>>
  BY <1>1 DEF StopBuild
<1>3. StoreOK'
  BY <1>1, <1>2 DEF IInv, TypeOK, StoreOK, identity, files
<1>4. CopiesInv' /\ ActionsInv' /\ FilingsInv' /\ BarsInv' /\ TablesInv'
  BY <1>1, <1>2, StopNew, AllKept DEF Reached, files
<1>5. QED
  BY <1>1, <1>3, <1>4, StopControl DEF IInv, TypeOK

LEMMA StopInBarsInvariant ==
    ASSUME IInv, NEW d \in Datasets, NEW p \in todo[d], StopInBars(d, p)
    PROVE  IInv'
<1>1. ControlOK /\ StopBuild(d) /\ phase[d] = "bars"
  BY DEF IInv, TypeOK, StopInBars
<1>2. UNCHANGED <<identity, actions, fundamentals, tables, manifest>>
  BY <1>1 DEF StopBuild, StopInBars
<1>3. barFiles' = [barFiles EXCEPT ![d][p] = Torn]
  BY DEF StopInBars, NamespaceFor
<1>4. /\ DOMAIN barFiles' = Datasets
      /\ \A e \in Datasets : DOMAIN barFiles'[e] = Partitions
      /\ \A e \in Datasets \ {d} : barFiles'[e] = barFiles[e]
  BY <1>3 DEF IInv, TypeOK, StoreOK
<1>5. StoreOK' /\ CopiesInv'
  BY <1>2, <1>4 DEF IInv, TypeOK, StoreOK, CopiesInv, identity
<1>6. AtMostNew(d, "listings", 0)
  BY <1>1, StopNew
<1>7. BarsInv'
  <2>1. \A e \in Datasets : phase'[e] \in Reached.bars => barFiles'[e] = barFiles[e]
    BY <1>1, <1>4, Stopped
  <2>2. QED
    BY <2>1, <1>6, BarsKept DEF IInv
<1>8. ActionsInv' /\ FilingsInv' /\ TablesInv'
  BY <1>2, <1>6, ActionsKept, FilingsKept, TablesKept DEF IInv
<1>9. QED
  BY <1>1, <1>5, <1>7, <1>8, StopControl DEF IInv, TypeOK

LEMMA StopInTableInvariant ==
    ASSUME IInv, NEW d \in Datasets, NEW t \in todo[d], StopInTable(d, t)
    PROVE  IInv'
<1>1. ControlOK /\ StopBuild(d) /\ phase[d] = "publish"
  BY DEF IInv, TypeOK, StopInTable
<1>2. UNCHANGED <<identity, actions, fundamentals, barFiles, manifest>>
  BY <1>1 DEF StopBuild, StopInTable
<1>3. tables' = [tables EXCEPT ![d][t] = Torn]
  BY DEF StopInTable
<1>4. /\ DOMAIN tables' = Datasets
      /\ \A e \in Datasets :
            tables'[e] = [u \in DOMAIN TableNames |-> tables'[e][u]]
      /\ \A e \in Datasets \ {d} : tables'[e] = tables[e]
  BY <1>3 DEF IInv, TypeOK, StoreOK
<1>5. StoreOK' /\ CopiesInv'
  BY <1>2, <1>4 DEF IInv, TypeOK, StoreOK, CopiesInv, identity
<1>6. AtMostNew(d, "listings", 0)
  BY <1>1, StopNew
<1>7. TablesInv'
  <2>1. \A e \in Datasets : phase'[e] \in Reached.publish => tables'[e] = tables[e]
    BY <1>1, <1>4, Stopped
  <2>2. QED
    BY <2>1, <1>6, TablesKept DEF IInv
<1>8. ActionsInv' /\ FilingsInv' /\ BarsInv'
  BY <1>2, <1>6, ActionsKept, FilingsKept, BarsKept DEF IInv
<1>9. QED
  BY <1>1, <1>5, <1>7, <1>8, StopControl DEF IInv, TypeOK

LEMMA StopInManifestInvariant ==
    ASSUME IInv, NEW d \in Datasets, StopInManifest(d)
    PROVE  IInv'
<1>1. ControlOK /\ StopBuild(d)
  BY DEF IInv, TypeOK, StopInManifest
<1>2. UNCHANGED <<identity, actions, fundamentals, barFiles, tables>>
  BY <1>1 DEF StopBuild, StopInManifest
<1>3. DOMAIN manifest' = Datasets
  BY DEF IInv, TypeOK, StoreOK, StopInManifest
<1>4. StoreOK'
  BY <1>2, <1>3 DEF IInv, TypeOK, StoreOK, identity
<1>5. CopiesInv' /\ ActionsInv' /\ FilingsInv' /\ BarsInv' /\ TablesInv'
  BY <1>1, <1>2, StopNew, AllKept DEF Reached
<1>6. QED
  BY <1>1, <1>4, <1>5, StopControl DEF IInv, TypeOK

-----------------------------------------------------------------------------
LEMMA NextInvariant == IInv /\ [Next]_vars => IInv'
<1> SUFFICES ASSUME IInv, [Next]_vars PROVE IInv'
  OBVIOUS
<1>1. CASE UNCHANGED vars
  BY <1>1, StutterInvariant
<1>2. ASSUME NEW d \in Datasets,
             \/ \E s \in Sources[d] : StartBuild(d, s)
             \/ \E l \in todo[d] : RecordListing(d, l)
             \/ \E a \in todo[d] : RecordAction(d, a)
             \/ \E f \in todo[d] : RecordStatement(d, f)
             \/ \E p \in todo[d] : WriteBars(d, p)
             \/ \E t \in todo[d] : WriteTable(d, t)
             \/ NextPhase(d)
             \/ WriteManifest(d)
      PROVE  IInv'
  BY <1>2, StartBuildInvariant, RecordListingInvariant, RecordActionInvariant,
     RecordStatementInvariant, WriteBarsInvariant, WriteTableInvariant,
     NextPhaseInvariant, WriteManifestInvariant
<1>3. ASSUME NEW d \in Datasets,
             \/ StopBetweenWrites(d)
             \/ \E p \in todo[d] : StopInBars(d, p)
             \/ \E t \in todo[d] : StopInTable(d, t)
             \/ StopInManifest(d)
      PROVE  IInv'
  BY <1>3, StopBetweenWritesInvariant, StopInBarsInvariant,
     StopInTableInvariant, StopInManifestInvariant
<1>4. QED
  BY <1>1, <1>2, <1>3 DEF Next

(* The inductive invariant holds of every state of every execution of the  *)
(* builds. (dataset_service.py: build_dataset)                             *)
THEOREM Invariance == Spec => []IInv
<1>1. QED
  BY InitInvariant, NextInvariant, PTL DEF Spec

(* Types, for any datasets and sources. (dataset_service.py:               *)
(* build_dataset)                                                          *)
THEOREM TypeCorrect == Spec => []TypeOK
<1>1. IInv => TypeOK
  BY DEF IInv
<1>2. QED
  BY <1>1, Invariance, PTL

LEMMA DoneHandled ==
    ASSUME NEW d \in Datasets, phase[d] = "done", NEW q \in DOMAIN Reached
    PROVE  phase[d] \in Reached[q] /\ Handled(d, q) = Todo(q, source[d])
  BY DEF Reached, Handled

(* A finished build has every action and filing of its source in the       *)
(* shared tables exactly once. (corporate_actions.py: record_action;       *)
(* fundamentals.py: record_statements)                                     *)
THEOREM IngestedOnce == Spec => []IngestedExactlyOnce
<1>1. IInv => IngestedExactlyOnce
  <2> SUFFICES ASSUME IInv, NEW d \in Datasets, phase[d] = "done"
               PROVE  /\ \A a \in OfListed(source[d], source[d].actions) :
                            actions[Row(a)] = 1
                      /\ \A f \in OfListed(source[d], source[d].filings) :
                            fundamentals[Row(f)] = 1
    BY DEF IngestedExactlyOnce
  <2>1. /\ Todo("actions", source[d]) = OfListed(source[d], source[d].actions)
        /\ Todo("fundamentals", source[d]) = OfListed(source[d], source[d].filings)
    BY DEF Todo
  <2>2. "actions" \in DOMAIN Reached /\ "fundamentals" \in DOMAIN Reached
    BY DEF Reached
  <2>3. /\ Handled(d, "actions") = Todo("actions", source[d])
        /\ Handled(d, "fundamentals") = Todo("fundamentals", source[d])
    BY <2>2, DoneHandled
  <2>4. phase[d] \in Reached.actions /\ phase[d] \in Reached.fundamentals
    BY DEF Reached
  <2>5. QED
    BY <2>1, <2>3, <2>4 DEF IInv, ActionsInv, FilingsInv
<1>2. QED
  BY <1>1, Invariance, PTL

LEMMA OwnListings ==
    ASSUME IInv, NEW d \in Datasets, phase[d] = "done"
    PROVE  Members(d) = source[d].listings
<1>1. "publish" \in DOMAIN Reached
  BY DEF Reached
<1>2. Handled(d, "publish") = DOMAIN TableNames
  BY <1>1, DoneHandled DEF Todo
<1>3. "instruments" \in Handled(d, "publish")
  BY <1>2 DEF TableNames
<1>4. phase[d] \in Reached.publish
  BY DEF Reached
<1>5. tables[d]["instruments"] = TableRows(source[d])["instruments"]
  BY <1>3, <1>4 DEF IInv, TablesInv
<1>6. QED
  BY <1>5 DEF TableRows, Members

(* A finished build reads back its own bars and its own listings: other    *)
(* datasets' builds write elsewhere, and what an earlier build of this one *)
(* left, torn or old, has been replaced. (market_bars.py:                  *)
(* write_daily_bars; datasets.py: DatasetUniverseResolver, publish)        *)
THEOREM OwnRows == Spec => []ReadsBackOwnRows
<1>1. IInv => ReadsBackOwnRows
  <2> SUFFICES ASSUME IInv, NEW d \in Datasets, phase[d] = "done"
               PROVE  /\ \A p \in Todo("bars", source[d]) :
                            barFiles[d][p] = BarsOf(source[d], p)
                      /\ Members(d) = source[d].listings
    BY DEF ReadsBackOwnRows
  <2>1. "bars" \in DOMAIN Reached
    BY DEF Reached
  <2>2. Handled(d, "bars") = Todo("bars", source[d])
    BY <2>1, DoneHandled
  <2>3. phase[d] \in Reached.bars
    BY DEF Reached
  <2>4. \A p \in Todo("bars", source[d]) : barFiles[d][p] = BarsOf(source[d], p)
    BY <2>2, <2>3 DEF IInv, BarsInv
  <2>5. QED
    BY <2>4, OwnListings
<1>2. QED
  BY <1>1, Invariance, PTL

(* A manifest is written only when the five tables hold what it lists.     *)
(* (datasets.py: publish; dataset_service.py: build_dataset)               *)
LEMMA ManifestStep ==
    ASSUME IInv, NEW d \in Datasets, WriteManifest(d)
    PROVE  /\ manifest'[d] = tables[d]
           /\ \A e \in Datasets \ {d} : manifest'[e] = manifest[e]
<1>1. phase[d] = "manifest" /\ manifest' = [manifest EXCEPT ![d] = TableRows(source[d])]
  BY DEF WriteManifest
<1>2. /\ DOMAIN manifest = Datasets
      /\ tables[d] = [t \in DOMAIN TableNames |-> tables[d][t]]
  BY DEF IInv, TypeOK, StoreOK
<1>3. Handled(d, "publish") = DOMAIN TableNames
  BY <1>1 DEF Handled, Todo
<1>4. \A t \in DOMAIN TableNames : tables[d][t] = TableRows(source[d])[t]
  BY <1>1, <1>3 DEF IInv, TablesInv, Reached
<1>5. tables[d] = TableRows(source[d])
  <2>1. TableRows(source[d]) =
            [t \in DOMAIN TableNames |-> TableRows(source[d])[t]]
    BY DEF TableRows, TableNames
  <2>2. QED
    BY <1>2, <1>4, <2>1
<1>6. QED
  BY <1>1, <1>2, <1>5

LEMMA ManifestKept ==
    ASSUME NEW d,
           \/ \E s : StartBuild(d, s)
           \/ \E l : RecordListing(d, l)
           \/ \E a : RecordAction(d, a)
           \/ \E f : RecordStatement(d, f)
           \/ \E p : WriteBars(d, p)
           \/ \E t : WriteTable(d, t)
           \/ NextPhase(d)
           \/ StopBetweenWrites(d)
           \/ \E p : StopInBars(d, p)
           \/ \E t : StopInTable(d, t)
    PROVE  manifest' = manifest
  BY DEF StartBuild, RecordListing, RecordAction, RecordStatement, WriteBars,
         WriteTable, NextPhase, StopBetweenWrites, StopInBars, StopInTable, files

(* Nothing but the last step of a build, over whole tables, or a stop that *)
(* leaves the manifest unreadable, ever changes a manifest. (datasets.py:  *)
(* publish; dataset_service.py: build_dataset)                             *)
THEOREM ManifestOverTables == Spec => ManifestMatchesTables
<1>1. ASSUME IInv, [Next]_vars
      PROVE  [\A d \in Datasets :
                manifest'[d] # manifest[d] /\ manifest'[d] # Torn =>
                    manifest'[d] = tables[d]]_vars
  <2> SUFFICES ASSUME NEW d \in Datasets,
                      manifest'[d] # manifest[d], manifest'[d] # Torn,
                      Next
               PROVE  manifest'[d] = tables[d]
    BY <1>1
  <2>1. PICK e \in Datasets : WriteManifest(e) \/ StopInManifest(e)
    BY ManifestKept DEF Next
  <2>2. CASE WriteManifest(e)
    BY <1>1, <2>2, ManifestStep
  <2>3. CASE StopInManifest(e)
    <3>1. manifest'[d] = manifest[d] \/ manifest'[d] = Torn
      BY <1>1, <2>3 DEF StopInManifest, IInv, TypeOK, StoreOK
    <3>2. QED
      BY <3>1
  <2>4. QED
    BY <2>1, <2>2, <2>3
<1>2. QED
  BY <1>1, Invariance, PTL DEF Spec, ManifestMatchesTables
=============================================================================
