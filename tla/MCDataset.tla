----------------------------- MODULE MCDataset -----------------------------
(***************************************************************************)
(* Two datasets over one company that changed its symbol.  Years are two   *)
(* sessions long.                                                          *)
(***************************************************************************)
EXTENDS DatasetProperties, TLC

CONSTANTS D1, D2, I, FB, META

MCInstrumentOf == [s \in {FB, META} |-> I]

Old == [symbol |-> FB, from |-> 0, to |-> 1]
New == [symbol |-> META, from |-> 2, to |-> 9]

BarAt(symbol, session, close) == [symbol |-> symbol, session |-> session, close |-> close]

(* A split, a filing and bars in two years. *)
Full == [listings |-> {Old, New},
         actions  |-> {[symbol |-> META, effective |-> 2, ratio |-> 4]},
         filings  |-> {[symbol |-> FB, period |-> 0, available |-> 1, value |-> 7]},
         bars     |-> {BarAt(FB, 1, 400), BarAt(META, 2, 100), BarAt(META, 3, 101)},
         from |-> 0, to |-> 9]

(* The same with a revised close. *)
Revised == [Full EXCEPT !.bars = {BarAt(FB, 1, 400), BarAt(META, 2, 99), BarAt(META, 3, 101)}]

(* A source that lists only the new symbol: rows of the old are skipped.   *)
NewOnly == [Full EXCEPT !.listings = {New}]

MCSources == (D1 :> {Full, Revised}) @@ (D2 :> {NewOnly})
MCSame == (D1 :> {Full})
=============================================================================
