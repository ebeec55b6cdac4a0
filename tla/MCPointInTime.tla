--------------------------- MODULE MCPointInTime ---------------------------
(***************************************************************************)
(* Two instruments.  I trades on days 1 to 4, years are three days long;   *)
(* one bar is observed late and one revised.  J is asked for to move    *)
(* as-of and to compete for the caches.                                    *)
(***************************************************************************)
EXTENDS PointInTimeProperties, TLC

CONSTANTS I, J

BarOf(i, day, close) == [inst |-> i, session |-> day, observed |-> 2 * day + 1, close |-> close]

First == BarOf(I, 1, 8)
Second == [BarOf(I, 2, 9) EXCEPT !.observed = 8]
Third == BarOf(I, 3, 4)
Revised == BarOf(I, 3, 5)
Other == BarOf(J, 2, 7)

MCBars == {First, Second, Third, Revised, Other}

MCBarFeeds ==
    (<<I, 0>> :> {{First, Second}}) @@ (<<I, 1>> :> {{Third}, {Revised}})
        @@ (<<J, 0>> :> {{Other}})

(* A split of day 3, known a day late, and a dividend of day 4.             *)
MCActions ==
    {[inst |-> I, type |-> "split", effective |-> 3, available |-> 8, amount |-> 2],
     [inst |-> I, type |-> "dividend", effective |-> 4, available |-> 8, amount |-> 4]}

Ask(i, from, to, asOf) ==
    [inst |-> i, from |-> from, to |-> to, asOf |-> asOf, adjusted |-> TRUE]

(* Windows as the calculators ask for them, a shorter one that ends before *)
(* as-of, and a raw read.                                                  *)
MCRequests ==
    {Ask(I, 1, 3, 7), Ask(I, 1, 4, 9), Ask(I, 2, 4, 9), Ask(J, 2, 4, 9), Ask(I, 1, 2, 9),
     [Ask(I, 1, 4, 9) EXCEPT !.adjusted = FALSE]}
=============================================================================
