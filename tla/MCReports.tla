------------------------------ MODULE MCReports ------------------------------
(***************************************************************************)
(* Around the end of a leap February, five in the morning on 1 March (when *)
(* it is still February in UTC, for half an hour), and New Year's Eve; the *)
(* orders are created in the same millisecond: of one day, they tie.       *)
(***************************************************************************)
EXTENDS Reports

CONSTANTS o1, o2, c1, c2, e1

At(day, year, month, date, time) ==
  [now |-> day * HalfHoursPerDay + time - 11,
   wall |-> [year |-> year, month |-> month, day |-> date, time |-> time]]

SomeStarts == {At(21243, 2028, 1, 29, 47), At(21244, 2028, 2, 1, 10),
               At(21549, 2028, 11, 31, 47)}

\* 29 February, 1 and 31 March and 31 December 2028, 1 January 2029.
SomeDays == {21243, 21244, 21274, 21549, 21550}

SomeBuyDays == {21243}

Ages == (o1 :> 1) @@ (o2 :> 1)
Prices == (o1 :> 2) @@ (o2 :> 3)
Dues == (o1 :> 1) @@ (o2 :> 0)
Owners == (o1 :> c1) @@ (o2 :> c2)
Costs == (e1 :> 1)
=============================================================================
