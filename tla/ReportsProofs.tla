---------------------------- MODULE ReportsProofs ----------------------------
(***************************************************************************)
(* Theorems about Reports, for any tables, any clock from 1970 on and any  *)
(* saves in between: the dates, sums and lists the reports are made of,    *)
(* and then that the dashboard passes over no order and that the reports   *)
(* agree with each other.                                                  *)
(*                                                                         *)
(* The sums (folds) and the ORDER BY are what recursive functions and      *)
(* CHOOSE compute for every input.  The lemmas about them argue by a       *)
(* smallest counterexample, which needs no induction rule.                 *)
(***************************************************************************)
EXTENDS Reports, TLAPS, WellFoundedInduction, FiniteSetTheorems, SequenceTheorems

-----------------------------------------------------------------------------
(* The calendar: years, months and days are counted from 1970.             *)

LEMMA YearLength ==
  ASSUME NEW y \in Int
  PROVE  /\ DaysBeforeYear(y) \in Int
         /\ DaysBeforeYear(y + 1) = DaysBeforeYear(y) + (IF IsLeap(y) THEN 366 ELSE 365)
  BY DEF LeapYearsBefore, IsLeap, DaysBeforeYear

LEMMA YearsGrow ==
  ASSUME NEW y \in Int, NEW z \in Int, y < z
  PROVE  DaysBeforeYear(y + 1) <= DaysBeforeYear(z)
  BY DEF LeapYearsBefore, DaysBeforeYear

LEMMA YearsBound ==
  ASSUME NEW y \in Int
  PROVE  /\ y >= 1970 => /\ 365 * (y - 1970) <= DaysBeforeYear(y)
                         /\ DaysBeforeYear(y) <= 366 * (y - 1970)
         /\ y <= 1970 => DaysBeforeYear(y) <= 0
  BY DEF LeapYearsBefore, DaysBeforeYear

LEMMA MonthLength ==
  ASSUME NEW y \in Int, NEW m \in 0..10
  PROVE  DaysBeforeMonth(y, m + 1) = DaysBeforeMonth(y, m) + DaysIn(y, m)
  BY DEF DaysBeforeMonth, DaysIn

LEMMA MonthInt ==
  ASSUME NEW y \in Int, NEW m \in 0..11
  PROVE  /\ DaysBeforeMonth(y, m) \in Int /\ 0 <= DaysBeforeMonth(y, m)
         /\ DaysIn(y, m) \in Int /\ 28 <= DaysIn(y, m) /\ DaysIn(y, m) <= 31
  BY DEF DaysBeforeMonth, DaysIn

LEMMA YearMonths ==
  ASSUME NEW y \in Int
  PROVE  /\ DaysBeforeMonth(y, 0) = 0
         /\ DaysBeforeMonth(y, 11) + DaysIn(y, 11) = IF IsLeap(y) THEN 366 ELSE 365
  BY DEF DaysBeforeMonth, DaysIn

LEMMA DateForm ==
  ASSUME NEW y \in Int, NEW m \in 0..11, NEW d \in Int
  PROVE  /\ DateUTC(y, m, d) = DaysBeforeYear(y) + DaysBeforeMonth(y, m) + d - 1
         /\ DateUTC(y, m, d) \in Int
         /\ DateUTC(y, 12, d) = DateUTC(y + 1, 0, d)
<1>1. m \div 12 = 0 /\ m % 12 = m /\ y + 0 = y /\ 0 \in 0..11
  OBVIOUS
<1>2. 12 \div 12 = 1 /\ 12 % 12 = 0 /\ 0 \div 12 = 0 /\ 0 % 12 = 0 /\ y + 1 \in Int
  OBVIOUS
<1>3. DateUTC(y, m, d) = DaysBeforeYear(y) + DaysBeforeMonth(y, m) + d - 1
  BY <1>1 DEF DateUTC
<1>4. DateUTC(y, 12, d) = DaysBeforeYear(y + 1) + DaysBeforeMonth(y + 1, 0) + d - 1
  BY <1>2 DEF DateUTC
<1>5. DateUTC(y + 1, 0, d) = DaysBeforeYear(y + 1 + 0) + DaysBeforeMonth(y + 1 + 0, 0) + d - 1
  BY <1>2 DEF DateUTC
<1>6. y + 1 + 0 = y + 1
  OBVIOUS
<1>7. DateUTC(y, 12, d) = DateUTC(y + 1, 0, d)
  BY <1>4, <1>5, <1>6, Zenon
<1>8. DaysBeforeYear(y) \in Int /\ DaysBeforeMonth(y, m) \in Int
  BY YearLength, MonthInt
<1>9. DateUTC(y, m, d) \in Int
  BY <1>3, <1>8
<1> QED BY <1>3, <1>7, <1>9

LEMMA NextMonth ==
  ASSUME NEW y \in Int, NEW m \in 0..11, NEW d \in Int
  PROVE  DateUTC(y, m + 1, d) = DateUTC(y, m, d) + DaysIn(y, m)
<1>1. CASE m \in 0..10
  <2>1. m + 1 \in 0..11
    BY <1>1
  <2>2. DateUTC(y, m + 1, d) = DaysBeforeYear(y) + DaysBeforeMonth(y, m + 1) + d - 1
    BY <2>1, DateForm
  <2>3. DateUTC(y, m, d) = DaysBeforeYear(y) + DaysBeforeMonth(y, m) + d - 1
    BY DateForm
  <2>4. DaysBeforeMonth(y, m + 1) = DaysBeforeMonth(y, m) + DaysIn(y, m)
    BY <1>1, MonthLength
  <2>5. DaysBeforeYear(y) \in Int /\ DaysBeforeMonth(y, m) \in Int /\ DaysIn(y, m) \in Int
    BY YearLength, MonthInt, Zenon
  <2> QED BY <2>2, <2>3, <2>4, <2>5
<1>2. CASE m = 11
  <2>1. DateUTC(y, 12, d) = DateUTC(y + 1, 0, d) /\ y + 1 \in Int /\ 0 \in 0..11
    BY DateForm
  <2>2. DateUTC(y + 1, 0, d) = DaysBeforeYear(y + 1) + DaysBeforeMonth(y + 1, 0) + d - 1
    BY <2>1, DateForm
  <2>3. DateUTC(y, 11, d) = DaysBeforeYear(y) + DaysBeforeMonth(y, 11) + d - 1
    BY DateForm, 11 \in 0..11
  <2>4. DaysBeforeMonth(y + 1, 0) = 0
    BY <2>1, YearMonths
  <2>5. DaysBeforeMonth(y, 11) + DaysIn(y, 11) = IF IsLeap(y) THEN 366 ELSE 365
    BY YearMonths
  <2>6. /\ DaysBeforeYear(y) \in Int
        /\ DaysBeforeYear(y + 1) = DaysBeforeYear(y) + (IF IsLeap(y) THEN 366 ELSE 365)
    BY YearLength
  <2>7. DaysBeforeMonth(y, 11) \in Int /\ DaysIn(y, 11) \in Int
    BY MonthInt, 11 \in 0..11
  <2> QED BY <1>2, <2>1, <2>2, <2>3, <2>4, <2>5, <2>6, <2>7
<1> QED BY <1>1, <1>2

LEMMA FirstDay ==
  ASSUME NEW y \in Int, NEW m \in 0..11, NEW d \in Int
  PROVE  DateUTC(y, m, d) = DateUTC(y, m, 1) + d - 1 /\ DateUTC(y, m, 1) \in Int
<1>1. /\ DateUTC(y, m, d) = DaysBeforeYear(y) + DaysBeforeMonth(y, m) + d - 1
      /\ DateUTC(y, m, 1) = DaysBeforeYear(y) + DaysBeforeMonth(y, m) + 1 - 1
  BY DateForm, 1 \in Int
<1>2. DaysBeforeYear(y) \in Int /\ DaysBeforeMonth(y, m) \in Int
  BY YearLength, MonthInt
<1> QED BY <1>1, <1>2

\* A month's range: from its first day to the last.
LEMMA MonthRange ==
  ASSUME NEW y \in Int, NEW m \in 0..11
  PROVE  /\ GetMonthBounds(y, m) = DateUTC(y, m, 1) .. (DateUTC(y, m, 1) + DaysIn(y, m) - 1)
         /\ DateUTC(y, m + 1, 0) = DateUTC(y, m, 1) + DaysIn(y, m) - 1
<1>1. DateUTC(y, m + 1, 0) = DateUTC(y, m, 0) + DaysIn(y, m)
  BY NextMonth, 0 \in Int
<1>2. DateUTC(y, m, 0) = DateUTC(y, m, 1) + 0 - 1 /\ DateUTC(y, m, 1) \in Int
  BY FirstDay, 0 \in Int
<1>3. DaysIn(y, m) \in Int
  BY MonthInt
<1>4. DateUTC(y, m + 1, 0) = DateUTC(y, m, 1) + DaysIn(y, m) - 1
  BY <1>1, <1>2, <1>3
<1> QED BY <1>4 DEF GetMonthBounds

\* A month ends before a later one of the same or a later year begins.
LEMMA MonthsGrow ==
  ASSUME NEW y \in Int, NEW m \in 0..11, NEW z \in Int, NEW n \in 0..11,
         y < z \/ (y = z /\ m < n)
  PROVE  DateUTC(y, m, 1) + DaysIn(y, m) <= DateUTC(z, n, 1)
<1>1. /\ DateUTC(y, m, 1) = DaysBeforeYear(y) + DaysBeforeMonth(y, m)
      /\ DateUTC(z, n, 1) = DaysBeforeYear(z) + DaysBeforeMonth(z, n)
  <2>1. /\ DateUTC(y, m, 1) = DaysBeforeYear(y) + DaysBeforeMonth(y, m) + 1 - 1
        /\ DateUTC(z, n, 1) = DaysBeforeYear(z) + DaysBeforeMonth(z, n) + 1 - 1
    BY DateForm, 1 \in Int
  <2>2. /\ DaysBeforeYear(y) \in Int /\ DaysBeforeMonth(y, m) \in Int
        /\ DaysBeforeYear(z) \in Int /\ DaysBeforeMonth(z, n) \in Int
    BY YearLength, MonthInt, Zenon
  <2> QED BY <2>1, <2>2
<1>2. CASE y < z
  <2>1. DaysBeforeYear(y) \in Int /\ DaysBeforeYear(z) \in Int
    BY YearLength
  <2>3. DaysBeforeMonth(y, m) + DaysIn(y, m) <= DaysBeforeYear(y + 1) - DaysBeforeYear(y)
    BY YearLength DEF DaysBeforeMonth, DaysIn
  <2>4. DaysBeforeYear(y + 1) <= DaysBeforeYear(z) /\ DaysBeforeYear(y + 1) \in Int
    BY <1>2, YearsGrow, YearLength
  <2>5. /\ DaysBeforeMonth(z, n) >= 0 /\ DaysBeforeMonth(z, n) \in Int
        /\ DaysBeforeMonth(y, m) \in Int /\ DaysIn(y, m) \in Int
    BY MonthInt
  <2> QED BY <1>1, <2>1, <2>3, <2>4, <2>5
<1>3. CASE y = z /\ m < n
  <2>1. DaysBeforeMonth(y, m) + DaysIn(y, m) <= DaysBeforeMonth(y, n)
    BY <1>3 DEF DaysBeforeMonth, DaysIn
  <2>2. /\ DaysBeforeYear(y) \in Int /\ DaysBeforeMonth(y, m) \in Int
        /\ DaysBeforeMonth(y, n) \in Int /\ DaysIn(y, m) \in Int
    BY YearLength, MonthInt, Zenon
  <2> QED BY <1>1, <1>3, <2>1, <2>2
<1> QED BY <1>2, <1>3

LEMMA MonthInYear ==
  ASSUME NEW y \in Int, NEW k \in Int, 0 <= k, k < IF IsLeap(y) THEN 366 ELSE 365
  PROVE  \E m \in 0..11 : /\ DaysBeforeMonth(y, m) <= k
                          /\ k < DaysBeforeMonth(y, m) + DaysIn(y, m)
<1>1. \/ /\ DaysBeforeMonth(y, 0) <= k /\ k < DaysBeforeMonth(y, 0) + DaysIn(y, 0)
      \/ /\ DaysBeforeMonth(y, 1) <= k /\ k < DaysBeforeMonth(y, 1) + DaysIn(y, 1)
      \/ /\ DaysBeforeMonth(y, 2) <= k /\ k < DaysBeforeMonth(y, 2) + DaysIn(y, 2)
      \/ /\ DaysBeforeMonth(y, 3) <= k /\ k < DaysBeforeMonth(y, 3) + DaysIn(y, 3)
      \/ /\ DaysBeforeMonth(y, 4) <= k /\ k < DaysBeforeMonth(y, 4) + DaysIn(y, 4)
      \/ /\ DaysBeforeMonth(y, 5) <= k /\ k < DaysBeforeMonth(y, 5) + DaysIn(y, 5)
      \/ /\ DaysBeforeMonth(y, 6) <= k /\ k < DaysBeforeMonth(y, 6) + DaysIn(y, 6)
      \/ /\ DaysBeforeMonth(y, 7) <= k /\ k < DaysBeforeMonth(y, 7) + DaysIn(y, 7)
      \/ /\ DaysBeforeMonth(y, 8) <= k /\ k < DaysBeforeMonth(y, 8) + DaysIn(y, 8)
      \/ /\ DaysBeforeMonth(y, 9) <= k /\ k < DaysBeforeMonth(y, 9) + DaysIn(y, 9)
      \/ /\ DaysBeforeMonth(y, 10) <= k /\ k < DaysBeforeMonth(y, 10) + DaysIn(y, 10)
      \/ /\ DaysBeforeMonth(y, 11) <= k /\ k < DaysBeforeMonth(y, 11) + DaysIn(y, 11)
  BY DEF DaysBeforeMonth, DaysIn
<1>3. 0 \in 0..11 /\ 1 \in 0..11 /\ 2 \in 0..11 /\ 3 \in 0..11 /\ 4 \in 0..11 /\ 5 \in 0..11
  OBVIOUS
<1>4. 6 \in 0..11 /\ 7 \in 0..11 /\ 8 \in 0..11 /\ 9 \in 0..11 /\ 10 \in 0..11 /\ 11 \in 0..11
  OBVIOUS
<1> DEFINE Within(m) == /\ DaysBeforeMonth(y, m) <= k
                        /\ k < DaysBeforeMonth(y, m) + DaysIn(y, m)
<1>5. \/ Within(0) \/ Within(1) \/ Within(2) \/ Within(3) \/ Within(4) \/ Within(5)
      \/ Within(6) \/ Within(7) \/ Within(8) \/ Within(9) \/ Within(10) \/ Within(11)
  BY <1>1
<1> HIDE DEF Within
<1>6. \E m \in 0..11 : Within(m)
  BY <1>3, <1>4, <1>5
<1> QED BY <1>6 DEF Within

\* Every set of naturals that is not empty has a least member.
LEMMA LeastNatural ==
  ASSUME NEW S, S \subseteq Nat, S # {}
  PROVE  \E x \in S : \A y \in S : x <= y
<1>1. PICK x \in S : \A y \in S : <<y, x>> \notin OpToRel(<, Nat)
  BY WFMin, NatLessThanWellFounded, Zenon
<1>2. \A y \in Nat : y < x => y \notin S
  BY <1>1, Zenon DEF OpToRel
<1> QED BY <1>2

\* The year a day is in, within the range that CivilOf searches.
LEMMA YearExists ==
  ASSUME NEW n \in Nat
  PROVE  \E y \in (1970 + n \div 366) .. (1970 + n \div 365) :
            DaysBeforeYear(y) <= n /\ n < DaysBeforeYear(y + 1)
<1> DEFINE Late == {k \in Nat : n < DaysBeforeYear(k + 1)}
<1>1. 1970 + n \in Late
  <2>1. 1970 + n + 1 \in Int /\ 1970 + n + 1 >= 1970
    OBVIOUS
  <2>2. 365 * (1970 + n + 1 - 1970) <= DaysBeforeYear(1970 + n + 1)
    BY <2>1, YearsBound
  <2>3. DaysBeforeYear(1970 + n + 1) \in Int
    BY <2>1, YearLength
  <2> QED BY <2>2, <2>3
<1>2. PICK y \in Late : \A k \in Late : y <= k
  <2>1. Late \subseteq Nat
    OBVIOUS
  <2> HIDE DEF Late
  <2>2. Late # {}
    BY <1>1
  <2> QED BY <2>1, <2>2, LeastNatural
<1>3. y \in Nat /\ n < DaysBeforeYear(y + 1)
  OBVIOUS
<1>4. \A k \in Late : y <= k
  BY <1>2
<1> HIDE DEF Late
<1>5. y >= 1970
  <2>1. y + 1 \in Int /\ DaysBeforeYear(y + 1) \in Int
    BY <1>3, YearLength
  <2>2. y + 1 <= 1970 => DaysBeforeYear(y + 1) <= 0
    BY <2>1, YearsBound
  <2> QED BY <1>3, <2>1, <2>2
<1>6. DaysBeforeYear(y) <= n
  <2>1. DaysBeforeYear(y) \in Int
    BY <1>3, YearLength
  <2>2. CASE y = 1970
    BY <2>1, <2>2, YearsBound
  <2>3. CASE y > 1970
    <3>1. y - 1 \in Nat /\ y - 1 + 1 = y
      BY <1>3, <2>3
    <3>2. y - 1 \notin Late
      BY <1>3, <1>4
    <3> QED BY <2>1, <3>1, <3>2 DEF Late
  <2> QED BY <1>3, <1>5, <2>2, <2>3
<1>7. y \in (1970 + n \div 366) .. (1970 + n \div 365)
  <2>1. 365 * (y - 1970) <= DaysBeforeYear(y) /\ DaysBeforeYear(y) \in Int
    BY <1>3, <1>5, YearsBound, YearLength
  <2>2. DaysBeforeYear(y + 1) <= 366 * (y + 1 - 1970) /\ DaysBeforeYear(y + 1) \in Int
    BY <1>3, <1>5, YearsBound, YearLength
  <2>3. 365 * (y - 1970) <= n /\ n < 366 * (y + 1 - 1970)
    BY <1>3, <1>6, <2>1, <2>2
  <2> QED BY <1>3, <1>5, <2>3
<1> QED BY <1>3, <1>6, <1>7

\* Every day is a day of some month, and CivilOf finds it.
LEMMA CivilSpec ==
  ASSUME NEW n \in Nat
  PROVE  /\ CivilOf(n) \in [year : Nat, month : 0..11, day : 1..31]
         /\ CivilOf(n).day <= DaysIn(CivilOf(n).year, CivilOf(n).month)
         /\ DateUTC(CivilOf(n).year, CivilOf(n).month, CivilOf(n).day) = n
<1> DEFINE y == CHOOSE k \in (1970 + n \div 366) .. (1970 + n \div 365) :
                  DaysBeforeYear(k) <= n /\ n < DaysBeforeYear(k + 1)
           m == CHOOSE k \in 0..11 : DateUTC(y, k, 1) <= n /\ n < DateUTC(y, k + 1, 1)
<1>1. CivilOf(n) = [year |-> y, month |-> m, day |-> n - DateUTC(y, m, 1) + 1]
  BY DEF CivilOf
<1>2. /\ y \in (1970 + n \div 366) .. (1970 + n \div 365)
      /\ DaysBeforeYear(y) <= n /\ n < DaysBeforeYear(y + 1)
  <2> DEFINE span == (1970 + n \div 366) .. (1970 + n \div 365)
             In(k) == DaysBeforeYear(k) <= n /\ n < DaysBeforeYear(k + 1)
  <2>1. \E k \in span : In(k)
    BY YearExists
  <2>2. y = CHOOSE k \in span : In(k)
    OBVIOUS
  <2> HIDE DEF span, In, y
  <2>3. y \in span /\ In(y)
    BY <2>1, <2>2, Zenon
  <2> QED BY <2>3 DEF span, In
<1>3. y \in Nat /\ y \in Int
  BY <1>2
<1> HIDE DEF y
<1>4. \E k \in 0..11 : DateUTC(y, k, 1) <= n /\ n < DateUTC(y, k + 1, 1)
  <2>1. /\ DaysBeforeYear(y) \in Int
        /\ DaysBeforeYear(y + 1) = DaysBeforeYear(y) + (IF IsLeap(y) THEN 366 ELSE 365)
    BY <1>3, YearLength
  <2>2. PICK k \in 0..11 : /\ DaysBeforeMonth(y, k) <= n - DaysBeforeYear(y)
                           /\ n - DaysBeforeYear(y) < DaysBeforeMonth(y, k) + DaysIn(y, k)
    <3>1. /\ n - DaysBeforeYear(y) \in Int /\ 0 <= n - DaysBeforeYear(y)
          /\ n - DaysBeforeYear(y) < IF IsLeap(y) THEN 366 ELSE 365
      BY <1>2, <2>1
    <3> QED BY <1>3, <3>1, MonthInYear
  <2>3. /\ DateUTC(y, k, 1) = DaysBeforeYear(y) + DaysBeforeMonth(y, k) + 1 - 1
        /\ DateUTC(y, k + 1, 1) = DateUTC(y, k, 1) + DaysIn(y, k)
    BY <1>3, DateForm, NextMonth, 1 \in Int
  <2>4. DaysBeforeMonth(y, k) \in Int /\ DaysIn(y, k) \in Int
    BY <1>3, MonthInt
  <2> QED BY <2>1, <2>2, <2>3, <2>4
<1>5. m \in 0..11 /\ DateUTC(y, m, 1) <= n /\ n < DateUTC(y, m + 1, 1)
  BY <1>4
<1> HIDE DEF m
<1>6. /\ DateUTC(y, m + 1, 1) = DateUTC(y, m, 1) + DaysIn(y, m)
      /\ DaysIn(y, m) \in Int /\ DaysIn(y, m) <= 31
  BY <1>3, <1>5, NextMonth, MonthInt, 1 \in Int
<1> DEFINE first == DateUTC(y, m, 1)
           d == n - first + 1
<1>7. first \in Int /\ first = DaysBeforeYear(y) + DaysBeforeMonth(y, m) + 1 - 1
  BY <1>3, <1>5, DateForm, 1 \in Int
<1>8. d \in 1..31 /\ d <= DaysIn(y, m)
  BY <1>5, <1>6, <1>7
<1>9. DateUTC(y, m, d) = n
  <2>3. d \in Int
    BY <1>8
  <2> HIDE DEF d
  <2>1. DateUTC(y, m, d) = DaysBeforeYear(y) + DaysBeforeMonth(y, m) + d - 1
    BY <1>3, <1>5, <2>3, DateForm
  <2>2. DaysBeforeYear(y) \in Int /\ DaysBeforeMonth(y, m) \in Int
    BY <1>3, <1>5, YearLength, MonthInt, Zenon
  <2> QED BY <1>7, <2>1, <2>2 DEF d
<1> HIDE DEF d, first
<1>10. CivilOf(n) = [year |-> y, month |-> m, day |-> d]
  BY <1>1 DEF d, first
<1> QED BY <1>3, <1>5, <1>8, <1>9, <1>10

\* No other date names that day.
LEMMA CivilUnique ==
  ASSUME NEW y \in Nat, NEW m \in 0..11, NEW d \in Int, NEW n \in Nat,
         1 <= d, d <= DaysIn(y, m), DateUTC(y, m, d) = n
  PROVE  CivilOf(n) = [year |-> y, month |-> m, day |-> d]
<1> DEFINE c == CivilOf(n)
<1>1. /\ c \in [year : Nat, month : 0..11, day : 1..31]
      /\ c.day <= DaysIn(c.year, c.month)
      /\ DateUTC(c.year, c.month, c.day) = n
  BY CivilSpec
<1> HIDE DEF c
<1>2. c.year \in Nat /\ c.year \in Int /\ c.month \in 0..11 /\ c.day \in Int /\ 1 <= c.day
  BY <1>1
<1>3. y \in Int
  OBVIOUS
<1>4. /\ DateUTC(y, m, d) = DateUTC(y, m, 1) + d - 1
      /\ DateUTC(c.year, c.month, c.day) = DateUTC(c.year, c.month, 1) + c.day - 1
      /\ DateUTC(y, m, 1) \in Int /\ DateUTC(c.year, c.month, 1) \in Int
  BY <1>2, <1>3, FirstDay
<1>5. /\ DaysIn(y, m) \in Int /\ DaysIn(c.year, c.month) \in Int
  BY <1>2, <1>3, MonthInt
<1>6. ~(y < c.year \/ (y = c.year /\ m < c.month))
  <2> SUFFICES ASSUME y < c.year \/ (y = c.year /\ m < c.month) PROVE FALSE
    OBVIOUS
  <2>1. DateUTC(y, m, 1) + DaysIn(y, m) <= DateUTC(c.year, c.month, 1)
    BY <1>2, <1>3, MonthsGrow
  <2> QED BY <1>1, <1>2, <1>4, <1>5, <2>1
<1>7. ~(c.year < y \/ (c.year = y /\ c.month < m))
  <2> SUFFICES ASSUME c.year < y \/ (c.year = y /\ c.month < m) PROVE FALSE
    OBVIOUS
  <2>1. DateUTC(c.year, c.month, 1) + DaysIn(c.year, c.month) <= DateUTC(y, m, 1)
    BY <1>2, <1>3, MonthsGrow
  <2> QED BY <1>1, <1>2, <1>4, <1>5, <2>1
<1>8. c.year = y /\ c.month = m
  BY <1>2, <1>3, <1>6, <1>7
<1>9. c.day = d
  BY <1>1, <1>2, <1>4, <1>8
<1>10. c = [year |-> c.year, month |-> c.month, day |-> c.day]
  BY <1>1
<1> QED BY <1>8, <1>9, <1>10 DEF c

\* The days GetMonthBounds gives are those of its month.
LEMMA BoundsAreTheMonth ==
  ASSUME NEW y \in Nat, NEW m \in 0..11, NEW n \in Nat
  PROVE  /\ n \in GetMonthBounds(y, m) <=> MonthOf(n) = [year |-> y, month |-> m]
         /\ n \in GetMonthBounds(y, m) <=> CivilOf(n).year = y /\ CivilOf(n).month = m
<1> DEFINE c == CivilOf(n)
           first == DateUTC(y, m, 1)
<1>1. /\ c \in [year : Nat, month : 0..11, day : 1..31]
      /\ c.day <= DaysIn(c.year, c.month)
      /\ DateUTC(c.year, c.month, c.day) = n
  BY CivilSpec
<1>2. y \in Int /\ first \in Int /\ DaysIn(y, m) \in Int
  <2>1. y \in Int
    OBVIOUS
  <2> QED BY <2>1, FirstDay, MonthInt
<1>3. GetMonthBounds(y, m) = first .. (first + DaysIn(y, m) - 1)
  BY <1>2, MonthRange
<1>4. n \in GetMonthBounds(y, m) => c.year = y /\ c.month = m
  <2> SUFFICES ASSUME n \in GetMonthBounds(y, m) PROVE c.year = y /\ c.month = m
    OBVIOUS
  <2> DEFINE d == n - first + 1
  <2>1. d \in Int /\ 1 <= d /\ d <= DaysIn(y, m) /\ n = first + d - 1
    BY <1>2, <1>3
  <2> HIDE DEF d
  <2>2. DateUTC(y, m, d) = n
    BY <1>2, <2>1, FirstDay
  <2>3. c = [year |-> y, month |-> m, day |-> d]
    BY <2>1, <2>2, CivilUnique
  <2> QED BY <2>3
<1>5. c.year = y /\ c.month = m => n \in GetMonthBounds(y, m)
  <2> SUFFICES ASSUME c.year = y, c.month = m PROVE n \in GetMonthBounds(y, m)
    OBVIOUS
  <2>1. c.day \in Int /\ 1 <= c.day /\ c.day <= DaysIn(y, m)
    BY <1>1
  <2>2. n = first + c.day - 1
    <3>1. n = DateUTC(y, m, c.day)
      BY <1>1
    <3>2. y \in Int /\ m \in 0..11 /\ c.day \in Int
      BY <1>2, <2>1
    <3>3. DateUTC(y, m, c.day) = first + c.day - 1
      BY <3>2, FirstDay, Zenon
    <3> QED BY <3>1, <3>3
  <2> HIDE DEF c, first
  <2> QED BY <1>2, <1>3, <2>1, <2>2
<1> QED BY <1>4, <1>5 DEF MonthOf

-----------------------------------------------------------------------------
(* Months, and the clock. *)

\* A day is in its month: not before the first, and within its length.
LEMMA MonthSpec ==
  ASSUME NEW n \in Nat
  PROVE  /\ MonthOf(n) \in Month
         /\ From(MonthOf(n)) \in Int /\ From(MonthOf(n)) <= n
         /\ DaysIn(MonthOf(n).year, MonthOf(n).month) \in Int
         /\ n < From(MonthOf(n)) + DaysIn(MonthOf(n).year, MonthOf(n).month)
         /\ EndOfMonth(n) = From(MonthOf(n)) + DaysIn(MonthOf(n).year, MonthOf(n).month) - 1
<1> DEFINE c == CivilOf(n)
           first == DateUTC(c.year, c.month, 1)
           length == DaysIn(c.year, c.month)
<1>1. /\ c \in [year : Nat, month : 0..11, day : 1..31]
      /\ c.day <= length /\ DateUTC(c.year, c.month, c.day) = n
  BY CivilSpec
<1>2. MonthOf(n) = [year |-> c.year, month |-> c.month] /\ From(MonthOf(n)) = first
  BY DEF MonthOf, From
<1>3. EndOfMonth(n) = DateUTC(c.year, c.month + 1, 0)
  BY DEF EndOfMonth
<1> HIDE DEF c
<1>4. c.year \in Nat /\ c.year \in Int /\ c.month \in 0..11 /\ c.day \in Int /\ 1 <= c.day
  BY <1>1
<1>5. n = first + c.day - 1 /\ first \in Int /\ length \in Int
  BY <1>1, <1>4, FirstDay, MonthInt
<1>6. EndOfMonth(n) = first + length - 1
  BY <1>3, <1>4, MonthRange
<1>7. MonthOf(n) \in Month
  BY <1>2, <1>4 DEF Month
<1> HIDE DEF first, length
<1>8. first <= n /\ n < first + length
  BY <1>1, <1>4, <1>5
<1>9. DaysIn(MonthOf(n).year, MonthOf(n).month) = length
  BY <1>2 DEF length
<1> QED BY <1>2, <1>5, <1>6, <1>7, <1>8, <1>9

\* A later day is in the same month up to its end; beyond it, its month begins
\* later.
LEMMA LaterDays ==
  ASSUME NEW n \in Nat, NEW p \in Nat
  PROVE  /\ EndOfMonth(n) \in Int /\ n <= EndOfMonth(n)
         /\ p \in (n + 1) .. EndOfMonth(n) <=> p > n /\ MonthOf(p) = MonthOf(n)
         /\ p > EndOfMonth(n) => From(MonthOf(p)) > EndOfMonth(n)
<1> DEFINE a == MonthOf(n)
           b == MonthOf(p)
<1>1. /\ a \in Month /\ From(a) \in Int /\ From(a) <= n /\ DaysIn(a.year, a.month) \in Int
      /\ n < From(a) + DaysIn(a.year, a.month)
      /\ EndOfMonth(n) = From(a) + DaysIn(a.year, a.month) - 1
  BY MonthSpec
<1>2. /\ b \in Month /\ From(b) \in Int /\ From(b) <= p /\ DaysIn(b.year, b.month) \in Int
      /\ p < From(b) + DaysIn(b.year, b.month)
  BY MonthSpec
<1> HIDE DEF a, b
<1>3. /\ a.year \in Int /\ a.month \in 0..11 /\ b.year \in Int /\ b.month \in 0..11
      /\ a = b <=> a.year = b.year /\ a.month = b.month
  BY <1>1, <1>2 DEF Month
<1>4. CASE a = b
  BY <1>1, <1>2, <1>4 DEF a, b
<1>5. CASE a.year < b.year \/ (a.year = b.year /\ a.month < b.month)
  <2>1. From(a) + DaysIn(a.year, a.month) <= From(b)
    BY <1>3, <1>5, MonthsGrow DEF From
  <2>2. a # b
    BY <1>3, <1>5
  <2> QED BY <1>1, <1>2, <2>1, <2>2 DEF a, b
<1>6. CASE b.year < a.year \/ (b.year = a.year /\ b.month < a.month)
  <2>1. From(b) + DaysIn(b.year, b.month) <= From(a)
    BY <1>3, <1>6, MonthsGrow DEF From
  <2>2. a # b
    BY <1>3, <1>6
  <2> QED BY <1>1, <1>2, <2>1, <2>2 DEF a, b
<1> QED BY <1>3, <1>4, <1>5, <1>6

\* The calendar in India agrees with the wall.
LEMMA WallDate ==
  ASSUME NEW t \in Nat, NEW w, Shows(w, t)
  PROVE  /\ GetISTCalendarDate(t) = [year |-> w.year, month |-> w.month, day |-> w.day]
         /\ DateUTC(w.year, w.month, w.day) \in Nat
         /\ CivilOf(DateUTC(w.year, w.month, w.day))
              = [year |-> w.year, month |-> w.month, day |-> w.day]
<1> DEFINE day == DateUTC(w.year, w.month, w.day)
<1>1. /\ w.year \in Nat /\ w.year \in Int /\ w.month \in 0..11 /\ w.day \in Int /\ 1 <= w.day
      /\ w.time \in 0..47 /\ w.day <= DaysIn(w.year, w.month) /\ day * 48 + w.time = t + 11
  BY DEF Shows, Wall, HalfHoursPerDay, IstOffset
<1>2. day \in Int
  BY <1>1, DateForm
<1> HIDE DEF day
<1>3. day = (t + 11) \div 48 /\ day \in Nat
  BY <1>1, <1>2
<1>4. CivilOf(day) = [year |-> w.year, month |-> w.month, day |-> w.day]
  <2>1. /\ w.year \in Nat /\ w.month \in 0..11 /\ w.day \in Int /\ 1 <= w.day
        /\ w.day <= DaysIn(w.year, w.month)
    BY <1>1
  <2>2. DateUTC(w.year, w.month, w.day) = day
    BY DEF day
  <2> QED BY <1>3, <2>1, <2>2, CivilUnique, Zenon
<1> QED BY <1>3, <1>4 DEF GetISTCalendarDate, HalfHoursPerDay, IstOffset, day

\* The day after a day: in the same month, the next one, or the next year.
LEMMA DayAfter ==
  ASSUME NEW y \in Nat, NEW m \in 0..11, NEW d \in 1..31, d <= DaysIn(y, m)
  PROVE  /\ d < DaysIn(y, m) =>
              /\ d + 1 \in 1..31 /\ d + 1 <= DaysIn(y, m)
              /\ DateUTC(y, m, d + 1) = DateUTC(y, m, d) + 1
         /\ ~(d < DaysIn(y, m)) /\ m < 11 =>
              /\ m + 1 \in 0..11 /\ 1 <= DaysIn(y, m + 1)
              /\ DateUTC(y, m + 1, 1) = DateUTC(y, m, d) + 1
         /\ ~(d < DaysIn(y, m)) /\ ~(m < 11) =>
              /\ 1 <= DaysIn(y + 1, 0) /\ DateUTC(y + 1, 0, 1) = DateUTC(y, m, d) + 1
<1> DEFINE first == DateUTC(y, m, 1)
           days == DaysIn(y, m)
<1>1. y \in Int /\ d \in Int /\ 1 \in Int /\ d + 1 \in Int /\ y + 1 \in Int /\ 0 \in 0..11
  OBVIOUS
<1>2. /\ first \in Int /\ DateUTC(y, m, d) = first + d - 1
      /\ DateUTC(y, m, d + 1) = first + (d + 1) - 1
  BY <1>1, FirstDay, Zenon
<1>3. days \in Int /\ 28 <= days /\ days <= 31
  BY <1>1, MonthInt, Zenon
<1>4. DateUTC(y, m + 1, 1) = first + days
  BY <1>1, NextMonth, Zenon
<1>5. DateUTC(y, 12, 1) = DateUTC(y + 1, 0, 1)
  BY <1>1, DateForm, Zenon
<1>6. d <= days
  OBVIOUS
<1>7. \A k \in 0..11 : /\ DaysIn(y, k) \in Int /\ 28 <= DaysIn(y, k)
                       /\ DaysIn(y + 1, k) \in Int /\ 28 <= DaysIn(y + 1, k)
  BY <1>1, MonthInt, Zenon
<1>8. \A k \in 0..11 : 1 <= DaysIn(y, k) /\ 1 <= DaysIn(y + 1, k)
  BY <1>7
<1> HIDE DEF first, days
<1>9. ASSUME d < days
      PROVE  d + 1 \in 1..31 /\ d + 1 <= days /\ DateUTC(y, m, d + 1) = DateUTC(y, m, d) + 1
  BY <1>1, <1>2, <1>3, <1>9
<1>10. ASSUME ~(d < days), m < 11
       PROVE  m + 1 \in 0..11 /\ DateUTC(y, m + 1, 1) = DateUTC(y, m, d) + 1
  BY <1>1, <1>2, <1>3, <1>4, <1>6, <1>10
<1>11. ASSUME ~(d < days), ~(m < 11)
       PROVE  DateUTC(y + 1, 0, 1) = DateUTC(y, m, d) + 1
  <2>1. m + 1 = 12
    BY <1>11
  <2>2. DateUTC(y + 1, 0, 1) = first + days
    BY <1>4, <1>5, <2>1, Zenon
  <2> QED BY <1>1, <1>2, <1>3, <1>6, <1>11, <2>2
<1> QED BY <1>1, <1>8, <1>9, <1>10, <1>11 DEF days

\* So the wall turns to the next day.
LEMMA WallAtMidnight ==
  ASSUME NEW y \in Nat, NEW m \in 0..11, NEW d \in 1..31, d <= DaysIn(y, m),
         NEW v, v = [year |-> y, month |-> m, day |-> d, time |-> 0]
  PROVE  /\ v \in Wall /\ v.time = 0 /\ v.day <= DaysIn(v.year, v.month)
         /\ DateUTC(v.year, v.month, v.day) = DateUTC(y, m, d)
<1>1. v.year = y /\ v.month = m /\ v.day = d /\ v.time = 0
  OBVIOUS
<1>2. v \in Wall
  BY DEF Wall, HalfHoursPerDay
<1> QED BY <1>1, <1>2, Zenon

LEMMA NextDayDate ==
  ASSUME NEW w \in Wall, w.day <= DaysIn(w.year, w.month)
  PROVE  LET v == NextDay(w) IN
         /\ v \in Wall /\ v.time = 0 /\ v.day <= DaysIn(v.year, v.month)
         /\ DateUTC(v.year, v.month, v.day) = DateUTC(w.year, w.month, w.day) + 1
<1> DEFINE y == w.year
           m == w.month
           d == w.day
           v == NextDay(w)
<1>1. y \in Nat /\ m \in 0..11 /\ d \in 1..31 /\ d <= DaysIn(y, m)
  BY DEF Wall
<1> HIDE DEF y, m, d
<1>2. v = IF d < DaysIn(y, m)
            THEN [year |-> y, month |-> m, day |-> d + 1, time |-> 0]
            ELSE IF m < 11 THEN [year |-> y, month |-> m + 1, day |-> 1, time |-> 0]
                           ELSE [year |-> y + 1, month |-> 0, day |-> 1, time |-> 0]
  BY DEF NextDay, y, m, d
<1> HIDE DEF v
<1>3. 1 \in 1..31 /\ 0 \in 0..11 /\ y + 1 \in Nat
  BY <1>1
<1>4. CASE d < DaysIn(y, m)
  <2>1. /\ d + 1 \in 1..31 /\ d + 1 <= DaysIn(y, m)
        /\ DateUTC(y, m, d + 1) = DateUTC(y, m, d) + 1
    BY <1>1, <1>4, DayAfter, Zenon
  <2>2. v = [year |-> y, month |-> m, day |-> d + 1, time |-> 0]
    BY <1>2, <1>4, Zenon
  <2>3. /\ v \in Wall /\ v.time = 0 /\ v.day <= DaysIn(v.year, v.month)
        /\ DateUTC(v.year, v.month, v.day) = DateUTC(y, m, d + 1)
    BY <1>1, <2>1, <2>2, WallAtMidnight, Zenon
  <2> QED BY <2>1, <2>3, Zenon DEF y, m, d, v
<1>5. CASE ~(d < DaysIn(y, m)) /\ m < 11
  <2>1. /\ m + 1 \in 0..11 /\ 1 <= DaysIn(y, m + 1)
        /\ DateUTC(y, m + 1, 1) = DateUTC(y, m, d) + 1
    BY <1>1, <1>5, DayAfter, Zenon
  <2>2. v = [year |-> y, month |-> m + 1, day |-> 1, time |-> 0]
    BY <1>2, <1>5, Zenon
  <2>3. /\ v \in Wall /\ v.time = 0 /\ v.day <= DaysIn(v.year, v.month)
        /\ DateUTC(v.year, v.month, v.day) = DateUTC(y, m + 1, 1)
    BY <1>1, <1>3, <2>1, <2>2, WallAtMidnight, Zenon
  <2> QED BY <2>1, <2>3, Zenon DEF y, m, d, v
<1>6. CASE ~(d < DaysIn(y, m)) /\ ~(m < 11)
  <2>1. 1 <= DaysIn(y + 1, 0) /\ DateUTC(y + 1, 0, 1) = DateUTC(y, m, d) + 1
    BY <1>1, <1>6, DayAfter, Zenon
  <2>2. v = [year |-> y + 1, month |-> 0, day |-> 1, time |-> 0]
    BY <1>2, <1>6, Zenon
  <2>3. /\ v \in Wall /\ v.time = 0 /\ v.day <= DaysIn(v.year, v.month)
        /\ DateUTC(v.year, v.month, v.day) = DateUTC(y + 1, 0, 1)
    BY <1>3, <2>1, <2>2, WallAtMidnight, Zenon
  <2> QED BY <2>1, <2>3, Zenon DEF y, m, d, v
<1> QED BY <1>4, <1>5, <1>6, Zenon

\* After half an hour it still does, at midnight and on New Year's Eve too.
Turned(w) == IF w.time + 1 < HalfHoursPerDay THEN [w EXCEPT !.time = @ + 1] ELSE NextDay(w)

LEMMA WallTurns ==
  ASSUME NEW t \in Nat, NEW w, Shows(w, t)
  PROVE  Shows(Turned(w), t + 1)
<1> DEFINE day == DateUTC(w.year, w.month, w.day)
           v == Turned(w)
<1>1. w \in Wall /\ w.day <= DaysIn(w.year, w.month) /\ day * 48 + w.time = t + 11
  BY DEF Shows, HalfHoursPerDay, IstOffset
<1>2. w.time \in 0..47 /\ w.time \in Int
  BY <1>1 DEF Wall, HalfHoursPerDay
<1>3. day \in Int
  <2>1. w.year \in Int /\ w.month \in 0..11 /\ w.day \in Int
    BY <1>1 DEF Wall
  <2> QED BY <2>1, DateForm, Zenon
<1>4. /\ v \in Wall /\ v.day <= DaysIn(v.year, v.month)
      /\ DateUTC(v.year, v.month, v.day) * 48 + v.time = (t + 1) + 11
  <2>1. CASE w.time + 1 < 48
    <3>1. v = [w EXCEPT !.time = w.time + 1]
      BY <2>1 DEF Turned, HalfHoursPerDay
    <3>2. w.time + 1 \in 0..47
      BY <1>2, <2>1
    <3> HIDE DEF v
    <3>3. /\ v \in Wall /\ v.year = w.year /\ v.month = w.month /\ v.day = w.day
          /\ v.time = w.time + 1
      BY <1>1, <3>1, <3>2 DEF Wall, HalfHoursPerDay
    <3>4. DateUTC(v.year, v.month, v.day) = day /\ v.day <= DaysIn(v.year, v.month)
      BY <1>1, <3>3, Zenon
    <3> HIDE DEF day
    <3>5. day * 48 + v.time = (t + 1) + 11
      BY <1>1, <1>2, <1>3, <3>3
    <3> QED BY <3>3, <3>4, <3>5
  <2>2. CASE ~(w.time + 1 < 48)
    <3>1. v = NextDay(w)
      BY <2>2 DEF Turned, HalfHoursPerDay
    <3>2. /\ v \in Wall /\ v.time = 0 /\ v.day <= DaysIn(v.year, v.month)
          /\ DateUTC(v.year, v.month, v.day) = day + 1
      BY <1>1, <3>1, NextDayDate
    <3> HIDE DEF day, v
    <3>3. (day + 1) * 48 + 0 = (t + 1) + 11
      BY <1>1, <1>2, <1>3, <2>2
    <3> QED BY <3>2, <3>3
  <2> QED BY <2>1, <2>2
<1> QED BY <1>4 DEF Shows, HalfHoursPerDay, IstOffset

-----------------------------------------------------------------------------
(* The dashboard. *)

LEMMA TodayIs ==
  ASSUME now \in Nat, Shows(wall, now)
  PROVE  Today = DateUTC(wall.year, wall.month, wall.day) /\ Today \in Nat
<1>1. GetISTCalendarDate(now) = [year |-> wall.year, month |-> wall.month, day |-> wall.day]
  BY WallDate
<1>2. Today = DateUTC(wall.year, wall.month, wall.day)
  BY <1>1 DEF Today
<1> QED BY <1>2, WallDate

LEMMA Begins == ASSUME Init PROVE IInv
<1>1. now \in Nat /\ wall \in Wall /\ Shows(wall, now)
  BY ReportsAssumption DEF Init, Shows
<1>2. ticks \in 0..MaxTicks
  BY ReportsAssumption DEF Init
<1> QED BY <1>1, <1>2 DEF Init, IInv, TypeOK

LEMMA ActiveRows ==
  ASSUME TypeOK, NEW o \in Active
  PROVE  o \in Orders /\ order[o].day \in Days /\ order[o].day \in Nat
<1>1. o \in Orders /\ order[o] # Absent
  BY DEF Active, Placed
<1>2. order[o] \in [day : Days, status : Statuses]
  BY <1>1 DEF TypeOK
<1> QED BY ReportsAssumption, <1>1, <1>2

LEMMA ActiveInIs ==
  ASSUME NEW days
  PROVE  /\ ActiveIn(days) \subseteq Active /\ ActiveIn(days) \subseteq Orders
         /\ \A o \in Active : o \in ActiveIn(days) <=> order[o].day \in days
  BY DEF ActiveIn, Active, Placed

LEMMA GetDashboardSummaryKeeps ==
  ASSUME IInv, GetDashboardSummary PROVE IInv'
<1>1. /\ TypeOK /\ Shows(wall, now) /\ now \in Nat
      /\ UNCHANGED <<now, wall, ticks, order, bought>>
  BY DEF IInv, TypeOK, GetDashboardSummary, clock
<1>2. report' = [awaits |-> {"today", "rest"}, day |-> Today, today |-> {}, upcoming |-> {},
                 month |-> MonthOf(Today), touched |-> {}]
  BY DEF GetDashboardSummary
<1>3. Today \in Nat /\ MonthOf(Today) \in Month
  BY <1>1, TodayIs, MonthSpec
<1> DEFINE day == Today
<1> HIDE DEF day
<1>4. report' = [awaits |-> {"today", "rest"}, day |-> day, today |-> {}, upcoming |-> {},
                 month |-> MonthOf(day), touched |-> {}]
  BY <1>2 DEF day
<1>5. day \in Nat /\ MonthOf(day) \in Month
  BY <1>3 DEF day
<1>6. report' \in InProgress
  BY <1>4, <1>5 DEF InProgress
<1>7. TypeOK'
  BY <1>1, <1>6 DEF TypeOK
<1>8. Shows(wall, now)'
  BY <1>1 DEF Shows
<1>9. report'.awaits = {"today", "rest"} /\ report'.month = MonthOf(report'.day)
  BY <1>4
<1>10. report'.awaits \in Stages
  BY <1>9 DEF Stages
<1>11. TodayListed' /\ SearchGoesOn' /\ MonthFound' /\ UpcomingListed'
  BY <1>9 DEF TodayListed, SearchGoesOn, MonthFound, UpcomingListed
<1> QED BY <1>7, <1>8, <1>10, <1>11 DEF IInv

\* Facts all the later queries start from.
LEMMA InProgressIs ==
  ASSUME IInv, report # Idle
  PROVE  /\ TypeOK /\ Shows(wall, now) /\ report \in InProgress
         /\ report.awaits \in Stages /\ report.day \in Nat
         /\ TodayListed /\ SearchGoesOn /\ MonthFound /\ UpcomingListed
  BY DEF IInv, TypeOK, InProgress

LEMMA FindTodayKeeps ==
  ASSUME IInv, FindToday PROVE IInv'
<1>1. /\ report # Idle /\ "today" \in report.awaits
      /\ report' = [report EXCEPT !.awaits = @ \ {"today"}, !.today = ActiveIn({report.day})]
      /\ UNCHANGED <<now, wall, ticks, order, bought>>
  BY DEF FindToday, Awaits, clock
<1>2. /\ TypeOK /\ Shows(wall, now) /\ report \in InProgress
      /\ report.awaits \in Stages /\ report.day \in Nat
      /\ TodayListed /\ SearchGoesOn /\ MonthFound /\ UpcomingListed
  BY <1>1, InProgressIs
<1>3. /\ report'.awaits = report.awaits \ {"today"} /\ report'.day = report.day
      /\ report'.today = ActiveIn({report.day}) /\ report'.upcoming = report.upcoming
      /\ report'.month = report.month /\ report'.touched = report.touched
      /\ report' \in InProgress
  <2>1. report.awaits \ {"today"} \in SUBSET {"today", "rest", "next", "month"}
    BY <1>2 DEF InProgress
  <2>2. ActiveIn({report.day}) \in SUBSET Orders
    BY ActiveInIs
  <2> QED BY <1>1, <1>2, <2>1, <2>2 DEF InProgress
<1>4. Active' = Active /\ Kept' = Kept
  BY <1>1, <1>3 DEF Active, Placed, Kept
<1>5. report'.awaits \in Stages
  BY <1>1, <1>2, <1>3 DEF Stages
<1>6. TodayListed'
  BY <1>1, <1>3, <1>4, ActiveInIs DEF TodayListed, Kept
<1>7. SearchGoesOn'
  BY <1>1, <1>2, <1>3, <1>4 DEF SearchGoesOn
<1>8. MonthFound'
  BY <1>1, <1>2, <1>3, <1>4 DEF MonthFound
<1>9. UpcomingListed'
  <2>1. report'.awaits \subseteq {"today"} => report.awaits \subseteq {"today"}
    BY <1>3
  <2> QED BY <1>1, <1>2, <1>3, <1>4, <2>1 DEF UpcomingListed
<1>10. TypeOK' /\ Shows(wall, now)'
  BY <1>1, <1>2, <1>3 DEF TypeOK, Shows
<1> QED BY <1>5, <1>6, <1>7, <1>8, <1>9, <1>10 DEF IInv

LEMMA FindRestOfMonthKeeps ==
  ASSUME IInv, FindRestOfMonth PROVE IInv'
<1> DEFINE rest == ActiveIn((report.day + 1) .. EndOfMonth(report.day))
           awaits == (report.awaits \ {"rest"}) \cup (IF rest = {} THEN {"next"} ELSE {})
<1>1. /\ report # Idle /\ "rest" \in report.awaits
      /\ report' = [report EXCEPT !.upcoming = rest, !.awaits = awaits]
      /\ UNCHANGED <<now, wall, ticks, order, bought>>
  BY DEF FindRestOfMonth, Awaits, clock
<1>2. /\ TypeOK /\ Shows(wall, now) /\ report \in InProgress
      /\ report.awaits \in Stages /\ report.day \in Nat
      /\ TodayListed /\ SearchGoesOn /\ MonthFound /\ UpcomingListed
  BY <1>1, InProgressIs
<1>3. rest \in SUBSET Orders /\ rest \subseteq Active
  BY ActiveInIs
<1>4. \A o \in Active : o \in rest <=> /\ order[o].day > report.day
                                       /\ MonthOf(order[o].day) = MonthOf(report.day)
  <2> SUFFICES ASSUME NEW o \in Active
               PROVE  o \in rest <=> /\ order[o].day > report.day
                                     /\ MonthOf(order[o].day) = MonthOf(report.day)
    OBVIOUS
  <2>1. order[o].day \in Nat
    BY <1>2, ActiveRows
  <2>2. /\ order[o].day \in (report.day + 1) .. EndOfMonth(report.day)
            <=> /\ order[o].day > report.day
                /\ MonthOf(order[o].day) = MonthOf(report.day)
    BY <1>2, <2>1, LaterDays
  <2> QED BY <2>2, ActiveInIs
<1>5. rest = {} => \A o \in Active : order[o].day > report.day
                                       => order[o].day > EndOfMonth(report.day)
  <2> SUFFICES ASSUME rest = {}, NEW o \in Active, order[o].day > report.day
               PROVE  order[o].day > EndOfMonth(report.day)
    OBVIOUS
  <2>1. order[o].day \in Nat /\ order[o].day \notin (report.day + 1) .. EndOfMonth(report.day)
    BY <1>2, ActiveRows, ActiveInIs
  <2>2. EndOfMonth(report.day) \in Int
    BY <1>2, LaterDays
  <2> QED BY <1>2, <2>1, <2>2
<1> HIDE DEF rest
<1>6. awaits \in SUBSET {"today", "rest", "next", "month"}
  BY <1>2 DEF InProgress
<1>7. /\ report'.awaits = awaits /\ report'.day = report.day
      /\ report'.today = report.today /\ report'.upcoming = rest
      /\ report'.month = report.month /\ report'.touched = report.touched
      /\ report' \in InProgress
  <2> HIDE DEF awaits
  <2> QED BY <1>1, <1>2, <1>3, <1>6 DEF InProgress
<1>8. Active' = Active /\ Kept' = Kept /\ Kept \subseteq Active
  BY <1>1, <1>7 DEF Active, Placed, Kept
<1>9. report.awaits \in {{"today", "rest"}, {"rest"}}
  BY <1>1, <1>2 DEF Stages
<1>10. /\ awaits \in Stages /\ "rest" \notin awaits /\ "month" \notin awaits
       /\ "today" \notin awaits => "today" \notin report.awaits
       /\ "next" \in awaits <=> rest = {}
  BY <1>9 DEF Stages
<1> HIDE DEF awaits
<1>11. TodayListed'
  BY <1>1, <1>2, <1>7, <1>8, <1>10 DEF TodayListed
<1>12. SearchGoesOn'
  BY <1>1, <1>5, <1>7, <1>8, <1>10 DEF SearchGoesOn, EndOfMonth
<1>13. MonthFound'
  BY <1>7, <1>10 DEF MonthFound
<1>14. UpcomingListed'
  <2> SUFFICES ASSUME awaits \subseteq {"today"} PROVE UpcomingListed'
    BY <1>7 DEF UpcomingListed
  <2>1. rest # {} /\ report.month = MonthOf(report.day)
    BY <1>1, <1>2, <1>10 DEF SearchGoesOn
  <2>2. report.month \in Month /\ report.month # NoMonth
    BY ReportsAssumption, <1>2, <2>1, MonthSpec
  <2>3. \A o \in Kept : order[o].day > report.day => order[o].day >= From(report.month)
    <3> SUFFICES ASSUME NEW o \in Kept, order[o].day > report.day
                 PROVE  order[o].day >= From(report.month)
      OBVIOUS
    <3>1. order[o].day \in Nat
      BY <1>2, <1>8, ActiveRows
    <3>2. From(report.month) \in Int /\ From(report.month) <= report.day
      BY <1>2, <2>1, MonthSpec
    <3> QED BY <1>2, <3>1, <3>2
  <2>4. From(report'.month) = From(report.month)
    BY <1>7
  <2> QED BY <1>1, <1>4, <1>7, <1>8, <2>1, <2>2, <2>3, <2>4 DEF UpcomingListed
<1>15. TypeOK' /\ Shows(wall, now)'
  BY <1>1, <1>2, <1>7 DEF TypeOK, Shows
<1> QED BY <1>7, <1>10, <1>11, <1>12, <1>13, <1>14, <1>15 DEF IInv

\* FiniteSetsExt!Min is the least of a set of naturals.
LEMMA MinIsLeast ==
  ASSUME NEW S, S \subseteq Nat, S # {}
  PROVE  Min(S) \in S /\ \A x \in S : Min(S) <= x
<1>1. \E x \in S : \A y \in S : x <= y
  BY LeastNatural
<1> QED BY <1>1 DEF Min

LEMMA FindNextOrderKeeps ==
  ASSUME IInv, FindNextOrder PROVE IInv'
<1> DEFINE later == {order[o].day : o \in {p \in Active : order[p].day > EndOfMonth(report.day)}}
<1>1. /\ report # Idle /\ report.awaits = {"next"}
      /\ report' = IF later = {} THEN [report EXCEPT !.awaits = {}, !.month = NoMonth]
                   ELSE [report EXCEPT !.awaits = {"month"}, !.month = MonthOf(Min(later))]
      /\ UNCHANGED <<now, wall, ticks, order, bought>>
  BY DEF FindNextOrder, clock
<1>2. /\ TypeOK /\ Shows(wall, now) /\ report \in InProgress
      /\ report.awaits \in Stages /\ report.day \in Nat
      /\ TodayListed /\ SearchGoesOn /\ MonthFound /\ UpcomingListed
  BY <1>1, InProgressIs
<1>3. \A o \in Active : order[o].day > EndOfMonth(report.day) <=> order[o].day \in later
  OBVIOUS
<1>4. \A d \in later : \E o \in Active : d = order[o].day /\ d > EndOfMonth(report.day)
  OBVIOUS
<1>5. later \subseteq Nat
  BY <1>2, <1>4, ActiveRows
<1> HIDE DEF later
<1>6. EndOfMonth(report.day) \in Int /\ report.day <= EndOfMonth(report.day)
  BY <1>2, LaterDays
<1>7. /\ report.upcoming = {}
      /\ \A o \in Kept : order[o].day > report.day => order[o].day > EndOfMonth(report.day)
  BY <1>1, <1>2 DEF SearchGoesOn
<1>8. CASE later = {}
  <2>1. report' = [report EXCEPT !.awaits = {}, !.month = NoMonth]
    BY <1>1, <1>8
  <2>2. /\ report'.awaits = {} /\ report'.day = report.day
        /\ report'.today = report.today /\ report'.upcoming = {}
        /\ report'.touched = report.touched
        /\ report' \in InProgress
    BY <1>2, <1>7, <2>1 DEF InProgress
  <2>3. Active' = Active /\ Kept' = Kept /\ Kept \subseteq Active
    BY <1>1, <2>2 DEF Active, Placed, Kept
  <2>4. \A o \in Kept : ~(order[o].day > report.day)
    BY <1>3, <1>7, <1>8, <2>3
  <2>5. report.touched = {} => Kept = Active
    BY DEF Kept
  <2>6. UpcomingListed'
    BY <1>1, <2>2, <2>3, <2>4, <2>5 DEF UpcomingListed
  <2>7. TodayListed'
    BY <1>1, <1>2, <2>2, <2>3 DEF TodayListed
  <2>8. SearchGoesOn' /\ MonthFound' /\ report'.awaits \in Stages
    BY <2>2 DEF SearchGoesOn, MonthFound, Stages
  <2>9. TypeOK' /\ Shows(wall, now)'
    BY <1>1, <1>2, <2>2 DEF TypeOK, Shows
  <2> QED BY <2>6, <2>7, <2>8, <2>9 DEF IInv
<1>9. CASE later # {}
  <2> DEFINE next == MonthOf(Min(later))
  <2>1. report' = [report EXCEPT !.awaits = {"month"}, !.month = next]
    BY <1>1, <1>9
  <2>2. Min(later) \in later /\ (\A d \in later : Min(later) <= d) /\ Min(later) \in Nat
    BY <1>5, <1>9, MinIsLeast
  <2>3. /\ next \in Month /\ From(next) \in Int /\ From(next) <= Min(later)
        /\ From(next) > EndOfMonth(report.day)
    BY <1>2, <1>4, <2>2, MonthSpec, LaterDays
  <2>4. PICK last \in Active : Min(later) = order[last].day
    BY <1>4, <2>2
  <2>5. MonthOf(order[last].day) = next
    BY <2>4
  <2> HIDE DEF next
  <2>6. /\ report'.awaits = {"month"} /\ report'.day = report.day
        /\ report'.today = report.today /\ report'.month = next
        /\ report'.touched = report.touched
        /\ report' \in InProgress
    BY <1>2, <2>1, <2>3 DEF InProgress
  <2>7. Active' = Active /\ Kept' = Kept /\ Kept \subseteq Active
    BY <1>1, <2>6 DEF Active, Placed, Kept
  <2>8. \A o \in Kept : order[o].day > report.day => order[o].day >= From(next)
    <3> SUFFICES ASSUME NEW o \in Kept, order[o].day > report.day
                 PROVE  order[o].day >= From(next)
      OBVIOUS
    <3>1. order[o].day \in later
      BY <1>3, <1>7, <2>7
    <3>2. order[o].day \in Nat /\ Min(later) <= order[o].day
      BY <1>5, <2>2, <3>1
    <3> QED BY <2>2, <2>3, <3>2
  <2>9. From(report'.month) = From(next) /\ From(next) > report.day
    BY <1>2, <1>6, <2>3, <2>6
  <2>10. next # NoMonth
    BY ReportsAssumption, <2>3
  <2>11. MonthFound'
    BY <1>1, <2>4, <2>5, <2>6, <2>7, <2>8, <2>9, <2>10 DEF MonthFound
  <2>12. TodayListed'
    BY <1>1, <1>2, <2>6, <2>7 DEF TodayListed
  <2>13. SearchGoesOn' /\ UpcomingListed' /\ report'.awaits \in Stages
    BY <2>6 DEF SearchGoesOn, UpcomingListed, Stages
  <2>14. TypeOK' /\ Shows(wall, now)'
    BY <1>1, <1>2, <2>6 DEF TypeOK, Shows
  <2> QED BY <2>11, <2>12, <2>13, <2>14 DEF IInv
<1> QED BY <1>8, <1>9

LEMMA ListNextMonthKeeps ==
  ASSUME IInv, ListNextMonth PROVE IInv'
<1> DEFINE found == ActiveIn(GetMonthBounds(report.month.year, report.month.month))
<1>1. /\ report # Idle /\ "month" \in report.awaits
      /\ report' = [report EXCEPT !.awaits = {}, !.upcoming = found]
      /\ UNCHANGED <<now, wall, ticks, order, bought>>
  BY DEF ListNextMonth, Awaits, clock
<1>2. /\ TypeOK /\ Shows(wall, now) /\ report \in InProgress
      /\ report.awaits \in Stages /\ report.day \in Nat
      /\ TodayListed /\ SearchGoesOn /\ MonthFound /\ UpcomingListed
  BY <1>1, InProgressIs
<1>3. found \in SUBSET Orders /\ found \subseteq Active
  BY ActiveInIs
<1>4. /\ report.month # NoMonth /\ From(report.month) > report.day
      /\ \A o \in Kept : order[o].day > report.day => order[o].day >= From(report.month)
      /\ report.touched = {} => \E o \in Active : MonthOf(order[o].day) = report.month
  BY <1>1, <1>2 DEF MonthFound
<1>5. report.month \in Month
  BY <1>2, <1>4 DEF InProgress
<1>6. \A o \in Active : o \in found <=> MonthOf(order[o].day) = report.month
  <2> SUFFICES ASSUME NEW o \in Active
               PROVE  o \in found <=> MonthOf(order[o].day) = report.month
    OBVIOUS
  <2>1. order[o].day \in Nat
    BY <1>2, ActiveRows
  <2>2. /\ report.month.year \in Nat /\ report.month.month \in 0..11
        /\ report.month = [year |-> report.month.year, month |-> report.month.month]
    BY <1>5 DEF Month
  <2>3. order[o].day \in GetMonthBounds(report.month.year, report.month.month)
          <=> MonthOf(order[o].day) = report.month
    BY <2>1, <2>2, BoundsAreTheMonth
  <2> QED BY <2>3, ActiveInIs
<1> HIDE DEF found
<1>7. /\ report'.awaits = {} /\ report'.day = report.day
      /\ report'.today = report.today /\ report'.upcoming = found
      /\ report'.month = report.month /\ report'.touched = report.touched
      /\ report' \in InProgress
  BY <1>1, <1>2, <1>3 DEF InProgress
<1>8. Active' = Active /\ Kept' = Kept /\ Kept \subseteq Active
  BY <1>1, <1>7 DEF Active, Placed, Kept
<1>9. report.awaits = {"month"}
  BY <1>1, <1>2 DEF Stages
<1>10. TodayListed'
  BY <1>1, <1>2, <1>7, <1>8, <1>9 DEF TodayListed
<1>11. SearchGoesOn' /\ MonthFound' /\ report'.awaits \in Stages
  BY <1>7 DEF SearchGoesOn, MonthFound, Stages
<1>12. \A o \in Kept : o \in found => order[o].day > report.day
  <2> SUFFICES ASSUME NEW o \in Kept, o \in found PROVE order[o].day > report.day
    OBVIOUS
  <2>1. order[o].day \in Nat /\ MonthOf(order[o].day) = report.month
    BY <1>2, <1>6, <1>8, ActiveRows
  <2>2. From(report.month) \in Int /\ From(report.month) <= order[o].day
    BY <2>1, MonthSpec
  <2> QED BY <1>2, <1>4, <2>1, <2>2
<1>13. From(report'.month) = From(report.month)
  BY <1>7
<1>14. UpcomingListed'
  BY <1>1, <1>4, <1>6, <1>7, <1>8, <1>12, <1>13 DEF UpcomingListed
<1>15. TypeOK' /\ Shows(wall, now)'
  BY <1>1, <1>2, <1>7 DEF TypeOK, Shows
<1> QED BY <1>10, <1>11, <1>14, <1>15 DEF IInv

LEMMA ReplyKeeps ==
  ASSUME IInv, Reply PROVE IInv'
  BY DEF Reply, IInv, TypeOK, Shows, clock

\* A save touches its order: the others that are kept are as they were.
LEMMA SaveOrderKeeps ==
  ASSUME IInv, NEW o \in Orders, SaveOrder(o) PROVE IInv'
<1>1. PICK d \in Days, s \in Statuses :
        order' = [order EXCEPT ![o] = [day |-> d, status |-> s]]
  BY DEF SaveOrder
<1>2. /\ report' = IF report = Idle THEN Idle ELSE [report EXCEPT !.touched = @ \cup {o}]
      /\ UNCHANGED <<now, wall, ticks, bought>>
  BY DEF SaveOrder, clock
<1>3. TypeOK /\ Shows(wall, now)
  BY DEF IInv
<1>4. order' \in [Orders -> [day : Days, status : Statuses] \cup {Absent}]
  <2>1. [day |-> d, status |-> s] \in [day : Days, status : Statuses]
    OBVIOUS
  <2> DEFINE row == [day |-> d, status |-> s]
  <2> HIDE DEF row
  <2>2. row \in [day : Days, status : Statuses] /\ order' = [order EXCEPT ![o] = row]
    BY <1>1, <2>1 DEF row
  <2> QED BY <1>3, <2>2 DEF TypeOK
<1>5. Shows(wall, now)'
  BY <1>2, <1>3 DEF Shows
<1>6. CASE report = Idle
  <2>1. report' = Idle
    BY <1>2, <1>6
  <2> QED BY <1>2, <1>3, <1>4, <1>5, <2>1 DEF IInv, TypeOK
<1>7. CASE report # Idle
  <2>1. /\ report \in InProgress
        /\ report.awaits \in Stages /\ report.day \in Nat
        /\ TodayListed /\ SearchGoesOn /\ MonthFound /\ UpcomingListed
    BY <1>7, InProgressIs
  <2>2. report' = [report EXCEPT !.touched = @ \cup {o}]
    BY <1>2, <1>7
  <2>3. /\ report'.awaits = report.awaits /\ report'.day = report.day
        /\ report'.today = report.today /\ report'.upcoming = report.upcoming
        /\ report'.month = report.month /\ report'.touched = report.touched \cup {o}
        /\ report' \in InProgress
    BY <2>1, <2>2 DEF InProgress
  <2>4. \A p \in Orders : p # o => order'[p] = order[p]
    BY <1>1, <1>3 DEF TypeOK
  <2>5. \A p \in Kept' : p \in Kept /\ order'[p] = order[p]
    BY <2>3, <2>4 DEF Kept, Active, Placed
  <2>6. report'.touched # {}
    BY <2>3
  <2>7. TypeOK'
    BY <1>2, <1>3, <1>4, <2>3 DEF TypeOK
  <2>8. TodayListed'
    BY <2>1, <2>3, <2>5 DEF TodayListed
  <2>9. SearchGoesOn'
    <3>1. /\ EndOfMonth(report'.day) = EndOfMonth(report.day)
          /\ MonthOf(report'.day) = MonthOf(report.day)
      BY <2>3
    <3> QED BY <2>1, <2>3, <2>5, <3>1 DEF SearchGoesOn
  <2>10. From(report'.month) = From(report.month)
    BY <2>3
  <2>11. MonthFound'
    BY <2>1, <2>3, <2>5, <2>6, <2>10 DEF MonthFound
  <2>12. UpcomingListed'
    BY <2>1, <2>3, <2>5, <2>6, <2>10 DEF UpcomingListed
  <2> QED BY <1>5, <2>1, <2>3, <2>7, <2>8, <2>9, <2>11, <2>12 DEF IInv
<1> QED BY <1>6, <1>7

\* Neither the clock nor an expense is part of a dashboard in progress.
LEMMA ReportStands ==
  ASSUME IInv, TypeOK', Shows(wall, now)', UNCHANGED <<order, report>>
  PROVE  IInv'
<1>1. Kept' = Kept /\ Active' = Active
  BY DEF Kept, Active, Placed
<1>2. TodayListed => TodayListed'
  BY <1>1 DEF TodayListed
<1>3. SearchGoesOn => SearchGoesOn'
  BY <1>1 DEF SearchGoesOn
<1>4. MonthFound => MonthFound'
  BY <1>1 DEF MonthFound
<1>5. UpcomingListed => UpcomingListed'
  BY <1>1 DEF UpcomingListed
<1> QED BY <1>2, <1>3, <1>4, <1>5 DEF IInv

LEMMA SaveExpenseKeeps ==
  ASSUME IInv, NEW e \in Expenses, SaveExpense(e) PROVE IInv'
<1>1. UNCHANGED <<now, wall, ticks, order, report>>
  BY DEF SaveExpense, clock
<1>2. TypeOK'
  BY <1>1 DEF IInv, TypeOK, SaveExpense
<1>3. Shows(wall, now)'
  BY <1>1 DEF IInv, Shows
<1> QED BY <1>1, <1>2, <1>3, ReportStands

LEMMA TickKeeps ==
  ASSUME IInv, Tick PROVE IInv'
<1>1. /\ ticks < MaxTicks /\ ticks' = ticks + 1 /\ now' = now + 1
      /\ wall' = Turned(wall) /\ UNCHANGED <<order, bought, report>>
  BY DEF Tick, Turned
<1>2. TypeOK /\ Shows(wall, now) /\ now \in Nat
  BY DEF IInv, TypeOK
<1>3. Shows(Turned(wall), now + 1)
  BY <1>2, WallTurns
<1>4. Shows(wall, now)'
  BY <1>1, <1>3
<1>5. wall' \in Wall
  BY <1>4 DEF Shows
<1>6. TypeOK'
  BY ReportsAssumption, <1>1, <1>2, <1>5 DEF TypeOK
<1> QED BY <1>1, <1>4, <1>6, ReportStands

LEMMA NextKeeps ==
  ASSUME IInv, [Next]_vars PROVE IInv'
<1>1. CASE GetDashboardSummary
  BY <1>1, GetDashboardSummaryKeeps
<1>2. CASE FindToday
  BY <1>2, FindTodayKeeps
<1>3. CASE FindRestOfMonth
  BY <1>3, FindRestOfMonthKeeps
<1>4. CASE FindNextOrder
  BY <1>4, FindNextOrderKeeps
<1>5. CASE ListNextMonth
  BY <1>5, ListNextMonthKeeps
<1>6. CASE Reply
  BY <1>6, ReplyKeeps
<1>7. CASE Tick
  BY <1>7, TickKeeps
<1>8. ASSUME NEW o \in Orders, SaveOrder(o) PROVE IInv'
  BY <1>8, SaveOrderKeeps
<1>9. ASSUME NEW e \in Expenses, SaveExpense(e) PROVE IInv'
  BY <1>9, SaveExpenseKeeps
<1>10. CASE UNCHANGED vars
  <2>1. UNCHANGED <<now, wall, ticks, order, bought, report>>
    BY <1>10 DEF vars
  <2>2. TypeOK' /\ Shows(wall, now)'
    BY <2>1 DEF IInv, TypeOK, Shows
  <2> QED BY <2>1, <2>2, ReportStands
<1> QED BY <1>1, <1>2, <1>3, <1>4, <1>5, <1>6, <1>7, <1>8, <1>9, <1>10 DEF Next

\* Every state of the reports satisfies the inductive invariant, however the
\* dashboard's queries and the saves of orders interleave.
THEOREM ReportsInvariance == Spec => []IInv
<1>1. Init => IInv
  BY Begins
<1>2. IInv /\ [Next]_vars => IInv'
  BY NextKeeps
<1> QED BY <1>1, <1>2, PTL DEF Spec

\* Type correctness of the tables, the clock and the dashboard in progress.
THEOREM ReportsTypeCorrect == Spec => []TypeOK
<1>1. IInv => TypeOK
  BY DEF IInv
<1> QED BY <1>1, ReportsInvariance, PTL

\* The dashboard passes over no order that nobody touched meanwhile, although
\* each of its queries sees tables of its own (getDashboardSummary).
THEOREM UpcomingCorrect == Spec => []UpcomingIsNearest
<1>1. IInv => UpcomingIsNearest
  <2> SUFFICES ASSUME IInv, report # Idle, report.awaits = {} PROVE UpcomingIsNearest
    BY DEF UpcomingIsNearest
  <2>1. TodayListed /\ UpcomingListed
    BY DEF IInv
  <2>2. \A o \in Kept : o \in report.today <=> order[o].day = report.day
    BY <2>1 DEF TodayListed
  <2> QED BY <2>1, <2>2 DEF UpcomingListed, UpcomingIsNearest, Kept, From
<1> QED BY <1>1, ReportsInvariance, PTL

-----------------------------------------------------------------------------
(* Sums over finite sets. *)

\* Induction over finite sets, as the argument from a smallest counterexample:
\* of the subsets for which something fails, one has none without a member.
LEMMA Smallest ==
  ASSUME NEW S, IsFiniteSet(S), NEW Bad, Bad \subseteq SUBSET S, Bad # {}
  PROVE  \E T \in Bad : \A i \in T : T \ {i} \notin Bad
<1>1. IsWellFoundedOn(StrictSubsetOrdering(S), FiniteSubsetsOf(S))
  BY FS_StrictSubsetOrderingWellFounded
<1>2. Bad \subseteq FiniteSubsetsOf(S)
  BY FS_Subset DEF FiniteSubsetsOf
<1>3. PICK T \in Bad : \A U \in Bad : <<U, T>> \notin StrictSubsetOrdering(S)
  BY <1>1, <1>2, WFMin
<1>4. \A i \in T : <<T \ {i}, T>> \in StrictSubsetOrdering(S)
  <2>1. SUFFICES ASSUME NEW i \in T PROVE <<T \ {i}, T>> \in StrictSubsetOrdering(S)
    OBVIOUS
  <2>2. /\ T \in SUBSET S /\ T \ {i} \in SUBSET S
        /\ T \ {i} \subseteq T /\ T \ {i} # T
    OBVIOUS
  <2> QED BY <2>2 DEF StrictSubsetOrdering
<1> QED BY <1>3, <1>4

\* The recursion of MapThenSumSet: h adds up w over the subsets of T.
Some(s) == CHOOSE x \in s : TRUE
Summand(w, h, s) == IF s = {} THEN 0 ELSE w[Some(s)] + h[s \ {Some(s)}]
IsSum(T, w, h) == h = [s \in SUBSET T |-> Summand(w, h, s)]
Total(T, w) == (CHOOSE h : IsSum(T, w, h))[T]

LEMMA SomeIsIn == ASSUME NEW s, s # {} PROVE Some(s) \in s
  BY DEF Some

\* Such an h exists: up to each size, it is computed from the size before.
LEMMA SumExists ==
  ASSUME NEW T, IsFiniteSet(T), NEW w
  PROVE  \E h : IsSum(T, w, h)
<1> DEFINE SumTo(h, n) == /\ h = [s \in SUBSET T |-> h[s]]
                          /\ \A s \in SUBSET T : Cardinality(s) <= n => h[s] = Summand(w, h, s)
           Bad == {n \in Nat : ~ \E h : SumTo(h, n)}
<1>0. \A s \in SUBSET T : /\ IsFiniteSet(s) /\ Cardinality(s) \in Nat
                          /\ Cardinality(s) <= Cardinality(T)
                          /\ Cardinality(s) = 0 <=> s = {}
                          /\ s # {} => Cardinality(s \ {Some(s)}) = Cardinality(s) - 1
  <2> SUFFICES ASSUME NEW s \in SUBSET T
               PROVE  /\ IsFiniteSet(s) /\ Cardinality(s) \in Nat
                      /\ Cardinality(s) <= Cardinality(T)
                      /\ Cardinality(s) = 0 <=> s = {}
                      /\ s # {} => Cardinality(s \ {Some(s)}) = Cardinality(s) - 1
    OBVIOUS
  <2>1. IsFiniteSet(s) /\ Cardinality(s) <= Cardinality(T)
    BY FS_Subset
  <2>2. Cardinality(s) \in Nat /\ (Cardinality(s) = 0 <=> s = {})
    BY <2>1, FS_CardinalityType, FS_EmptySet
  <2>3. s # {} => Cardinality(s \ {Some(s)}) = Cardinality(s) - 1
    BY <2>1, FS_RemoveElement, SomeIsIn
  <2> QED BY <2>1, <2>2, <2>3
<1>1. Bad = {}
  <2> SUFFICES ASSUME Bad # {} PROVE FALSE
    OBVIOUS
  <2>1. PICK n \in Bad : \A m \in Bad : n <= m
    <3>1. Bad \subseteq Nat
      OBVIOUS
    <3> HIDE DEF Bad
    <3> QED BY <3>1, LeastNatural
  <2>2. n \in Nat /\ ~ \E h : SumTo(h, n)
    OBVIOUS
  <2>3. CASE n = 0
    <3> DEFINE h == [s \in SUBSET T |-> 0]
    <3>1. h = [s \in SUBSET T |-> h[s]]
      OBVIOUS
    <3>2. \A s \in SUBSET T : Cardinality(s) <= 0 => h[s] = Summand(w, h, s)
      <4> SUFFICES ASSUME NEW s \in SUBSET T, Cardinality(s) <= 0 PROVE h[s] = Summand(w, h, s)
        OBVIOUS
      <4>1. Cardinality(s) = 0
        <5>1. Cardinality(s) \in Nat
          BY <1>0
        <5> QED BY <5>1
      <4>3. s = {}
        BY <1>0, <4>1
      <4>2. h[s] = 0
        OBVIOUS
      <4> QED BY <4>3, <4>2 DEF Summand
    <3>3. SumTo(h, 0)
      BY <3>1, <3>2
    <3> QED BY <2>2, <2>3, <3>3
  <2>4. CASE n # 0
    <3>1. n - 1 \in Nat /\ n - 1 \notin Bad
      <4>1. n - 1 \in Nat /\ ~(n <= n - 1)
        BY <2>2, <2>4
      <4>2. n - 1 \in Bad => n <= n - 1
        BY <2>1
      <4> QED BY <4>1, <4>2
    <3>2. PICK g : SumTo(g, n - 1)
      BY <3>1
    <3> DEFINE h == [s \in SUBSET T |-> Summand(w, g, s)]
    <3>3. h = [s \in SUBSET T |-> h[s]]
      OBVIOUS
    <3>4. \A s \in SUBSET T : Cardinality(s) <= n - 1 => h[s] = g[s]
      BY <3>2
    <3>5. ASSUME NEW s \in SUBSET T, Cardinality(s) <= n
          PROVE  h[s] = Summand(w, h, s)
      <4>1. h[s] = Summand(w, g, s)
        OBVIOUS
      <4> HIDE DEF h
      <4>2. CASE s = {}
        BY <4>1, <4>2 DEF Summand
      <4>3. CASE s # {}
        <5>1. s \ {Some(s)} \in SUBSET T /\ Cardinality(s \ {Some(s)}) <= n - 1
          BY <1>0, <2>2, <3>5, <4>3
        <5>2. h[s \ {Some(s)}] = g[s \ {Some(s)}]
          BY <3>4, <5>1
        <5> QED BY <4>1, <4>3, <5>2 DEF Summand
      <4> QED BY <4>2, <4>3
    <3> HIDE DEF h
    <3>6. SumTo(h, n)
      BY <3>3, <3>5
    <3> QED BY <2>2, <3>6
  <2> QED BY <2>3, <2>4
<1>2. Cardinality(T) \in Nat
  BY FS_CardinalityType
<1>3. PICK h : SumTo(h, Cardinality(T))
  BY <1>1, <1>2
<1>4. \A s \in SUBSET T : h[s] = Summand(w, h, s)
  BY <1>0, <1>3
<1>5. h = [s \in SUBSET T |-> Summand(w, h, s)]
  BY <1>3, <1>4
<1> QED BY <1>5 DEF IsSum

LEMMA SumType ==
  ASSUME NEW T, IsFiniteSet(T), NEW w, NEW h, IsSum(T, w, h), \A i \in T : w[i] \in Int
  PROVE  \A U \in SUBSET T : h[U] \in Int
<1>1. \A U \in SUBSET T : U = {} => h[U] = 0
  BY DEF IsSum, Summand
<1>2. \A U \in SUBSET T : U # {} => h[U] = w[Some(U)] + h[U \ {Some(U)}] /\ Some(U) \in U
  BY SomeIsIn DEF IsSum, Summand
<1> DEFINE Bad == {U \in SUBSET T : h[U] \notin Int}
<1>3. SUFFICES ASSUME Bad # {} PROVE FALSE
  OBVIOUS
<1>4. PICK U \in Bad : \A i \in U : U \ {i} \notin Bad
  <2>1. Bad \subseteq SUBSET T
    OBVIOUS
  <2> HIDE DEF Bad
  <2> QED BY <1>3, <2>1, Smallest
<1>5. U # {}
  BY <1>1
<1>6. Some(U) \in U /\ h[U \ {Some(U)}] \in Int
  BY <1>2, <1>4, <1>5
<1>7. U \in SUBSET T /\ h[U] \notin Int /\ w[Some(U)] \in Int
  BY <1>6
<1>8. h[U] = w[Some(U)] + h[U \ {Some(U)}]
  BY <1>2, <1>5, <1>7
<1> QED BY <1>6, <1>7, <1>8

\* And adding in any other order gives the same.
LEMMA SumAdds ==
  ASSUME NEW T, IsFiniteSet(T), NEW w, NEW h, IsSum(T, w, h), \A i \in T : w[i] \in Int
  PROVE  /\ h[{}] = 0
         /\ \A U \in SUBSET T : h[U] \in Int /\ \A i \in U : h[U] = w[i] + h[U \ {i}]
<1>1. \A U \in SUBSET T : h[U] = Summand(w, h, U)
  BY DEF IsSum
<1>2. h[{}] = 0
  BY <1>1 DEF Summand
<1>3. \A U \in SUBSET T : U # {} => h[U] = w[Some(U)] + h[U \ {Some(U)}] /\ Some(U) \in U
  BY <1>1, SomeIsIn DEF Summand
<1> DEFINE Adds(U) == h[U] \in Int /\ \A i \in U : h[U] = w[i] + h[U \ {i}]
           Bad == {U \in SUBSET T : ~Adds(U)}
<1>4. SUFFICES ASSUME Bad # {} PROVE FALSE
  BY <1>2
<1>5. PICK U \in Bad : \A i \in U : U \ {i} \notin Bad
  <2>1. Bad \subseteq SUBSET T
    OBVIOUS
  <2> HIDE DEF Bad
  <2> QED BY <1>4, <2>1, Smallest
<1>6. U \subseteq T /\ ~Adds(U)
  OBVIOUS
<1>7. \A i \in U : Adds(U \ {i})
  BY <1>5, <1>6
<1>8. U # {}
  BY <1>2, <1>6
<1> DEFINE x == Some(U)
<1>9. x \in U /\ h[U] = w[x] + h[U \ {x}] /\ w[x] \in Int /\ h[U \ {x}] \in Int
  BY <1>3, <1>6, <1>7, <1>8
<1> HIDE DEF x, Bad
<1>10. ASSUME NEW i \in U PROVE h[U] = w[i] + h[U \ {i}]
  <2>1. CASE i = x
    BY <1>9, <2>1
  <2>2. CASE i # x
    <3>1. h[U \ {x}] = w[i] + h[(U \ {x}) \ {i}]
      BY <1>7, <1>9, <2>2
    <3>2. h[U \ {i}] = w[x] + h[(U \ {i}) \ {x}]
      BY <1>7, <1>9, <2>2
    <3>3. (U \ {i}) \ {x} = (U \ {x}) \ {i}
      OBVIOUS
    <3>4. w[i] \in Int /\ h[U \ {i}] \in Int
      BY <1>6, <1>7
    <3> DEFINE rest == h[(U \ {x}) \ {i}]
    <3>5. h[U \ {x}] = w[i] + rest /\ h[U \ {i}] = w[x] + rest
      BY <3>1, <3>2, <3>3
    <3>6. rest \in Int
      <4>1. (U \ {x}) \ {i} \in SUBSET T
        BY <1>6
      <4>2. U \ {x} \in SUBSET T
        BY <1>6
      <4> QED BY <1>6, <1>9, <2>2, <4>1, SumType
    <3> HIDE DEF rest
    <3> QED BY <1>9, <3>4, <3>5, <3>6
  <2> QED BY <2>1, <2>2
<1>11. h[U] \in Int
  BY <1>9
<1> QED BY <1>6, <1>10, <1>11

\* A sum over part of a set is what it is over the whole.
LEMMA SumUnique ==
  ASSUME NEW T, IsFiniteSet(T), NEW R, R \subseteq T, NEW w, NEW v, \A i \in R : v[i] = w[i],
         NEW h, NEW g, IsSum(T, w, h), IsSum(R, v, g)
  PROVE  h[R] = g[R]
<1> DEFINE Bad == {U \in SUBSET R : h[U] # g[U]}
<1>1. SUFFICES ASSUME Bad # {} PROVE FALSE
  OBVIOUS
<1>2. IsFiniteSet(R)
  BY FS_Subset
<1>3. PICK U \in Bad : \A i \in U : U \ {i} \notin Bad
  <2>1. Bad \subseteq SUBSET R
    OBVIOUS
  <2> HIDE DEF Bad
  <2> QED BY <1>1, <1>2, <2>1, Smallest
<1>4. U \in SUBSET R /\ U \in SUBSET T /\ h[U] # g[U]
  OBVIOUS
<1>5. h[U] = Summand(w, h, U) /\ g[U] = Summand(v, g, U)
  BY <1>4 DEF IsSum
<1>6. CASE U = {}
  BY <1>4, <1>5, <1>6 DEF Summand
<1>7. CASE U # {}
  <2>1. Some(U) \in U
    BY <1>7, SomeIsIn
  <2>2. h[U \ {Some(U)}] = g[U \ {Some(U)}]
    BY <1>3, <1>4, <2>1
  <2>3. v[Some(U)] = w[Some(U)]
    BY <1>4, <2>1
  <2> QED BY <1>4, <1>5, <1>7, <2>2, <2>3 DEF Summand
<1> QED BY <1>6, <1>7

LEMMA TotalIs ==
  ASSUME NEW T, IsFiniteSet(T), NEW w
  PROVE  \E h : IsSum(T, w, h) /\ Total(T, w) = h[T]
<1> DEFINE h == CHOOSE g : IsSum(T, w, g)
<1>1. IsSum(T, w, h)
  BY SumExists, Zenon
<1>2. Total(T, w) = h[T]
  BY DEF Total
<1> HIDE DEF h
<1> QED BY <1>1, <1>2

LEMMA TotalAdds ==
  ASSUME NEW T, IsFiniteSet(T), NEW w, \A i \in T : w[i] \in Int
  PROVE  /\ Total(T, w) \in Int
         /\ T = {} => Total(T, w) = 0
         /\ \A i \in T : Total(T, w) = w[i] + Total(T \ {i}, w)
<1>1. PICK h : IsSum(T, w, h) /\ Total(T, w) = h[T]
  BY TotalIs
<1>2. h[{}] = 0 /\ h[T] \in Int /\ \A i \in T : h[T] = w[i] + h[T \ {i}]
  BY <1>1, SumAdds
<1>3. ASSUME NEW i \in T PROVE Total(T \ {i}, w) = h[T \ {i}]
  <2>1. IsFiniteSet(T \ {i})
    BY FS_RemoveElement
  <2>2. PICK g : IsSum(T \ {i}, w, g) /\ Total(T \ {i}, w) = g[T \ {i}]
    BY <2>1, TotalIs
  <2> QED BY <1>1, <2>2, SumUnique
<1> QED BY <1>1, <1>2, <1>3

\* Summands that agree have the same sum.
LEMMA TotalSame ==
  ASSUME NEW T, IsFiniteSet(T), NEW v, NEW w, \A i \in T : v[i] = w[i]
  PROVE  Total(T, v) = Total(T, w)
<1>1. PICK h : IsSum(T, w, h) /\ Total(T, w) = h[T]
  BY TotalIs
<1>2. PICK g : IsSum(T, v, g) /\ Total(T, v) = g[T]
  BY TotalIs
<1> QED BY <1>1, <1>2, SumUnique

\* Sums over sets without a common member add up.
LEMMA TotalOfUnion ==
  ASSUME NEW T, IsFiniteSet(T), NEW R, IsFiniteSet(R), T \cap R = {},
         NEW w, \A i \in T \cup R : w[i] \in Int
  PROVE  Total(T \cup R, w) = Total(T, w) + Total(R, w)
<1> DEFINE Splits(U) == Total(U \cup R, w) = Total(U, w) + Total(R, w)
           Bad == {U \in SUBSET T : ~Splits(U)}
<1>1. SUFFICES ASSUME Bad # {} PROVE FALSE
  OBVIOUS
<1>2. IsFiniteSet(T \cup R)
  BY FS_Union
<1>3. PICK U \in Bad : \A i \in U : U \ {i} \notin Bad
  <2>1. Bad \subseteq SUBSET T
    OBVIOUS
  <2> HIDE DEF Bad
  <2> QED BY <1>1, <1>2, <2>1, Smallest
<1>4. U \in SUBSET T /\ ~Splits(U)
  OBVIOUS
<1>5. /\ IsFiniteSet(U) /\ IsFiniteSet(U \cup R) /\ IsFiniteSet({})
      /\ \A i \in U : w[i] \in Int
      /\ \A i \in R : w[i] \in Int
      /\ \A i \in U \cup R : w[i] \in Int
  <2>1. U \subseteq T \cup R /\ U \cup R \subseteq T \cup R
    BY <1>4
  <2>2. IsFiniteSet(U) /\ IsFiniteSet(U \cup R) /\ IsFiniteSet({})
    BY <1>2, <2>1, FS_Subset, FS_EmptySet
  <2> QED BY <2>1, <2>2
<1>6. Total(R, w) \in Int /\ Total(U, w) \in Int
  BY <1>2, <1>5, TotalAdds
<1>7. CASE U = {}
  <2>1. Total(U, w) = 0
    BY <1>5, <1>7, TotalAdds
  <2>2. U \cup R = R
    BY <1>7
  <2>3. Total(U \cup R, w) = Total(R, w)
    BY <2>2
  <2>4. Splits(U)
    BY <1>6, <2>1, <2>3
  <2> QED BY <1>4, <2>4
<1>8. CASE U # {}
  <2>1. PICK i \in U : TRUE
    BY <1>8
  <2>2. i \notin R /\ (U \cup R) \ {i} = (U \ {i}) \cup R /\ i \in U \cup R
    BY <1>4, <2>1
  <2>3. Splits(U \ {i})
    BY <1>3, <1>4, <2>1
  <2>4. Total(U, w) = w[i] + Total(U \ {i}, w)
    BY <1>5, <2>1, TotalAdds
  <2>5. Total(U \cup R, w) = w[i] + Total((U \cup R) \ {i}, w)
    BY <1>5, <2>2, TotalAdds
  <2>6. IsFiniteSet(U \ {i}) /\ \A j \in U \ {i} : w[j] \in Int
    BY <1>5, FS_RemoveElement
  <2>7. Total(U \ {i}, w) \in Int /\ w[i] \in Int
    BY <1>5, <2>1, <2>6, TotalAdds
  <2>8. Total((U \cup R) \ {i}, w) = Total(U \ {i}, w) + Total(R, w)
    BY <2>2, <2>3
  <2> QED BY <1>4, <1>6, <2>4, <2>5, <2>7, <2>8
<1> QED BY <1>7, <1>8

-----------------------------------------------------------------------------
(* The sums of the reports. *)

LEMMA SumsAreTotals ==
  ASSUME NEW T
  PROVE  /\ Revenue(T) = Total(T, Price) /\ Outstanding(T) = Total(T, Due)
         /\ Spent(T) = Total(T, Cost)
<1>1. Revenue(T) = Total(T, Price)
  BY Zenon DEF Revenue, MapThenSumSet, MapThenFoldSet, Total, IsSum, Summand, Some
<1>2. Outstanding(T) = Total(T, Due)
  BY Zenon DEF Outstanding, MapThenSumSet, MapThenFoldSet, Total, IsSum, Summand, Some
<1>3. Spent(T) = Total(T, Cost)
  BY Zenon DEF Spent, MapThenSumSet, MapThenFoldSet, Total, IsSum, Summand, Some
<1> QED BY <1>1, <1>2, <1>3

\* The sums over the cells of a month, one for each column that is checked.
CellTotals(cells) == MapThenSumSet(LAMBDA d : cells[d].totalOrders, DOMAIN cells)
CellSplits(cells) ==
  MapThenSumSet(LAMBDA d : cells[d].pending + cells[d].confirmed + cells[d].delivered, DOMAIN cells)
CellDues(cells) == MapThenSumSet(LAMBDA d : cells[d].outstandingBalance, DOMAIN cells)
LifetimeTotal == MapThenSumSet(LAMBDA c : CustomerRow(c).lifetimeValue, Customers)

LEMMA CellTotalsIs ==
  ASSUME NEW cells, NEW w, IsFiniteSet(DOMAIN cells),
         \A d \in DOMAIN cells : w[d] = cells[d].totalOrders
  PROVE  CellTotals(cells) = Total(DOMAIN cells, w)
<1> DEFINE T == DOMAIN cells
           Rec(h) == h = [s \in SUBSET T |-> IF s = {} THEN 0
                            ELSE cells[Some(s)].totalOrders + h[s \ {Some(s)}]]
           g == CHOOSE h : Rec(h)
<1>1. PICK h : IsSum(T, w, h) /\ Total(T, w) = h[T]
  BY TotalIs
<1>2. \A s \in SUBSET T : s # {} => w[Some(s)] = cells[Some(s)].totalOrders
  BY SomeIsIn
<1>3. \A s \in SUBSET T : Summand(w, h, s) = IF s = {} THEN 0
                            ELSE cells[Some(s)].totalOrders + h[s \ {Some(s)}]
  BY <1>2 DEF Summand
<1>4. Rec(h)
  BY <1>1, <1>3 DEF IsSum
<1>5. CellTotals(cells) = g[T]
  BY Zenon DEF CellTotals, MapThenSumSet, MapThenFoldSet, Some
<1>6. Rec(g)
  <2> HIDE DEF Rec
  <2> QED BY <1>4, Zenon
<1> HIDE DEF g
<1>7. \A s \in SUBSET T : Summand(w, g, s) = IF s = {} THEN 0
                            ELSE cells[Some(s)].totalOrders + g[s \ {Some(s)}]
  BY <1>2 DEF Summand
<1>8. IsSum(T, w, g)
  BY <1>6, <1>7 DEF IsSum
<1>9. g[T] = h[T]
  BY <1>1, <1>8, SumUnique
<1> QED BY <1>1, <1>5, <1>9

LEMMA CellSplitsIs ==
  ASSUME NEW cells, NEW w, IsFiniteSet(DOMAIN cells),
         \A d \in DOMAIN cells : w[d] = (cells[d].pending + cells[d].confirmed + cells[d].delivered)
  PROVE  CellSplits(cells) = Total(DOMAIN cells, w)
<1> DEFINE T == DOMAIN cells
           Split(d) == cells[d].pending + cells[d].confirmed + cells[d].delivered
           Rec(h) == h = [s \in SUBSET T |-> IF s = {} THEN 0
                            ELSE Split(Some(s)) + h[s \ {Some(s)}]]
           g == CHOOSE h : Rec(h)
<1>1. PICK h : IsSum(T, w, h) /\ Total(T, w) = h[T]
  BY TotalIs
<1>2. \A s \in SUBSET T : s # {} => w[Some(s)] = Split(Some(s))
  BY SomeIsIn
<1>3. \A s \in SUBSET T : Summand(w, h, s) = IF s = {} THEN 0
                            ELSE Split(Some(s)) + h[s \ {Some(s)}]
  BY <1>2 DEF Summand
<1>4. Rec(h)
  BY <1>1, <1>3 DEF IsSum
<1>5. CellSplits(cells) = g[T]
  BY Zenon DEF CellSplits, MapThenSumSet, MapThenFoldSet, Some
<1>6. Rec(g)
  <2> HIDE DEF Rec
  <2> QED BY <1>4, Zenon
<1> HIDE DEF g
<1>7. \A s \in SUBSET T : Summand(w, g, s) = IF s = {} THEN 0
                            ELSE Split(Some(s)) + g[s \ {Some(s)}]
  BY <1>2 DEF Summand
<1>8. IsSum(T, w, g)
  BY <1>6, <1>7 DEF IsSum
<1>9. g[T] = h[T]
  BY <1>1, <1>8, SumUnique
<1> QED BY <1>1, <1>5, <1>9

LEMMA CellDuesIs ==
  ASSUME NEW cells, NEW w, IsFiniteSet(DOMAIN cells),
         \A d \in DOMAIN cells : w[d] = cells[d].outstandingBalance
  PROVE  CellDues(cells) = Total(DOMAIN cells, w)
<1> DEFINE T == DOMAIN cells
           Rec(h) == h = [s \in SUBSET T |-> IF s = {} THEN 0
                            ELSE cells[Some(s)].outstandingBalance + h[s \ {Some(s)}]]
           g == CHOOSE h : Rec(h)
<1>1. PICK h : IsSum(T, w, h) /\ Total(T, w) = h[T]
  BY TotalIs
<1>2. \A s \in SUBSET T : s # {} => w[Some(s)] = cells[Some(s)].outstandingBalance
  BY SomeIsIn
<1>3. \A s \in SUBSET T : Summand(w, h, s) = IF s = {} THEN 0
                            ELSE cells[Some(s)].outstandingBalance + h[s \ {Some(s)}]
  BY <1>2 DEF Summand
<1>4. Rec(h)
  BY <1>1, <1>3 DEF IsSum
<1>5. CellDues(cells) = g[T]
  BY Zenon DEF CellDues, MapThenSumSet, MapThenFoldSet, Some
<1>6. Rec(g)
  <2> HIDE DEF Rec
  <2> QED BY <1>4, Zenon
<1> HIDE DEF g
<1>7. \A s \in SUBSET T : Summand(w, g, s) = IF s = {} THEN 0
                            ELSE cells[Some(s)].outstandingBalance + g[s \ {Some(s)}]
  BY <1>2 DEF Summand
<1>8. IsSum(T, w, g)
  BY <1>6, <1>7 DEF IsSum
<1>9. g[T] = h[T]
  BY <1>1, <1>8, SumUnique
<1> QED BY <1>1, <1>5, <1>9

LEMMA LifetimeTotalIs ==
  ASSUME NEW w, IsFiniteSet(Customers),
         \A d \in Customers : w[d] = CustomerRow(d).lifetimeValue
  PROVE  LifetimeTotal = Total(Customers, w)
<1> DEFINE T == Customers
           Rec(h) == h = [s \in SUBSET T |-> IF s = {} THEN 0
                            ELSE CustomerRow(Some(s)).lifetimeValue + h[s \ {Some(s)}]]
           g == CHOOSE h : Rec(h)
<1>1. PICK h : IsSum(T, w, h) /\ Total(T, w) = h[T]
  BY TotalIs
<1>2. \A s \in SUBSET T : s # {} => w[Some(s)] = CustomerRow(Some(s)).lifetimeValue
  BY SomeIsIn
<1>3. \A s \in SUBSET T : Summand(w, h, s) = IF s = {} THEN 0
                            ELSE CustomerRow(Some(s)).lifetimeValue + h[s \ {Some(s)}]
  BY <1>2 DEF Summand
<1>4. Rec(h)
  BY <1>1, <1>3 DEF IsSum
<1>5. LifetimeTotal = g[T]
  BY Zenon DEF LifetimeTotal, MapThenSumSet, MapThenFoldSet, Some
<1>6. Rec(g)
  <2> HIDE DEF Rec
  <2> QED BY <1>4, Zenon
<1> HIDE DEF g
<1>7. \A s \in SUBSET T : Summand(w, g, s) = IF s = {} THEN 0
                            ELSE CustomerRow(Some(s)).lifetimeValue + g[s \ {Some(s)}]
  BY <1>2 DEF Summand
<1>8. IsSum(T, w, g)
  BY <1>6, <1>7 DEF IsSum
<1>9. g[T] = h[T]
  BY <1>1, <1>8, SumUnique
<1> QED BY <1>1, <1>5, <1>9

-----------------------------------------------------------------------------
(* This month, counted in five ways. *)

\* Months of a year may be counted beyond it, either way: they go on growing.
LEMMA FirstsGrow ==
  ASSUME NEW y \in Int, NEW k \in Int, NEW l \in Int, k <= l
  PROVE  /\ DateUTC(y, k, 1) \in Int /\ DateUTC(y, l, 1) \in Int
         /\ DateUTC(y, k, 1) <= DateUTC(y, l, 1)
         /\ DateUTC(y, k, 0) = DateUTC(y, k, 1) - 1
<1> DEFINE a == y + k \div 12
           b == y + l \div 12
           m == k % 12
           n == l % 12
<1>1. /\ a \in Int /\ b \in Int /\ m \in 0..11 /\ n \in 0..11
      /\ a < b \/ (a = b /\ m <= n)
  OBVIOUS
<1>2. /\ DateUTC(y, k, 1) = DaysBeforeYear(a) + DaysBeforeMonth(a, m) + 1 - 1
      /\ DateUTC(y, k, 0) = DaysBeforeYear(a) + DaysBeforeMonth(a, m) + 0 - 1
      /\ DateUTC(y, l, 1) = DaysBeforeYear(b) + DaysBeforeMonth(b, n) + 1 - 1
  BY DEF DateUTC
<1> HIDE DEF a, b, m, n
<1>3. /\ DateUTC(a, m, 1) = DaysBeforeYear(a) + DaysBeforeMonth(a, m) + 1 - 1
      /\ DateUTC(b, n, 1) = DaysBeforeYear(b) + DaysBeforeMonth(b, n) + 1 - 1
      /\ DateUTC(a, m, 1) \in Int /\ DateUTC(b, n, 1) \in Int
  <2>1. 1 \in Int
    OBVIOUS
  <2>2. /\ DateUTC(a, m, 1) = DaysBeforeYear(a) + DaysBeforeMonth(a, m) + 1 - 1
        /\ DateUTC(a, m, 1) \in Int
    BY <1>1, <2>1, DateForm, Zenon
  <2>3. /\ DateUTC(b, n, 1) = DaysBeforeYear(b) + DaysBeforeMonth(b, n) + 1 - 1
        /\ DateUTC(b, n, 1) \in Int
    BY <1>1, <2>1, DateForm, Zenon
  <2> QED BY <2>2, <2>3
<1>4. DaysBeforeYear(a) \in Int /\ DaysBeforeMonth(a, m) \in Int
  BY <1>1, YearLength, MonthInt, Zenon
<1>5. DateUTC(a, m, 1) <= DateUTC(b, n, 1)
  <2>1. CASE a = b /\ m = n
    BY <1>3, <2>1
  <2>2. CASE a < b \/ (a = b /\ m < n)
    <3>1. DateUTC(a, m, 1) + DaysIn(a, m) <= DateUTC(b, n, 1)
      BY <1>1, <2>2, MonthsGrow
    <3>2. DaysIn(a, m) \in Int /\ 28 <= DaysIn(a, m)
      BY <1>1, MonthInt
    <3> QED BY <1>3, <3>1, <3>2
  <2> QED BY <1>1, <2>1, <2>2
<1> QED BY <1>2, <1>3, <1>4, <1>5

\* The week around a day: seven days from a Monday.
LEMMA WeekSpec ==
  ASSUME NEW n \in Nat
  PROVE  /\ n \in GetWeekBounds(n) /\ Cardinality(GetWeekBounds(n)) = 7
         /\ WeekdayOf(Min(GetWeekBounds(n))) = 1
<1> DEFINE diff == IF WeekdayOf(n) = 0 THEN -6 ELSE 1 - WeekdayOf(n)
           a == n + diff
<1>1. GetWeekBounds(n) = a .. (a + 6)
  BY DEF GetWeekBounds
<1>2. a \in Int /\ a <= n /\ n <= a + 6 /\ (a + 4) % 7 = 1
  BY DEF WeekdayOf
<1> HIDE DEF a
<1>3. Cardinality(a .. (a + 6)) = 7
  <2>1. a + 6 \in Int
    BY <1>2
  <2>2. Cardinality(a .. (a + 6)) = IF a > a + 6 THEN 0 ELSE (a + 6) - a + 1
    BY <1>2, <2>1, FS_Interval
  <2> QED BY <1>2, <2>2
<1>4. Min(a .. (a + 6)) = a
  <2>1. a \in a .. (a + 6) /\ \A x \in a .. (a + 6) : a <= x
    BY <1>2
  <2>2. Min(a .. (a + 6)) \in a .. (a + 6) /\ \A x \in a .. (a + 6) : Min(a .. (a + 6)) <= x
    BY <2>1 DEF Min
  <2> QED BY <1>2, <2>1, <2>2
<1> QED BY <1>1, <1>2, <1>3, <1>4 DEF WeekdayOf

\* Cardinalities of sets without a common member add up.
LEMMA CardinalityAdds ==
  ASSUME NEW T, IsFiniteSet(T), NEW R, IsFiniteSet(R), T \cap R = {}
  PROVE  /\ Cardinality(T \cup R) = Cardinality(T) + Cardinality(R)
         /\ Cardinality(T) \in Nat /\ Cardinality(R) \in Nat
<1>1. Cardinality(T) \in Nat /\ Cardinality(R) \in Nat
  BY FS_CardinalityType
<1>2. Cardinality(T \cap R) = 0
  BY FS_EmptySet
<1>3. Cardinality(T \cup R) = Cardinality(T) + Cardinality(R) - Cardinality(T \cap R)
  BY FS_Union
<1> QED BY <1>1, <1>2, <1>3

Group(days, s) == ActiveIn(days) \cap InStatus(s)

\* An active order is pending, confirmed or delivered.
LEMMA Groups ==
  ASSUME TypeOK, NEW days
  PROVE  /\ ActiveIn(days) = (Group(days, "Confirmed") \cup Group(days, "Delivered"))
                               \cup Group(days, "Pending")
         /\ Group(days, "Confirmed") \cap Group(days, "Delivered") = {}
         /\ (Group(days, "Confirmed") \cup Group(days, "Delivered"))
              \cap Group(days, "Pending") = {}
         /\ IsFiniteSet(ActiveIn(days))
<1>1. \A o \in ActiveIn(days) :
         /\ o \in Placed /\ order[o].status # "Cancelled" /\ order[o].status \in Statuses
  <2> SUFFICES ASSUME NEW o \in ActiveIn(days)
               PROVE  /\ o \in Placed /\ order[o].status # "Cancelled"
                      /\ order[o].status \in Statuses
    OBVIOUS
  <2>1. o \in Placed /\ o \in Orders /\ order[o] # Absent /\ order[o].status # "Cancelled"
    BY DEF ActiveIn, Active, Placed
  <2>2. order[o] \in [day : Days, status : Statuses]
    BY <2>1 DEF TypeOK
  <2> QED BY <2>1, <2>2
<1>2. IsFiniteSet(ActiveIn(days))
  BY ReportsAssumption, ActiveInIs, FS_Subset
<1> QED BY <1>1, <1>2 DEF Group, InStatus, Statuses

LEMMA GroupsAdd ==
  ASSUME TypeOK, NEW days
  PROVE  /\ Cardinality(Group(days, "Pending")) + Cardinality(Group(days, "Confirmed"))
              + Cardinality(Group(days, "Delivered")) = Cardinality(ActiveIn(days))
         /\ Revenue(Group(days, "Confirmed")) + Revenue(Group(days, "Delivered"))
              + Revenue(Group(days, "Pending")) = Revenue(ActiveIn(days))
         /\ Revenue(Group(days, "Confirmed")) + Revenue(Group(days, "Delivered"))
              = Revenue(ActiveIn(days) \ InStatus("Pending"))
<1> DEFINE S == ActiveIn(days)
           C == Group(days, "Confirmed")
           D == Group(days, "Delivered")
           P == Group(days, "Pending")
<1>1. /\ S = (C \cup D) \cup P /\ C \cap D = {} /\ (C \cup D) \cap P = {} /\ IsFiniteSet(S)
      /\ S \subseteq Orders
  BY Groups, ActiveInIs
<1>9. S \ InStatus("Pending") = C \cup D
  BY <1>1 DEF Group
<1>2. \A o \in S : Price[o] \in Int
  BY ReportsAssumption, <1>1
<1> HIDE DEF S, C, D, P
<1>3. C \subseteq S /\ D \subseteq S /\ P \subseteq S /\ C \cup D \subseteq S
  BY <1>1
<1>7. IsFiniteSet(C) /\ IsFiniteSet(D) /\ IsFiniteSet(P) /\ IsFiniteSet(C \cup D)
  BY <1>1, <1>3, FS_Subset
<1>8. /\ \A o \in C \cup D : Price[o] \in Int
      /\ \A o \in (C \cup D) \cup P : Price[o] \in Int
  BY <1>1, <1>2
<1>4. /\ Cardinality(C \cup D) = Cardinality(C) + Cardinality(D)
      /\ Cardinality((C \cup D) \cup P) = Cardinality(C \cup D) + Cardinality(P)
      /\ Cardinality(C) \in Nat /\ Cardinality(D) \in Nat /\ Cardinality(P) \in Nat
  BY <1>1, <1>7, CardinalityAdds
<1>5. /\ Total(C \cup D, Price) = Total(C, Price) + Total(D, Price)
      /\ Total((C \cup D) \cup P, Price) = Total(C \cup D, Price) + Total(P, Price)
  BY <1>1, <1>7, <1>8, TotalOfUnion
<1>6. /\ Cardinality(P) + Cardinality(C) + Cardinality(D) = Cardinality(S)
      /\ Total(C, Price) + Total(D, Price) + Total(P, Price) = Total(S, Price)
  BY <1>1, <1>4, <1>5
<1>10. Total(C, Price) + Total(D, Price) = Total(S \ InStatus("Pending"), Price)
  BY <1>5, <1>9
<1> QED BY <1>6, <1>10, SumsAreTotals DEF S, C, D, P

\* Counting the cells counts the orders of all their days.
LEMMA CellsCount ==
  ASSUME TypeOK, NEW days, IsFiniteSet(days), NEW w,
         \A d \in days : w[d] = Cardinality(ActiveIn({d}))
  PROVE  Total(days, w) = Cardinality(ActiveIn(days))
<1> DEFINE Counted(T) == Total(T, w) = Cardinality(ActiveIn(T))
           Bad == {T \in SUBSET days : ~Counted(T)}
<1>1. SUFFICES ASSUME Bad # {} PROVE FALSE
  OBVIOUS
<1>2. PICK T \in Bad : \A i \in T : T \ {i} \notin Bad
  <2>1. Bad \subseteq SUBSET days
    OBVIOUS
  <2> HIDE DEF Bad
  <2> QED BY <1>1, <2>1, Smallest
<1>3. T \in SUBSET days /\ ~Counted(T)
  OBVIOUS
<1>4. \A d \in days : w[d] \in Int
  <2> SUFFICES ASSUME NEW d \in days PROVE w[d] \in Int
    OBVIOUS
  <2>1. IsFiniteSet(ActiveIn({d}))
    BY Groups
  <2>2. Cardinality(ActiveIn({d})) \in Nat
    BY <2>1, FS_CardinalityType
  <2>3. w[d] = Cardinality(ActiveIn({d}))
    OBVIOUS
  <2> QED BY <2>2, <2>3
<1>5. IsFiniteSet(T) /\ \A d \in T : w[d] \in Int
  BY <1>3, <1>4, FS_Subset
<1>6. CASE T = {}
  <2>1. Total(T, w) = 0
    BY <1>5, <1>6, TotalAdds
  <2>2. ActiveIn(T) = {}
    BY <1>6 DEF ActiveIn
  <2> QED BY <1>3, <2>1, <2>2, FS_EmptySet
<1>7. CASE T # {}
  <2>1. PICK d \in T : TRUE
    BY <1>7
  <2>2. Counted(T \ {d})
    BY <1>2, <1>3, <2>1
  <2>3. Total(T, w) = w[d] + Total(T \ {d}, w)
    BY <1>5, <2>1, TotalAdds
  <2>4. /\ ActiveIn(T) = ActiveIn({d}) \cup ActiveIn(T \ {d})
        /\ ActiveIn({d}) \cap ActiveIn(T \ {d}) = {}
    BY <2>1 DEF ActiveIn
  <2>5. Cardinality(ActiveIn({d}) \cup ActiveIn(T \ {d}))
          = Cardinality(ActiveIn({d})) + Cardinality(ActiveIn(T \ {d}))
    <3>1. IsFiniteSet(ActiveIn({d})) /\ IsFiniteSet(ActiveIn(T \ {d}))
      BY Groups
    <3> QED BY <2>4, <3>1, CardinalityAdds
  <2> QED BY <1>3, <2>1, <2>2, <2>3, <2>4, <2>5
<1> QED BY <1>6, <1>7

\* And adding up what is due on each day adds up what is due.
LEMMA CellsOwe ==
  ASSUME TypeOK, NEW days, IsFiniteSet(days), NEW w,
         \A d \in days : w[d] = Outstanding(ActiveIn({d}))
  PROVE  Total(days, w) = Outstanding(ActiveIn(days))
<1> DEFINE Counted(T) == Total(T, w) = Outstanding(ActiveIn(T))
           Bad == {T \in SUBSET days : ~Counted(T)}
<1>1. SUFFICES ASSUME Bad # {} PROVE FALSE
  OBVIOUS
<1>2. PICK T \in Bad : \A i \in T : T \ {i} \notin Bad
  <2>1. Bad \subseteq SUBSET days
    OBVIOUS
  <2> HIDE DEF Bad
  <2> QED BY <1>1, <2>1, Smallest
<1>3. T \in SUBSET days /\ ~Counted(T)
  OBVIOUS
<1>4. ASSUME NEW D
      PROVE  /\ IsFiniteSet(ActiveIn(D)) /\ \A o \in ActiveIn(D) : Due[o] \in Int
             /\ Outstanding(ActiveIn(D)) = Total(ActiveIn(D), Due)
             /\ Total(ActiveIn(D), Due) \in Int
  <2>1. IsFiniteSet(ActiveIn(D)) /\ ActiveIn(D) \subseteq Orders
    BY Groups, ActiveInIs
  <2>2. \A o \in ActiveIn(D) : Due[o] \in Int
    BY ReportsAssumption, <2>1
  <2> QED BY <2>1, <2>2, SumsAreTotals, TotalAdds
<1>5. IsFiniteSet(T) /\ \A d \in T : w[d] \in Int
  BY <1>3, <1>4, FS_Subset
<1>6. CASE T = {}
  <2>1. Total(T, w) = 0
    BY <1>5, <1>6, TotalAdds
  <2>2. ActiveIn(T) = {}
    BY <1>6 DEF ActiveIn
  <2>3. Total(ActiveIn(T), Due) = 0
    BY <1>4, <2>2, TotalAdds
  <2> QED BY <1>3, <1>4, <2>1, <2>3
<1>7. CASE T # {}
  <2>1. PICK d \in T : TRUE
    BY <1>7
  <2>2. Counted(T \ {d})
    BY <1>2, <1>3, <2>1
  <2>3. Total(T, w) = w[d] + Total(T \ {d}, w)
    BY <1>5, <2>1, TotalAdds
  <2>4. /\ ActiveIn(T) = ActiveIn({d}) \cup ActiveIn(T \ {d})
        /\ ActiveIn({d}) \cap ActiveIn(T \ {d}) = {}
    BY <2>1 DEF ActiveIn
  <2>5. Total(ActiveIn({d}) \cup ActiveIn(T \ {d}), Due)
          = Total(ActiveIn({d}), Due) + Total(ActiveIn(T \ {d}), Due)
    <3>1. \A o \in ActiveIn({d}) \cup ActiveIn(T \ {d}) : Due[o] \in Int
      BY <1>4
    <3>2. IsFiniteSet(ActiveIn({d})) /\ IsFiniteSet(ActiveIn(T \ {d}))
      BY <1>4
    <3>3. ActiveIn({d}) \cap ActiveIn(T \ {d}) = {}
      BY <2>4
    <3> DEFINE A == ActiveIn({d})
               B == ActiveIn(T \ {d})
    <3> HIDE DEF A, B
    <3>4. IsFiniteSet(A) /\ IsFiniteSet(B) /\ A \cap B = {} /\ \A o \in A \cup B : Due[o] \in Int
      BY <3>1, <3>2, <3>3 DEF A, B
    <3>5. Total(A \cup B, Due) = Total(A, Due) + Total(B, Due)
      BY <3>4, TotalOfUnion
    <3> QED BY <3>5 DEF A, B
  <2>6. w[d] = Outstanding(ActiveIn({d}))
    BY <1>3, <2>1
  <2>7. Outstanding(ActiveIn(T)) = Outstanding(ActiveIn({d})) + Outstanding(ActiveIn(T \ {d}))
    <3>1. /\ Outstanding(ActiveIn(T)) = Total(ActiveIn({d}) \cup ActiveIn(T \ {d}), Due)
          /\ Outstanding(ActiveIn({d})) = Total(ActiveIn({d}), Due)
          /\ Outstanding(ActiveIn(T \ {d})) = Total(ActiveIn(T \ {d}), Due)
      BY <1>4, <2>4
    <3> QED BY <2>5, <3>1
  <2> QED BY <1>3, <2>2, <2>3, <2>6, <2>7
<1> QED BY <1>6, <1>7

LEMMA MonthBoundsFinite ==
  ASSUME NEW y \in Int, NEW m \in 0..11
  PROVE  IsFiniteSet(GetMonthBounds(y, m))
<1>1. /\ GetMonthBounds(y, m) = DateUTC(y, m, 1) .. (DateUTC(y, m, 1) + DaysIn(y, m) - 1)
      /\ DateUTC(y, m, 1) \in Int /\ DaysIn(y, m) \in Int
  BY MonthRange, FirstDay, MonthInt, 1 \in Int
<1>2. DateUTC(y, m, 1) + DaysIn(y, m) - 1 \in Int
  BY <1>1
<1> QED BY <1>1, <1>2, FS_Interval

\* The month on the wall: its range, which five queries compute, has exactly
\* the orders whose date is in that month, and so have the wider windows.
LEMMA ThisMonthIs ==
  ASSUME TypeOK, Shows(wall, now)
  PROVE  LET B == GetMonthBounds(wall.year, wall.month)
             this == [year |-> wall.year, month |-> wall.month] IN
         /\ ThisMonth = ActiveIn(B) /\ IsFiniteSet(B)
         /\ MonthOf(DateUTC(wall.year, wall.month, 1)) = this
         /\ \A o \in Active : order[o].day \in B <=> MonthOf(order[o].day) = this
         /\ \A e \in Expenses : bought[e] \in B <=> bought[e] # Absent /\ MonthOf(bought[e]) = this
         /\ \A k \in Int : k <= wall.month => \A l \in Int : l > wall.month =>
              B \subseteq DateUTC(wall.year, k, 1) .. DateUTC(wall.year, l, 0)
<1> DEFINE y == wall.year
           m == wall.month
           B == GetMonthBounds(y, m)
           this == [year |-> y, month |-> m]
<1>1. y \in Nat /\ y \in Int /\ m \in 0..11 /\ m \in Int /\ now \in Nat
  BY DEF Shows, Wall, TypeOK
<1>2. /\ DateUTC(y, m, wall.day) \in Nat
      /\ CivilOf(DateUTC(y, m, wall.day)) = [year |-> y, month |-> m, day |-> wall.day]
  BY <1>1, WallDate
<1>3. DateUTC(y, m, 1) \in Nat /\ MonthOf(DateUTC(y, m, 1)) = this
  <2>1. MonthOf(DateUTC(y, m, wall.day)) = this
    BY <1>2 DEF MonthOf
  <2>2. From(this) = DateUTC(y, m, 1)
    BY DEF From
  <2>3. DateUTC(y, m, 1) \in Int /\ DaysIn(y, m) \in Int /\ 28 <= DaysIn(y, m)
    BY <1>1, FirstDay, MonthInt, 1 \in Int
  <2>4. DateUTC(y, m, 1) >= 0
    <3>1. y >= 1970
      <4>1. y + 1 \in Int /\ DaysBeforeYear(y + 1) \in Int /\ y < y + 1
        BY <1>1, YearLength
      <4>2. y + 1 <= 1970 => DaysBeforeYear(y + 1) <= 0
        BY <4>1, YearsBound
      <4>3. DateUTC(y, m, 1) + DaysIn(y, m) <= DateUTC(y + 1, 0, 1)
        BY <1>1, <4>1, MonthsGrow, 0 \in 0..11
      <4>4. DateUTC(y + 1, 0, 1) = DaysBeforeYear(y + 1) + DaysBeforeMonth(y + 1, 0) + 1 - 1
        BY <4>1, DateForm, 0 \in 0..11, 1 \in Int
      <4>5. DaysBeforeMonth(y + 1, 0) = 0
        BY <4>1, YearMonths
      <4>6. DateUTC(y, m, wall.day) < DateUTC(y, m, 1) + DaysIn(y, m)
        BY <1>2, <2>1, <2>2, MonthSpec
      <4> QED BY <1>1, <1>2, <2>3, <4>1, <4>2, <4>3, <4>4, <4>5, <4>6
    <3>2. DateUTC(y, m, 1) = DaysBeforeYear(y) + DaysBeforeMonth(y, m) + 1 - 1
      BY <1>1, DateForm, 1 \in Int
    <3>3. DaysBeforeYear(y) \in Int /\ 365 * (y - 1970) <= DaysBeforeYear(y)
      BY <1>1, <3>1, YearLength, YearsBound
    <3>4. DaysBeforeMonth(y, m) \in Int /\ 0 <= DaysBeforeMonth(y, m)
      BY <1>1, MonthInt
    <3> QED BY <1>1, <3>1, <3>2, <3>3, <3>4
  <2>5. CivilOf(DateUTC(y, m, 1)) = [year |-> y, month |-> m, day |-> 1]
    <3>1. 1 \in Int /\ 1 <= DaysIn(y, m) /\ DateUTC(y, m, 1) \in Nat
      BY <2>3, <2>4
    <3>2. y \in Nat /\ m \in 0..11 /\ 1 <= 1
      BY <1>1
    <3> QED BY <3>1, <3>2, CivilUnique, Zenon
  <2> QED BY <2>3, <2>4, <2>5 DEF MonthOf
<1>4. \A o \in Active : /\ order[o].day \in B <=> MonthOf(order[o].day) = this
                        /\ order[o].day \in B <=> OnTheWall(order[o].day)
  BY <1>1, ActiveRows, BoundsAreTheMonth DEF OnTheWall
<1>5. ThisMonth = ActiveIn(B)
  BY <1>4 DEF ThisMonth, ActiveIn
<1>6. /\ B = DateUTC(y, m, 1) .. (DateUTC(y, m, 1) + DaysIn(y, m) - 1)
      /\ DateUTC(y, m + 1, 0) = DateUTC(y, m, 1) + DaysIn(y, m) - 1
      /\ DaysIn(y, m) \in Int
  BY <1>1, MonthRange, MonthInt
<1>7. ASSUME NEW e \in Expenses
      PROVE  bought[e] \in B <=> bought[e] # Absent /\ MonthOf(bought[e]) = this
  <2>1. bought[e] # Absent => bought[e] \in Nat
    BY ReportsAssumption DEF TypeOK
  <2>2. Absent \notin B
    BY ReportsAssumption, <1>3, <1>6
  <2>3. bought[e] \in Nat => (bought[e] \in B <=> MonthOf(bought[e]) = this)
    BY <1>1, BoundsAreTheMonth
  <2> HIDE DEF B, this
  <2> QED BY <2>1, <2>2, <2>3
<1>8. ASSUME NEW k \in Int, k <= m, NEW l \in Int, l > m
      PROVE  B \subseteq DateUTC(y, k, 1) .. DateUTC(y, l, 0)
  <2>1. DateUTC(y, k, 1) <= DateUTC(y, m, 1) /\ DateUTC(y, k, 1) \in Int
    BY <1>1, <1>8, FirstsGrow
  <2>2. m + 1 \in Int /\ m + 1 <= l
    BY <1>1, <1>8
  <2>3. /\ DateUTC(y, m + 1, 1) <= DateUTC(y, l, 1)
        /\ DateUTC(y, m + 1, 1) \in Int /\ DateUTC(y, l, 1) \in Int
        /\ DateUTC(y, m + 1, 0) = DateUTC(y, m + 1, 1) - 1
    BY <1>1, <2>2, FirstsGrow
  <2>4. DateUTC(y, l, 0) = DateUTC(y, l, 1) - 1
    <3>1. l <= l
      BY <1>8
    <3> QED BY <1>1, <3>1, FirstsGrow
  <2> HIDE DEF B
  <2> QED BY <1>3, <1>6, <2>1, <2>3, <2>4
<1>9. IsFiniteSet(B)
  BY <1>1, MonthBoundsFinite
<1> QED BY <1>3, <1>4, <1>5, <1>7, <1>8, <1>9

\* Each of the five ranges, as it is used.
LEMMA MetricsAre ==
  ASSUME TypeOK, Shows(wall, now)
  PROVE  LET B == GetMonthBounds(wall.year, wall.month) IN
         /\ Metrics.totalOrders = Cardinality(ActiveIn(B))
         /\ Metrics.expectedRevenue
              = Revenue(Group(B, "Confirmed")) + Revenue(Group(B, "Delivered"))
         /\ Metrics.deliveredRevenue = Revenue(Group(B, "Delivered"))
         /\ Metrics.pendingOrderValue = Revenue(Group(B, "Pending"))
         /\ Metrics.totalInvested = Spent(BoughtIn(B))
<1>1. GetISTCalendarDate(now) = [year |-> wall.year, month |-> wall.month, day |-> wall.day]
  BY WallDate DEF TypeOK
<1> QED BY <1>1 DEF Metrics, Group, GetMonthBounds

LEMMA OverviewIs ==
  ASSUME TypeOK, Shows(wall, now)
  PROVE  GetCalendarMonthsOverview(wall)[2] = Cardinality(ThisMonth)
<1> DEFINE B == GetMonthBounds(wall.year, wall.month)
           this == [year |-> wall.year, month |-> wall.month]
           window == DateUTC(wall.year, wall.month - 4, 1) .. DateUTC(wall.year, wall.month + 2, 0)
           counted == {o \in ActiveIn(window) : MonthOf(order[o].day) = this}
<1>1. wall.month \in Int /\ wall.month - 4 \in Int /\ wall.month + 2 \in Int
      /\ wall.month - 4 <= wall.month /\ wall.month + 2 > wall.month /\ wall.month + 0 = wall.month
  BY DEF Shows, Wall
<1>2. B \subseteq window
  BY <1>1, ThisMonthIs
<1>3. \A o \in Active : order[o].day \in B <=> MonthOf(order[o].day) = this
  BY ThisMonthIs
<1>4. ThisMonth = ActiveIn(B) /\ MonthOf(DateUTC(wall.year, wall.month, 1)) = this
  BY ThisMonthIs
<1>5. GetCalendarMonthsOverview(wall)[2]
        = Cardinality({o \in ActiveIn(window) :
                         MonthOf(order[o].day) = MonthOf(DateUTC(wall.year, wall.month + 0, 1))})
  <2>1. 2 \in DOMAIN MONTH_OVERVIEW_OFFSETS /\ MONTH_OVERVIEW_OFFSETS[2] = 0
    BY DEF MONTH_OVERVIEW_OFFSETS
  <2> QED BY <2>1 DEF GetCalendarMonthsOverview
<1>6. GetCalendarMonthsOverview(wall)[2] = Cardinality(counted)
  BY <1>1, <1>4, <1>5
<1> HIDE DEF B, window, this
<1>7. counted = ActiveIn(B)
  BY <1>2, <1>3 DEF ActiveIn
<1> QED BY <1>4, <1>6, <1>7

LEMMA AnalyticsAre ==
  ASSUME TypeOK, Shows(wall, now)
  PROVE  LET B == GetMonthBounds(wall.year, wall.month) IN
         /\ GetAnalyticsSummary(3)[3].revenue = Revenue(ActiveIn(B))
         /\ GetAnalyticsSummary(3)[3].orderCount = Cardinality(ActiveIn(B))
         /\ GetAnalyticsSummary(3)[3].expenses = Spent(BoughtIn(B))
<1> DEFINE B == GetMonthBounds(wall.year, wall.month)
           this == [year |-> wall.year, month |-> wall.month]
           window == DateUTC(wall.year, wall.month - (3 - 1), 1)
                       .. DateUTC(wall.year, wall.month + 1, 0)
           bucket == MonthOf(DateUTC(wall.year, wall.month - (3 - 3), 1))
           sold == {o \in ActiveIn(window) : MonthOf(order[o].day) = bucket}
           paid == {e \in BoughtIn(window) : MonthOf(bought[e]) = bucket}
<1>1. wall.month \in Int /\ wall.month - (3 - 1) \in Int /\ wall.month + 1 \in Int
      /\ wall.month - (3 - 1) <= wall.month /\ wall.month + 1 > wall.month
      /\ wall.month - (3 - 3) = wall.month
  BY DEF Shows, Wall
<1>2. GetISTCalendarDate(now) = [year |-> wall.year, month |-> wall.month, day |-> wall.day]
  BY WallDate DEF TypeOK
<1>3. GetAnalyticsSummary(3)[3]
        = [revenue |-> Revenue(sold), expenses |-> Spent(paid),
           profit |-> Revenue(sold) - Spent(paid), orderCount |-> Cardinality(sold)]
  <2>1. 3 \in 1..3
    OBVIOUS
  <2> QED BY <1>2, <2>1 DEF GetAnalyticsSummary
<1>4. B \subseteq window
  BY <1>1, ThisMonthIs
<1>5. bucket = this
  BY <1>1, ThisMonthIs
<1>6. \A o \in Active : order[o].day \in B <=> MonthOf(order[o].day) = this
  BY ThisMonthIs
<1>7. \A e \in Expenses : bought[e] \in B <=> bought[e] # Absent /\ MonthOf(bought[e]) = this
  BY ThisMonthIs
<1>8. \A e \in BoughtIn(window) : bought[e] # Absent
  <2>1. window \subseteq Int
    OBVIOUS
  <2> QED BY ReportsAssumption, <2>1 DEF BoughtIn
<1> HIDE DEF B, window, bucket, this
<1>9. sold = ActiveIn(B)
  BY <1>4, <1>5, <1>6 DEF ActiveIn
<1>10. paid = BoughtIn(B)
  BY <1>4, <1>5, <1>7, <1>8 DEF BoughtIn
<1> HIDE DEF sold, paid
<1> QED BY <1>3, <1>9, <1>10 DEF B

\* The cells of this month's calendar, added up.
LEMMA CalendarIs ==
  ASSUME TypeOK, NEW days, IsFiniteSet(days)
  PROVE  LET calendar == GetCalendar(days) IN
         /\ CellTotals(calendar.cells) = Cardinality(ActiveIn(days))
         /\ CellSplits(calendar.cells) = Cardinality(ActiveIn(days))
         /\ CellDues(calendar.cells) = Outstanding(ActiveIn(days))
         /\ calendar.delivered = Revenue(Group(days, "Delivered"))
         /\ calendar.estimatedTotal = Revenue(ActiveIn(days))
<1> DEFINE cells == GetCalendar(days).cells
<1>1. /\ DOMAIN cells = days
      /\ \A d \in days :
           /\ cells[d].totalOrders = Cardinality(ActiveIn({d}))
           /\ cells[d].pending = Cardinality(Group({d}, "Pending"))
           /\ cells[d].confirmed = Cardinality(Group({d}, "Confirmed"))
           /\ cells[d].delivered = Cardinality(Group({d}, "Delivered"))
           /\ cells[d].outstandingBalance = Outstanding(ActiveIn({d}))
  BY DEF GetCalendar, Group
<1>2. /\ GetCalendar(days).delivered = Revenue(Group(days, "Delivered"))
      /\ GetCalendar(days).estimatedTotal = Revenue(ActiveIn(days))
  BY DEF GetCalendar, Group
<1> HIDE DEF cells
<1> DEFINE counts == [d \in days |-> Cardinality(ActiveIn({d}))]
           dues == [d \in days |-> Outstanding(ActiveIn({d}))]
<1>3. /\ \A d \in days : counts[d] = Cardinality(ActiveIn({d}))
      /\ \A d \in days : dues[d] = Outstanding(ActiveIn({d}))
  OBVIOUS
<1> HIDE DEF counts, dues
<1>4. CellTotals(cells) = Total(days, counts)
  <2>1. IsFiniteSet(DOMAIN cells) /\ \A d \in DOMAIN cells : counts[d] = cells[d].totalOrders
    BY <1>1, <1>3
  <2>2. CellTotals(cells) = Total(DOMAIN cells, counts)
    BY <2>1, CellTotalsIs
  <2> QED BY <1>1, <2>2
<1>5. CellSplits(cells) = Total(days, counts)
  <2>1. \A d \in DOMAIN cells :
          counts[d] = cells[d].pending + cells[d].confirmed + cells[d].delivered
    <3> SUFFICES ASSUME NEW d \in days
                 PROVE  counts[d] = cells[d].pending + cells[d].confirmed + cells[d].delivered
      BY <1>1
    <3>1. Cardinality(Group({d}, "Pending")) + Cardinality(Group({d}, "Confirmed"))
            + Cardinality(Group({d}, "Delivered")) = Cardinality(ActiveIn({d}))
      BY GroupsAdd
    <3> QED BY <1>1, <1>3, <3>1
  <2>2. IsFiniteSet(DOMAIN cells)
    BY <1>1
  <2>3. CellSplits(cells) = Total(DOMAIN cells, counts)
    BY <2>1, <2>2, CellSplitsIs
  <2> QED BY <1>1, <2>3
<1>6. CellDues(cells) = Total(days, dues)
  <2>1. IsFiniteSet(DOMAIN cells) /\ \A d \in DOMAIN cells : dues[d] = cells[d].outstandingBalance
    BY <1>1, <1>3
  <2>2. CellDues(cells) = Total(DOMAIN cells, dues)
    BY <2>1, CellDuesIs
  <2> QED BY <1>1, <2>2
<1>7. Total(days, counts) = Cardinality(ActiveIn(days))
  BY <1>3, CellsCount
<1>8. Total(days, dues) = Outstanding(ActiveIn(days))
  BY <1>3, CellsOwe
<1> QED BY <1>2, <1>4, <1>5, <1>6, <1>7, <1>8 DEF cells

LEMMA MonthCorrect ==
  ASSUME TypeOK, Shows(wall, now)
  PROVE  MonthAgrees
<1> DEFINE B == GetMonthBounds(wall.year, wall.month)
           calendar == GetCalendar(B)
<1>1. ThisMonth = ActiveIn(B) /\ IsFiniteSet(B)
  BY ThisMonthIs
<1>2. /\ CivilOf(Today) = [year |-> wall.year, month |-> wall.month, day |-> wall.day]
      /\ Today \in Nat
  <2>1. now \in Nat
    BY DEF TypeOK
  <2> QED BY <2>1, TodayIs, WallDate
<1>3. /\ Today \in GetWeekBounds(Today) /\ Cardinality(GetWeekBounds(Today)) = 7
      /\ WeekdayOf(Min(GetWeekBounds(Today))) = 1
  BY <1>2, WeekSpec
<1>4. /\ Metrics.totalOrders = Cardinality(ThisMonth)
      /\ Metrics.expectedRevenue = Revenue(ThisMonth \ InStatus("Pending"))
      /\ Metrics.pendingOrderValue = Revenue(ThisMonth \cap InStatus("Pending"))
      /\ Metrics.deliveredRevenue = Revenue(Group(B, "Delivered"))
      /\ Metrics.totalInvested = Spent(BoughtIn(B))
  <2>1. Revenue(Group(B, "Confirmed")) + Revenue(Group(B, "Delivered"))
          = Revenue(ThisMonth \ InStatus("Pending"))
    BY <1>1, GroupsAdd
  <2>3. Group(B, "Pending") = ThisMonth \cap InStatus("Pending")
    BY <1>1 DEF Group
  <2> HIDE DEF B
  <2>2. /\ Metrics.totalOrders = Cardinality(ActiveIn(B))
        /\ Metrics.expectedRevenue
             = Revenue(Group(B, "Confirmed")) + Revenue(Group(B, "Delivered"))
        /\ Metrics.deliveredRevenue = Revenue(Group(B, "Delivered"))
        /\ Metrics.pendingOrderValue = Revenue(Group(B, "Pending"))
        /\ Metrics.totalInvested = Spent(BoughtIn(B))
    BY MetricsAre DEF B
  <2> QED BY <1>1, <2>1, <2>2, <2>3
<1>5. /\ CellTotals(calendar.cells) = Cardinality(ThisMonth)
      /\ CellSplits(calendar.cells) = Cardinality(ThisMonth)
      /\ CellDues(calendar.cells) = Outstanding(ThisMonth)
      /\ calendar.delivered = Revenue(Group(B, "Delivered"))
      /\ calendar.estimatedTotal = Revenue(ThisMonth)
  BY <1>1, CalendarIs
<1>6. /\ GetAnalyticsSummary(3)[3].revenue = Revenue(ThisMonth)
      /\ GetAnalyticsSummary(3)[3].orderCount = Cardinality(ThisMonth)
      /\ GetAnalyticsSummary(3)[3].expenses = Spent(BoughtIn(B))
  BY <1>1, AnalyticsAre
<1>7. GetCalendarMonthsOverview(wall)[2] = Cardinality(ThisMonth)
  BY OverviewIs
<1>8. GetInvestments(B).totalExpense = Spent(BoughtIn(B))
  BY DEF GetInvestments
<1> HIDE DEF B, calendar
<1> DEFINE TotalOf(cell) == cell.totalOrders
           SplitOf(cell) == cell.pending + cell.confirmed + cell.delivered
           DueOf(cell) == cell.outstandingBalance
<1>9. /\ SumOver(calendar.cells, TotalOf) = CellTotals(calendar.cells)
      /\ SumOver(calendar.cells, SplitOf) = CellSplits(calendar.cells)
      /\ SumOver(calendar.cells, DueOf) = CellDues(calendar.cells)
  BY Zenon DEF SumOver, CellTotals, CellSplits, CellDues, MapThenSumSet, MapThenFoldSet
<1>10. /\ SumOver(calendar.cells, TotalOf) = Cardinality(ThisMonth)
       /\ SumOver(calendar.cells, SplitOf) = Cardinality(ThisMonth)
       /\ SumOver(calendar.cells, DueOf) = Outstanding(ThisMonth)
  BY <1>5, <1>9
<1> QED BY <1>2, <1>3, <1>4, <1>5, <1>6, <1>7, <1>8, <1>10, Zenon
        DEF MonthAgrees, B, calendar

-----------------------------------------------------------------------------
(* Lists. *)

\* What comes before what; rows may tie.
IsOrder(R, S) ==
  /\ \A x \in S : <<x, x>> \notin R
  /\ \A x, y, z \in S : <<x, y>> \in R /\ <<y, z>> \in R => <<x, z>> \in R

Ascends(s, R, n) ==
  \A i, j \in 1..n : i < j => s[i] # s[j] /\ <<s[j], s[i]>> \notin R

\* In a finite set that is not empty, some member comes before no other.
LEMMA LastExists ==
  ASSUME NEW S, IsFiniteSet(S), S # {}, NEW R, IsOrder(R, S)
  PROVE  \E x \in S : \A y \in S : <<x, y>> \notin R
<1> DEFINE HasLast(T) == \E x \in T : \A y \in T : <<x, y>> \notin R
           Bad == {T \in SUBSET S : T # {} /\ ~HasLast(T)}
<1>1. SUFFICES ASSUME Bad # {} PROVE FALSE
  OBVIOUS
<1>2. PICK T \in Bad : \A i \in T : T \ {i} \notin Bad
  <2>1. Bad \subseteq SUBSET S
    OBVIOUS
  <2> HIDE DEF Bad
  <2> QED BY <1>1, <2>1, Smallest
<1>3. T \in SUBSET S /\ T # {} /\ ~HasLast(T)
  OBVIOUS
<1>4. PICK i \in T : TRUE
  BY <1>3
<1>5. CASE T \ {i} = {}
  <2>1. \A y \in T : <<i, y>> \notin R
    BY <1>3, <1>4, <1>5 DEF IsOrder
  <2> QED BY <1>3, <1>4, <2>1
<1>6. CASE T \ {i} # {}
  <2>1. PICK x \in T \ {i} : \A y \in T \ {i} : <<x, y>> \notin R
    BY <1>2, <1>3, <1>4, <1>6
  <2>2. x \in S /\ i \in S /\ x \in T
    BY <1>3, <1>4, <2>1
  <2>3. CASE <<x, i>> \notin R
    <3>1. \A y \in T : <<x, y>> \notin R
      BY <2>1, <2>3
    <3> QED BY <1>3, <2>2, <3>1
  <2>4. CASE <<x, i>> \in R
    <3>1. \A y \in T : <<i, y>> \notin R
      <4> SUFFICES ASSUME NEW y \in T, <<i, y>> \in R PROVE FALSE
        OBVIOUS
      <4>1. y \in S /\ <<x, y>> \in R
        BY <1>3, <2>2, <2>4 DEF IsOrder
      <4>2. y # i
        BY <2>2 DEF IsOrder
      <4> QED BY <2>1, <4>1, <4>2
    <3> QED BY <1>3, <1>4, <3>1
  <2> QED BY <2>3, <2>4
<1> QED BY <1>5, <1>6

\* A finite set can be listed in order: the last member goes last.
LEMMA SortingExists ==
  ASSUME NEW S, IsFiniteSet(S), NEW R, IsOrder(R, S)
  PROVE  \E s \in [1..Cardinality(S) -> S] : Ascends(s, R, Cardinality(S))
<1> DEFINE Sorted(T) == \E s \in [1..Cardinality(T) -> T] : Ascends(s, R, Cardinality(T))
           Bad == {T \in SUBSET S : ~Sorted(T)}
<1>1. SUFFICES ASSUME Bad # {} PROVE FALSE
  OBVIOUS
<1>2. PICK T \in Bad : \A i \in T : T \ {i} \notin Bad
  <2>1. Bad \subseteq SUBSET S
    OBVIOUS
  <2> HIDE DEF Bad
  <2> QED BY <1>1, <2>1, Smallest
<1>3. T \in SUBSET S /\ ~Sorted(T)
  OBVIOUS
<1>4. IsFiniteSet(T) /\ Cardinality(T) \in Nat
  BY <1>3, FS_Subset, FS_CardinalityType
<1>5. CASE T = {}
  <2>1. Cardinality(T) = 0
    BY <1>5, FS_EmptySet
  <2> DEFINE s == [k \in 1..0 |-> 0]
  <2>2. 1..0 = {}
    OBVIOUS
  <2>3. s \in [1..0 -> T] /\ Ascends(s, R, 0)
    BY <2>2 DEF Ascends
  <2> QED BY <1>3, <2>1, <2>3
<1>6. CASE T # {}
  <2>1. IsOrder(R, T)
    BY <1>3 DEF IsOrder
  <2>2. PICK x \in T : \A y \in T : <<x, y>> \notin R
    BY <1>4, <1>6, <2>1, LastExists
  <2> DEFINE n == Cardinality(T)
  <2>3. Cardinality(T \ {x}) = n - 1 /\ n - 1 \in Nat
    <3>1. Cardinality(T \ {x}) = n - 1 /\ IsFiniteSet(T \ {x})
      BY <1>4, <2>2, FS_RemoveElement
    <3> QED BY <3>1, FS_CardinalityType
  <2>4. Sorted(T \ {x})
    BY <1>2, <1>3, <2>2
  <2>5. PICK s \in [1..(n - 1) -> T \ {x}] : Ascends(s, R, n - 1)
    BY <2>3, <2>4
  <2>6. n \in Nat
    BY <1>4
  <2> HIDE DEF n
  <2> DEFINE t == [k \in 1..n |-> IF k = n THEN x ELSE s[k]]
  <2>7. \A k \in 1..n : k # n => k \in 1..(n - 1) /\ s[k] \in T \ {x}
    BY <2>3, <2>5, <2>6
  <2>8. t \in [1..n -> T]
    BY <2>2, <2>7
  <2>9. Ascends(t, R, n)
    <3> SUFFICES ASSUME NEW i \in 1..n, NEW j \in 1..n, i < j
                 PROVE  t[i] # t[j] /\ <<t[j], t[i]>> \notin R
      BY DEF Ascends
    <3>1. i # n /\ t[i] = s[i] /\ s[i] \in T /\ s[i] # x /\ i \in 1..(n - 1)
      BY <2>6, <2>7
    <3>2. CASE j = n
      BY <2>2, <3>1, <3>2
    <3>3. CASE j # n
      <4>1. t[j] = s[j] /\ j \in 1..(n - 1)
        BY <2>7, <3>3
      <4> QED BY <2>5, <3>1, <4>1 DEF Ascends
    <3> QED BY <3>2, <3>3
  <2> HIDE DEF t
  <2> QED BY <1>3, <2>8, <2>9 DEF n
<1> QED BY <1>5, <1>6

\* Such a list has every member, each once.
LEMMA SortingLists ==
  ASSUME NEW S, IsFiniteSet(S), NEW R,
         NEW s \in [1..Cardinality(S) -> S], Ascends(s, R, Cardinality(S))
  PROVE  /\ s \in Seq(S) /\ Len(s) = Cardinality(S) /\ ToSet(s) = S
         /\ Cardinality(S) \in Nat /\ \A y \in S : \E i \in 1..Cardinality(S) : s[i] = y
<1> DEFINE n == Cardinality(S)
<1>1. n \in Nat
  BY FS_CardinalityType
<1>2. s \in [1..n -> S] /\ Ascends(s, R, n)
  OBVIOUS
<1>3. IsFiniteSet(1..n) /\ Cardinality(1..n) = n
  <2>1. Cardinality(1..n) = IF 1 > n THEN 0 ELSE n - 1 + 1
    BY <1>1, FS_Interval, 1 \in Int
  <2>2. IsFiniteSet(1..n)
    BY <1>1, FS_Interval, 1 \in Int
  <2> HIDE DEF n
  <2> QED BY <1>1, <2>1, <2>2
<1>4. s \in Injection(1..n, S)
  <2> HIDE DEF n
  <2> SUFFICES ASSUME NEW i \in 1..n, NEW j \in 1..n, s[i] = s[j] PROVE i = j
    BY <1>2 DEF Injection, IsInjective
  <2>1. ~(i < j) /\ ~(j < i)
    BY <1>2 DEF Ascends
  <2> QED BY <1>1, <2>1
<1>5. s \in Surjection(1..n, S)
  BY <1>3, <1>4, FS_Injection
<1>6. \A y \in S : \E i \in 1..n : s[i] = y
  BY <1>5 DEF Surjection
<1>7. s \in Seq(S) /\ Len(s) = n
  <2> HIDE DEF n
  <2> QED BY <1>1, <1>2
<1>8. DOMAIN s = 1..n
  BY <1>2
<1> HIDE DEF n
<1>9. ToSet(s) = S
  BY <1>2, <1>6, <1>8 DEF ToSet
<1> QED BY <1>1, <1>6, <1>7, <1>9 DEF n

\* A member that ties with no other has the same place in every such list: the
\* ones before it are those that come before it.
Ahead(o, S, R) == {p \in S : <<p, o>> \in R}

Compares(o, S, R) == \A p \in S \ {o} : <<o, p>> \in R \/ <<p, o>> \in R
IsPlace(k, o, s, n) == k \in 1..n /\ \A i \in 1..n : s[i] = o <=> i = k

LEMMA PlaceIs ==
  ASSUME NEW S, IsFiniteSet(S), NEW R, IsOrder(R, S),
         NEW s \in [1..Cardinality(S) -> S], Ascends(s, R, Cardinality(S)),
         NEW o \in S, Compares(o, S, R)
  PROVE  IsPlace(Cardinality(Ahead(o, S, R)) + 1, o, s, Cardinality(S))
<1> DEFINE n == Cardinality(S)
           A == Ahead(o, S, R)
<1>1. n \in Nat /\ \A y \in S : \E i \in 1..n : s[i] = y
  BY SortingLists
<1>2. s \in [1..n -> S] /\ Ascends(s, R, n)
  OBVIOUS
<1> HIDE DEF n
<1>3. PICK i \in 1..n : s[i] = o
  BY <1>1
<1>4. \A k \in 1..n : s[k] = o => k = i
  <2> SUFFICES ASSUME NEW k \in 1..n, s[k] = o, k # i PROVE FALSE
    OBVIOUS
  <2>1. k < i \/ i < k
    BY <1>1
  <2> QED BY <1>2, <1>3, <2>1 DEF Ascends
<1>5. \A k \in 1..n : s[k] \in A <=> k < i
  <2> SUFFICES ASSUME NEW k \in 1..n PROVE s[k] \in A <=> k < i
    OBVIOUS
  <2>1. s[k] \in S
    BY <1>2
  <2>2. CASE k < i
    <3>1. s[k] # o /\ <<o, s[k]>> \notin R
      BY <1>2, <1>3, <2>2 DEF Ascends
    <3> QED BY <2>1, <2>2, <3>1 DEF Ahead, Compares
  <2>3. CASE k = i
    BY <1>1, <1>3, <2>3 DEF Ahead, IsOrder
  <2>4. CASE i < k
    <3>1. <<s[k], o>> \notin R
      BY <1>2, <1>3, <2>4 DEF Ascends
    <3> QED BY <1>1, <2>4, <3>1 DEF Ahead
  <2> QED BY <1>1, <2>2, <2>3, <2>4
<1> DEFINE I == 1..(i - 1)
           f == [k \in I |-> s[k]]
<1>6. i - 1 \in Nat /\ I \subseteq 1..n /\ \A k \in 1..n : k \in I <=> k < i
  BY <1>1
<1>7. IsFiniteSet(I) /\ Cardinality(I) = i - 1
  <2>1. 1 \in Int /\ i - 1 \in Int
    BY <1>6
  <2>2. IsFiniteSet(I) /\ Cardinality(I) = IF 1 > i - 1 THEN 0 ELSE (i - 1) - 1 + 1
    BY <2>1, FS_Interval
  <2> QED BY <1>6, <2>2
<1> HIDE DEF I
<1>8. f \in [I -> A] /\ \A k \in I : f[k] = s[k]
  BY <1>5, <1>6
<1> HIDE DEF f
<1>9. \A x, y \in I : f[x] = f[y] => x = y
  <2> SUFFICES ASSUME NEW x \in I, NEW y \in I, s[x] = s[y], x # y PROVE FALSE
    BY <1>8
  <2>1. x \in 1..n /\ y \in 1..n /\ (x < y \/ y < x)
    BY <1>1, <1>6
  <2> QED BY <1>2, <2>1 DEF Ascends
<1>10. \A p \in A : \E k \in I : f[k] = p
  <2> SUFFICES ASSUME NEW p \in A PROVE \E k \in I : f[k] = p
    OBVIOUS
  <2>1. PICK k \in 1..n : s[k] = p
    BY <1>1 DEF Ahead
  <2>2. k \in I
    BY <1>5, <1>6, <2>1
  <2> QED BY <1>8, <2>1, <2>2
<1>11. f \in Bijection(I, A)
  BY <1>8, <1>9, <1>10 DEF Bijection, Injection, Surjection, IsInjective
<1>12. Cardinality(A) = i - 1
  BY <1>7, <1>11, FS_Bijection DEF ExistsBijection
<1> HIDE DEF A
<1>13. Cardinality(A) + 1 = i
  BY <1>1, <1>12
<1>14. i \in 1..n /\ \A k \in 1..n : s[k] = o <=> k = i
  BY <1>3, <1>4
<1> QED BY <1>13, <1>14 DEF n, A, IsPlace

LEMMA MinOfTwo ==
  ASSUME NEW a \in Int, NEW b \in Int
  PROVE  Min({a, b}) = IF a <= b THEN a ELSE b
<1> DEFINE m == IF a <= b THEN a ELSE b
<1>1. m \in {a, b} /\ \A y \in {a, b} : m <= y
  OBVIOUS
<1>2. Min({a, b}) \in {a, b} /\ \A y \in {a, b} : Min({a, b}) <= y
  BY <1>1 DEF Min
<1> QED BY <1>2

\* Page k of a list, for pages of one entry or two: it follows on the one
\* before, and the last ends with the list.
LEMMA PageSpec ==
  ASSUME NEW S, NEW list \in Seq(S), NEW limit \in 1..2
  PROVE  LET n == Len(list)
             Upto(k) == IF k * limit <= n THEN k * limit ELSE n IN
         /\ TotalPages(n, limit) \in Nat
         /\ TotalPages(n, limit) = 0 => n = 0
         /\ TotalPages(n, limit) # 0 => Upto(TotalPages(n, limit)) = n
         /\ \A k \in 1..TotalPages(n, limit) :
              /\ Page(list, k, limit) = SubSeq(list, Upto(k - 1) + 1, Upto(k))
              /\ Upto(k - 1) \in 0..n /\ Upto(k) \in Upto(k - 1)..n
         /\ Upto(0) = 0
<1> DEFINE n == Len(list)
           Upto(k) == IF k * limit <= n THEN k * limit ELSE n
           N == TotalPages(n, limit)
<1>1. n \in Nat /\ limit \in Int
  OBVIOUS
<1> HIDE DEF n
<1>2. /\ N \in Nat /\ (N = 0 => n = 0) /\ (N # 0 => Upto(N) = n) /\ Upto(0) = 0
      /\ \A k \in 1..N : /\ (k - 1) * limit < n /\ Upto(k - 1) = (k - 1) * limit
                         /\ Upto(k) = (IF (k - 1) * limit + limit <= n
                                         THEN (k - 1) * limit + limit ELSE n)
                         /\ Upto(k - 1) \in 0..n /\ Upto(k) \in Upto(k - 1)..n
                         /\ (k - 1) * limit \in Int
  <2>1. CASE limit = 1
    <3>1. N = n
      BY <1>1, <2>1 DEF TotalPages
    <3>2. \A k \in Int : k * limit = k /\ (k - 1) * limit = k - 1
      BY <2>1
    <3> QED BY <1>1, <2>1, <3>1, <3>2
  <2>2. CASE limit = 2
    <3>1. N = (n + 1) \div 2
      BY <1>1, <2>2 DEF TotalPages
    <3>2. N \in Nat /\ n \in Nat /\ 2 * N >= n /\ 2 * N <= n + 1
      BY <1>1, <3>1
    <3>3. \A k \in Int : Upto(k) = IF 2 * k <= n THEN 2 * k ELSE n
      BY <2>2
    <3> HIDE DEF N, Upto
    <3>4. (N = 0 => n = 0) /\ (N # 0 => Upto(N) = n) /\ Upto(0) = 0
      BY <3>2, <3>3
    <3>5. ASSUME NEW k \in 1..N
          PROVE  /\ (k - 1) * limit < n /\ Upto(k - 1) = (k - 1) * limit
                 /\ Upto(k) = (IF (k - 1) * limit + limit <= n
                                 THEN (k - 1) * limit + limit ELSE n)
                 /\ Upto(k - 1) \in 0..n /\ Upto(k) \in Upto(k - 1)..n
                 /\ (k - 1) * limit \in Int
      <4>1. k \in Int /\ k - 1 \in Int /\ 1 <= k /\ k <= N
        BY <3>2
      <4>2. (k - 1) * limit = 2 * k - 2
        BY <2>2, <4>1
      <4>3. 2 * k - 2 < n
        BY <3>2, <4>1
      <4>4. Upto(k - 1) = 2 * k - 2
        BY <3>2, <3>3, <4>1, <4>3
      <4>5. Upto(k) = IF 2 * k <= n THEN 2 * k ELSE n
        BY <3>3, <4>1
      <4> QED BY <2>2, <3>2, <4>1, <4>2, <4>3, <4>4, <4>5
    <3> QED BY <3>2, <3>4, <3>5
  <2>3. limit = 1 \/ limit = 2
    OBVIOUS
  <2> HIDE DEF N, Upto
  <2> QED BY <2>1, <2>2, <2>3
<1>3. ASSUME NEW k \in 1..N
      PROVE  Page(list, k, limit) = SubSeq(list, Upto(k - 1) + 1, Upto(k))
  <2>1. Min({(k - 1) * limit + limit, n}) = Upto(k)
    <3>1. (k - 1) * limit \in Int
      BY <1>2
    <3>2. (k - 1) * limit + limit \in Int /\ n \in Int
      BY <1>1, <3>1
    <3>3. Upto(k) = IF (k - 1) * limit + limit <= n THEN (k - 1) * limit + limit ELSE n
      BY <1>2
    <3> QED BY <3>2, <3>3, MinOfTwo
  <2>2. Upto(k - 1) = (k - 1) * limit
    BY <1>2
  <2>3. Page(list, k, limit) = SubSeq(list, (k - 1) * limit + 1, Min({(k - 1) * limit + limit, n}))
    BY DEF Page, Skip, n
  <2> HIDE DEF N, Upto
  <2> QED BY <2>1, <2>2, <2>3
<1> HIDE DEF N
<1> QED BY <1>2, <1>3 DEF N, n

\* Every place in a list is on one page.
LEMMA PageOf ==
  ASSUME NEW n \in Nat, NEW limit \in 1..2, NEW place \in 1..n
  PROVE  LET Upto(k) == IF k * limit <= n THEN k * limit ELSE n IN
         \E k \in 1..TotalPages(n, limit) : \A j \in 1..TotalPages(n, limit) :
           place \in (Upto(j - 1) + 1)..Upto(j) <=> j = k
<1> DEFINE N == TotalPages(n, limit)
           Upto(k) == IF k * limit <= n THEN k * limit ELSE n
<1>1. CASE limit = 1
  <2>1. N = n
    BY <1>1 DEF TotalPages
  <2>2. \A j \in 1..n : Upto(j - 1) = j - 1 /\ Upto(j) = j
    BY <1>1
  <2> HIDE DEF N, Upto
  <2>3. \A j \in 1..N : place \in (Upto(j - 1) + 1)..Upto(j) <=> j = place
    BY <2>1, <2>2
  <2>4. place \in 1..N
    BY <2>1
  <2>5. \E k \in 1..N : \A j \in 1..N : place \in (Upto(j - 1) + 1)..Upto(j) <=> j = k
    BY <2>3, <2>4
  <2> QED BY <2>5 DEF N, Upto
<1>2. CASE limit = 2
  <2>1. N = (n + 1) \div 2
    BY <1>2 DEF TotalPages
  <2>2. N \in Nat /\ 2 * N >= n /\ 2 * N <= n + 1
    BY <2>1
  <2>3. \A j \in 1..N : /\ Upto(j - 1) = 2 * j - 2
                        /\ Upto(j) = IF 2 * j <= n THEN 2 * j ELSE n
    <3> SUFFICES ASSUME NEW j \in 1..N
                 PROVE  /\ Upto(j - 1) = 2 * j - 2
                        /\ Upto(j) = IF 2 * j <= n THEN 2 * j ELSE n
      OBVIOUS
    <3> HIDE DEF N
    <3>1. /\ j \in Int /\ 1 <= j /\ j <= N
          /\ (j - 1) * limit = 2 * j - 2 /\ j * limit = 2 * j
      BY <1>2, <2>2
    <3>2. 2 * j - 2 <= n
      BY <2>2, <3>1
    <3> QED BY <3>1, <3>2
  <2> DEFINE k == (place + 1) \div 2
  <2>4. k \in Nat /\ 2 * k >= place /\ 2 * k <= place + 1
    OBVIOUS
  <2> HIDE DEF N, Upto, k
  <2>5. \A j \in 1..N : place \in (Upto(j - 1) + 1)..Upto(j) <=> j = k
    <3> SUFFICES ASSUME NEW j \in 1..N
                 PROVE  place \in (Upto(j - 1) + 1)..Upto(j) <=> j = k
      OBVIOUS
    <3>1. place \in (Upto(j - 1) + 1)..Upto(j) <=> 2 * j - 1 <= place /\ place <= 2 * j
      BY <2>2, <2>3
    <3> QED BY <2>2, <2>4, <3>1
  <2>6. k \in 1..N
    BY <2>2, <2>4
  <2>7. \E x \in 1..N : \A j \in 1..N : place \in (Upto(j - 1) + 1)..Upto(j) <=> j = x
    BY <2>5, <2>6
  <2> QED BY <2>7 DEF N, Upto
<1>3. limit = 1 \/ limit = 2
  OBVIOUS
<1> HIDE DEF N, Upto
<1>4. \E k \in 1..N : \A j \in 1..N : place \in (Upto(j - 1) + 1)..Upto(j) <=> j = k
  BY <1>1, <1>2, <1>3 DEF N, Upto
<1> QED BY <1>4 DEF N, Upto

LEMMA PartHas ==
  ASSUME NEW S, NEW list \in Seq(S), NEW a \in 1..(Len(list) + 1), NEW b \in (a - 1)..Len(list),
         NEW o
  PROVE  o \in ToSet(SubSeq(list, a, b)) <=> \E i \in a..b : list[i] = o
<1> DEFINE part == SubSeq(list, a, b)
<1>1. /\ Len(list) \in Nat /\ a \in Int /\ b \in Int /\ 1 <= a /\ a <= b + 1
      /\ b <= Len(list) /\ \A i \in a..b : list[i] \in S
  OBVIOUS
<1>2. /\ part \in Seq(S) /\ Len(part) = (IF a <= b THEN b - a + 1 ELSE 0)
      /\ \A i \in 1..(b - a + 1) : part[i] = list[a + i - 1]
  BY <1>1, SubSeqProperties
<1> HIDE DEF part
<1>3. Len(part) = b - a + 1 /\ DOMAIN part = 1..(b - a + 1)
  BY <1>1, <1>2
<1>4. ASSUME NEW i \in a..b PROVE list[i] \in ToSet(part)
  <2>1. i - a + 1 \in 1..(b - a + 1) /\ a + (i - a + 1) - 1 = i
    BY <1>1
  <2> QED BY <1>2, <1>3, <2>1 DEF ToSet
<1>5. ASSUME o \in ToSet(part) PROVE \E i \in a..b : list[i] = o
  <2>1. PICK k \in 1..(b - a + 1) : part[k] = o
    BY <1>3, <1>5 DEF ToSet
  <2>2. a + k - 1 \in a..b /\ list[a + k - 1] = o
    BY <1>1, <1>2, <2>1
  <2> QED BY <2>2
<1> QED BY <1>4, <1>5 DEF part

Listings(status) == Orderings(Matching(status, Days), Sooner)
Histories(c) == Orderings(HistoryOf(c), Later)

\* The rows of the orders that are placed.
LEMMA PlacedRows ==
  ASSUME TypeOK
  PROVE  /\ Placed \subseteq Orders /\ Active \subseteq Placed /\ IsFiniteSet(Placed)
         /\ \A o \in Placed : order[o].day \in Nat /\ order[o].day \in Days /\ Created[o] \in Nat
<1>1. Placed \subseteq Orders /\ Active \subseteq Placed /\ IsFiniteSet(Placed)
  BY ReportsAssumption, FS_Subset DEF Placed, Active
<1>2. \A o \in Placed : order[o] \in [day : Days, status : Statuses]
  BY <1>1 DEF Placed, TypeOK
<1> QED BY ReportsAssumption, <1>1, <1>2

SoonerPairs == {q \in Orders \X Orders : Sooner(q[1], q[2])}
LaterPairs == {q \in Orders \X Orders : Later(q[1], q[2])}

LEMMA AreOrders ==
  ASSUME TypeOK, NEW S, S \subseteq Placed
  PROVE  /\ IsOrder(SoonerPairs, S) /\ IsOrder(LaterPairs, S)
         /\ \A o, p \in S : <<o, p>> \in SoonerPairs <=> Sooner(o, p)
         /\ \A o, p \in S : <<o, p>> \in LaterPairs <=> Later(o, p)
<1>1. \A o \in S : o \in Orders /\ order[o].day \in Nat /\ Created[o] \in Nat
  BY PlacedRows
<1>2. /\ \A o, p \in S : <<o, p>> \in SoonerPairs <=> Sooner(o, p)
      /\ \A o, p \in S : <<o, p>> \in LaterPairs <=> Later(o, p)
  BY <1>1 DEF SoonerPairs, LaterPairs
<1>3. /\ \A x \in S : ~Sooner(x, x) /\ ~Later(x, x)
      /\ \A x, y, z \in S : Sooner(x, y) /\ Sooner(y, z) => Sooner(x, z)
      /\ \A x, y, z \in S : Later(x, y) /\ Later(y, z) => Later(x, z)
  BY <1>1 DEF Sooner, Later
<1> QED BY <1>2, <1>3 DEF IsOrder

\* What the query of getOrders may list: every row that matches, once.
LEMMA ListingIs ==
  ASSUME TypeOK, NEW status
  PROVE  LET M == Matching(status, Days)
             n == Cardinality(M) IN
         /\ M \subseteq Placed /\ M \subseteq Orders /\ IsFiniteSet(M)
         /\ \A L : L \in Listings(status) <=> L \in [1..n -> M] /\ Ascends(L, SoonerPairs, n)
<1> DEFINE M == Matching(status, Days)
           n == Cardinality(M)
<1>1. M \subseteq Placed /\ M \subseteq Orders /\ IsFiniteSet(M)
  <2>1. M \subseteq Placed
    BY DEF Matching, Active, InStatus
  <2> QED BY <2>1, PlacedRows, FS_Subset
<1>2. \A o, p \in M : <<o, p>> \in SoonerPairs <=> Sooner(o, p)
  BY <1>1, AreOrders
<1>3. Listings(status) = {s \in [1..n -> M] :
                            \A i, j \in 1..n : i < j => s[i] # s[j] /\ ~Sooner(s[j], s[i])}
  BY Zenon DEF Listings, Orderings
<1> HIDE DEF M, n
<1> QED BY <1>1, <1>2, <1>3 DEF Ascends, M, n

LEMMA HistoryIs ==
  ASSUME TypeOK, NEW c
  PROVE  LET M == HistoryOf(c)
             n == Cardinality(M) IN
         /\ M \subseteq Placed /\ M \subseteq Orders /\ IsFiniteSet(M)
         /\ \A L : L \in Histories(c) <=> L \in [1..n -> M] /\ Ascends(L, LaterPairs, n)
<1> DEFINE M == HistoryOf(c)
           n == Cardinality(M)
<1>1. M \subseteq Placed /\ M \subseteq Orders /\ IsFiniteSet(M)
  <2>1. M \subseteq Placed
    BY DEF HistoryOf
  <2> QED BY <2>1, PlacedRows, FS_Subset
<1>2. \A o, p \in M : <<o, p>> \in LaterPairs <=> Later(o, p)
  BY <1>1, AreOrders
<1>3. Histories(c) = {s \in [1..n -> M] :
                        \A i, j \in 1..n : i < j => s[i] # s[j] /\ ~Later(s[j], s[i])}
  BY Zenon DEF Histories, Orderings
<1> HIDE DEF M, n
<1> QED BY <1>1, <1>2, <1>3 DEF Ascends, M, n

\* There always is an answer.
LEMMA SomeListing ==
  ASSUME TypeOK
  PROVE  (\A status : Listings(status) # {}) /\ (\A c : Histories(c) # {})
<1>1. ASSUME NEW status PROVE Listings(status) # {}
  BY ListingIs, AreOrders, SortingExists
<1>2. ASSUME NEW c PROVE Histories(c) # {}
  BY HistoryIs, AreOrders, SortingExists
<1> QED BY <1>1, <1>2

\* A page with room for everything is the list.
LEMMA WholePage ==
  ASSUME NEW S, NEW list \in Seq(S), NEW limit \in Nat, Len(list) <= limit
  PROVE  Page(list, 1, limit) = list
<1>1. Len(list) \in Nat
  OBVIOUS
<1>2. Min({(1 - 1) * limit + limit, Len(list)}) = Len(list)
  <2> DEFINE n == Len(list)
  <2> HIDE DEF n
  <2>1. (1 - 1) * limit + limit = limit /\ limit \in Int
    OBVIOUS
  <2>2. n \in Int /\ n <= limit
    BY <1>1 DEF n
  <2>3. Min({limit, n}) = n
    BY <2>1, <2>2, MinOfTwo
  <2> QED BY <2>1, <2>3 DEF n
<1>3. (1 - 1) * limit + 1 = 1
  OBVIOUS
<1>4. Page(list, 1, limit) = SubSeq(list, 1, Len(list))
  BY <1>2, <1>3 DEF Page, Skip
<1> QED BY <1>4, SubSeqFull

LEMMA RoomForAll ==
  ASSUME NEW M, M \subseteq Orders
  PROVE  /\ Cardinality(Orders) \in Nat /\ Cardinality(M) \in Nat
         /\ Cardinality(M) <= Cardinality(Orders)
<1>1. IsFiniteSet(Orders)
  BY ReportsAssumption
<1> QED BY <1>1, FS_Subset, FS_CardinalityType

\* A page with room for all orders shows each that matches once.
LEMMA OrdersAreShown ==
  ASSUME TypeOK, NEW status, NEW reply \in GetOrders(status, Days, 1, Cardinality(Orders))
  PROVE  LET list == Matching(status, Days) IN
         ToSet(reply) = list /\ Len(reply) = Cardinality(list)
<1> DEFINE M == Matching(status, Days)
<1>1. PICK L \in Listings(status) : reply = Page(L, 1, Cardinality(Orders))
  BY Zenon DEF GetOrders, Listings
<1>2. L \in Seq(M) /\ Len(L) = Cardinality(M) /\ ToSet(L) = M
  BY ListingIs, SortingLists
<1>3. reply = L
  <2>1. Cardinality(Orders) \in Nat /\ Len(L) <= Cardinality(Orders)
    BY <1>2, ListingIs, RoomForAll
  <2> HIDE DEF M
  <2> QED BY <1>1, <1>2, <2>1, WholePage
<1> QED BY <1>2, <1>3

OnOnePage(o, status, limit) ==
  LET pages == 1..TotalPages(Cardinality(Matching(status, Days)), limit) IN
    \E k \in pages : \A page \in pages :
      \A reply \in GetOrders(status, Days, page, limit) : o \in ToSet(reply) <=> page = k

\* Leafing through the orders of a status shows an order that ties with no other
\* on one page, and it is the same page every time.
LEMMA OrdersAreListed ==
  ASSUME TypeOK, NEW status, NEW limit \in 1..2, NEW o \in Matching(status, Days),
         NoTie(o, Matching(status, Days))
  PROVE  OnOnePage(o, status, limit)
<1> DEFINE M == Matching(status, Days)
           n == Cardinality(M)
           N == TotalPages(n, limit)
           Upto(k) == IF k * limit <= n THEN k * limit ELSE n
           place == Cardinality(Ahead(o, M, SoonerPairs)) + 1
<1>1. M \subseteq Placed /\ M \subseteq Orders /\ IsFiniteSet(M)
  BY ListingIs
<1>2. /\ IsOrder(SoonerPairs, M)
      /\ \A p \in M \ {o} : <<o, p>> \in SoonerPairs \/ <<p, o>> \in SoonerPairs
  BY <1>1, AreOrders DEF NoTie
<1>3. ASSUME NEW L \in Listings(status)
      PROVE  /\ L \in Seq(M) /\ Len(L) = n /\ n \in Nat
             /\ place \in 1..n /\ \A i \in 1..n : L[i] = o <=> i = place
  <2>1. L \in [1..n -> M] /\ Ascends(L, SoonerPairs, n)
    BY ListingIs
  <2>2. L \in Seq(M) /\ Len(L) = n /\ n \in Nat
    BY <1>1, <2>1, SortingLists
  <2>3. place \in 1..n /\ \A i \in 1..n : L[i] = o <=> i = place
    <3>1. o \in M /\ Compares(o, M, SoonerPairs)
      BY <1>2 DEF Compares
    <3> HIDE DEF M
    <3>2. IsPlace(place, o, L, n)
      BY <1>1, <1>2, <2>1, <3>1, PlaceIs
    <3> QED BY <3>2 DEF IsPlace
  <2> QED BY <2>2, <2>3
<1>4. n \in Nat /\ place \in 1..n
  BY <1>3, SomeListing
<1> HIDE DEF M, n, place
<1>5. PICK k \in 1..N : \A j \in 1..N : place \in (Upto(j - 1) + 1)..Upto(j) <=> j = k
  BY <1>4, PageOf
<1>6. ASSUME NEW page \in 1..N, NEW reply \in GetOrders(status, Days, page, limit)
      PROVE  o \in ToSet(reply) <=> page = k
  <2>1. PICK L \in Listings(status) : reply = Page(L, page, limit)
    BY Zenon DEF GetOrders, Listings
  <2>2. /\ L \in Seq(M) /\ Len(L) = n
        /\ \A i \in 1..n : L[i] = o <=> i = place
    BY <1>3
  <2>3. /\ reply = SubSeq(L, Upto(page - 1) + 1, Upto(page))
        /\ Upto(page - 1) \in 0..n /\ Upto(page) \in Upto(page - 1)..n
    <3>1. \A j \in 1..TotalPages(Len(L), limit) :
            LET U(x) == IF x * limit <= Len(L) THEN x * limit ELSE Len(L) IN
              /\ Page(L, j, limit) = SubSeq(L, U(j - 1) + 1, U(j))
              /\ U(j - 1) \in 0..Len(L) /\ U(j) \in U(j - 1)..Len(L)
      BY <2>2, PageSpec
    <3> QED BY <2>1, <2>2, <3>1
  <2> DEFINE a == Upto(page - 1) + 1
             b == Upto(page)
  <2> HIDE DEF Upto, N
  <2>4. a \in 1..(Len(L) + 1) /\ b \in (a - 1)..Len(L) /\ a..b \subseteq 1..n
    BY <1>4, <2>2, <2>3
  <2>5. o \in ToSet(reply) <=> \E i \in a..b : L[i] = o
    <3>1. reply = SubSeq(L, a, b)
      BY <2>3
    <3> HIDE DEF a, b
    <3> QED BY <2>2, <2>4, <3>1, PartHas, SMTT(60)
  <2>6. (\E i \in a..b : L[i] = o) <=> place \in a..b
    BY <1>4, <2>2, <2>4
  <2> QED BY <1>5, <2>5, <2>6
<1>7. \E x \in 1..N : \A page \in 1..N :
        \A reply \in GetOrders(status, Days, page, limit) : o \in ToSet(reply) <=> page = x
  <2> HIDE DEF N
  <2> QED BY <1>5, <1>6
<1> QED BY <1>7 DEF OnOnePage, N, n, M

\* What the customers' rows add up to: an order has one owner.
Bought(T) == {o \in Active : Owner[o] \in T}

LEMMA BoughtSum ==
  ASSUME TypeOK, NEW T
  PROVE  /\ IsFiniteSet(Bought(T)) /\ \A o \in Bought(T) : Price[o] \in Int
         /\ Revenue(Bought(T)) = Total(Bought(T), Price)
         /\ Total(Bought(T), Price) \in Int
<1>1. Bought(T) \subseteq Orders /\ IsFiniteSet(Bought(T))
  <2>1. Bought(T) \subseteq Placed
    BY DEF Bought, Active
  <2> QED BY <2>1, PlacedRows, FS_Subset
<1>2. \A o \in Bought(T) : Price[o] \in Int
  BY ReportsAssumption, <1>1
<1> QED BY <1>1, <1>2, SumsAreTotals, TotalAdds

LEMMA RowsAddUp ==
  ASSUME TypeOK, NEW w,
         \A c \in Customers : w[c] = Revenue(Bought({c}))
  PROVE  Total(Customers, w) = Revenue(Active)
<1> DEFINE Counted(T) == Total(T, w) = Revenue(Bought(T))
           Bad == {T \in SUBSET Customers : ~Counted(T)}
<1>0. IsFiniteSet(Customers)
  BY ReportsAssumption
<1>1. Bought(Customers) = Active
  BY ReportsAssumption, PlacedRows DEF Bought
<1>2. SUFFICES ASSUME Bad # {} PROVE FALSE
  BY <1>1
<1>3. PICK T \in Bad : \A i \in T : T \ {i} \notin Bad
  <2>1. Bad \subseteq SUBSET Customers
    OBVIOUS
  <2> HIDE DEF Bad
  <2> QED BY <1>0, <1>2, <2>1, Smallest
<1>4. T \in SUBSET Customers /\ ~Counted(T)
  OBVIOUS
<1>5. IsFiniteSet(T) /\ \A c \in T : w[c] \in Int
  BY <1>0, <1>4, BoughtSum, FS_Subset
<1>6. CASE T = {}
  <2>1. Total(T, w) = 0
    BY <1>5, <1>6, TotalAdds
  <2>2. Bought(T) = {}
    BY <1>6 DEF Bought
  <2>3. Total(Bought(T), Price) = 0
    BY <2>2, BoughtSum, TotalAdds
  <2>4. Revenue(Bought(T)) = Total(Bought(T), Price)
    BY BoughtSum
  <2> QED BY <1>4, <2>1, <2>3, <2>4
<1>7. CASE T # {}
  <2>1. PICK c \in T : TRUE
    BY <1>7
  <2>2. Counted(T \ {c})
    BY <1>3, <1>4, <2>1
  <2>3. Total(T, w) = w[c] + Total(T \ {c}, w)
    BY <1>5, <2>1, TotalAdds
  <2> DEFINE A == Bought({c})
             B == Bought(T \ {c})
  <2>4. Bought(T) = A \cup B /\ A \cap B = {}
    BY <2>1 DEF Bought
  <2>5. /\ IsFiniteSet(A) /\ IsFiniteSet(B) /\ \A o \in A \cup B : Price[o] \in Int
        /\ Revenue(A) = Total(A, Price) /\ Revenue(B) = Total(B, Price)
        /\ Revenue(Bought(T)) = Total(A \cup B, Price)
    BY <2>4, BoughtSum
  <2>6. w[c] = Revenue(A)
    BY <1>4, <2>1
  <2> HIDE DEF A, B
  <2>7. Total(A \cup B, Price) = Total(A, Price) + Total(B, Price)
    BY <2>4, <2>5, TotalOfUnion
  <2>8. Total(T \ {c}, w) = Revenue(B)
    BY <2>2 DEF B
  <2> QED BY <1>4, <2>3, <2>5, <2>6, <2>7, <2>8
<1> QED BY <1>6, <1>7

LEMMA LifetimesAddUp ==
  ASSUME TypeOK
  PROVE  MapThenSumSet(LAMBDA c : CustomerRow(c).lifetimeValue, Customers) = Revenue(Active)
<1> DEFINE w == [c \in Customers |-> Revenue(Bought({c}))]
<1>1. \A c \in Customers : w[c] = CustomerRow(c).lifetimeValue
  <2> SUFFICES ASSUME NEW c \in Customers PROVE w[c] = CustomerRow(c).lifetimeValue
    OBVIOUS
  <2>1. Bought({c}) = {o \in Active : Owner[o] = c}
    BY DEF Bought
  <2>2. CustomerRow(c).lifetimeValue = Revenue({o \in Active : Owner[o] = c})
    BY DEF CustomerRow
  <2> QED BY <2>1, <2>2
<1>2. \A c \in Customers : w[c] = Revenue(Bought({c}))
  OBVIOUS
<1> HIDE DEF w
<1>3. Total(Customers, w) = Revenue(Active)
  BY <1>2, RowsAddUp
<1>4. IsFiniteSet(Customers)
  BY ReportsAssumption
<1>5. LifetimeTotal = Total(Customers, w)
  BY <1>1, <1>4, LifetimeTotalIs
<1> QED BY <1>3, <1>5 DEF LifetimeTotal

\* A customer's row and the customer's page tell the same.
LEMMA RowAndHistory ==
  ASSUME TypeOK, NEW c \in Customers, NEW history \in CustomerHistory(c, 1, Cardinality(Orders))
  PROVE  /\ CustomerRow(c).totalOrders = Cardinality(ToSet(history) \cap Active)
         /\ history # <<>> /\ order[history[1]].status # "Cancelled" =>
              CustomerRow(c).lastOrderDate = order[history[1]].day
<1> DEFINE M == HistoryOf(c)
           group == {o \in Active : Owner[o] = c}
<1>0. PICK H \in Histories(c) : history = Page(H, 1, Cardinality(Orders))
  BY Zenon DEF CustomerHistory, Histories
<1>1. /\ H \in Seq(M) /\ Len(H) = Cardinality(M) /\ ToSet(H) = M
      /\ IsFiniteSet(M) /\ M \subseteq Orders
      /\ \A k, l \in 1..Len(H) : k < l => ~Later(H[l], H[k])
  <2>1. /\ H \in [1..Cardinality(M) -> M] /\ Ascends(H, LaterPairs, Cardinality(M))
        /\ M \subseteq Placed /\ M \subseteq Orders /\ IsFiniteSet(M)
    BY HistoryIs
  <2>2. H \in Seq(M) /\ Len(H) = Cardinality(M) /\ ToSet(H) = M
    BY <2>1, SortingLists
  <2>3. \A o, p \in M : <<o, p>> \in LaterPairs <=> Later(o, p)
    BY <2>1, AreOrders
  <2> HIDE DEF M
  <2> QED BY <2>1, <2>2, <2>3 DEF Ascends
<1>2. history = H
  <2>1. Cardinality(Orders) \in Nat /\ Len(H) <= Cardinality(Orders)
    BY <1>1, RoomForAll
  <2> HIDE DEF M
  <2> QED BY <1>0, <1>1, <2>1, WholePage
<1>3. group = M \cap Active
  BY DEF HistoryOf, Active
<1>4. /\ CustomerRow(c).totalOrders = Cardinality(group)
      /\ CustomerRow(c).lastOrderDate = LastOf(group)
  BY DEF CustomerRow
<1>5. ASSUME H # << >>, order[H[1]].status # "Cancelled"
      PROVE  LastOf(group) = order[H[1]].day
  <2>1. Len(H) \in Nat /\ Len(H) # 0 /\ 1 \in 1..Len(H)
    <3> HIDE DEF M
    <3> QED BY <1>1, <1>5, EmptySeq
  <2>2. H[1] \in M /\ \A o \in M : \E i \in 1..Len(H) : H[i] = o
    <3>1. DOMAIN H = 1..Len(H)
      <4> HIDE DEF M
      <4> QED BY <1>1
    <3> QED BY <1>1, <2>1, <3>1 DEF ToSet
  <2>3. H[1] \in group
    BY <1>3, <1>5, <2>2 DEF HistoryOf, Active
  <2>4. \A o \in M : order[o].day \in Int
    BY PlacedRows DEF HistoryOf
  <2>5. \A o \in group : order[H[1]].day >= order[o].day
    <3> SUFFICES ASSUME NEW o \in group PROVE order[H[1]].day >= order[o].day
      OBVIOUS
    <3>1. PICK i \in 1..Len(H) : H[i] = o
      BY <1>3, <2>2
    <3>2. CASE i = 1
      BY <1>3, <2>4, <3>1, <3>2
    <3>3. CASE i # 1
      <4>1. 1 < i
        BY <2>1, <3>3
      <4>2. ~Later(o, H[1])
        BY <1>1, <2>1, <3>1, <4>1
      <4> QED BY <1>3, <2>2, <2>4, <4>2 DEF Later
    <3> QED BY <3>2, <3>3
  <2> DEFINE D == {order[o].day : o \in group}
             d == order[H[1]].day
             Top(x) == x \in D /\ \A y \in D : x >= y
  <2>6. Top(d) /\ \A x \in D : x \in Int
    BY <1>3, <2>3, <2>4, <2>5
  <2>7. Max(D) = CHOOSE x : Top(x)
    BY Zenon DEF Max
  <2>8. Top(Max(D))
    <3> HIDE DEF Top
    <3> QED BY <2>6, <2>7, Zenon
  <2>9. Max(D) = d
    <3> HIDE DEF D, d
    <3> QED BY <2>6, <2>8
  <2>10. LastOf(group) = Max(D)
    BY <2>3 DEF LastOf
  <2> QED BY <2>9, <2>10
<1> HIDE DEF group
<1> QED BY <1>1, <1>2, <1>3, <1>4, <1>5

LEMMA ListsCorrect ==
  ASSUME TypeOK
  PROVE  ListsAgree
<1>1. ASSUME NEW status \in {"", "Pending", "Cancelled"}
      PROVE  /\ \A reply \in GetOrders(status, Days, 1, Cardinality(Orders)) :
                  /\ ToSet(reply) = Matching(status, Days)
                  /\ Len(reply) = Cardinality(Matching(status, Days))
             /\ \A limit \in 1..2, o \in Matching(status, Days) :
                  NoTie(o, Matching(status, Days)) => OnOnePage(o, status, limit)
  BY OrdersAreShown, OrdersAreListed
<1>2. \A c \in Customers : \A history \in CustomerHistory(c, 1, Cardinality(Orders)) :
        /\ CustomerRow(c).totalOrders = Cardinality(ToSet(history) \cap Active)
        /\ history # <<>> /\ order[history[1]].status # "Cancelled" =>
             CustomerRow(c).lastOrderDate = order[history[1]].day
  BY RowAndHistory
<1> QED BY <1>1, <1>2, LifetimesAddUp, Zenon DEF ListsAgree, OnOnePage

\* The dashboard, the calendar, the overview and the analytics count the active
\* orders of the month on the wall, each adding up those its revenue is about;
\* the lists and the customers' rows account for every order, the pages for every
\* order that ties with no other.
THEOREM ViewsCorrect == Spec => []ViewsAgree
<1>1. IInv => ViewsAgree
  BY MonthCorrect, ListsCorrect DEF IInv, ViewsAgree
<1> QED BY <1>1, ReportsInvariance, PTL
=============================================================================
