------------------------------- MODULE Reports -------------------------------
(***************************************************************************)
(* What a baker is shown of the orders, customers and expenses: the        *)
(* dashboard, the calendar, the analytics and the lists.                   *)
(*                                                                         *)
(* All of it only reads.  Orders are saved by others at any time, in any   *)
(* way the order handlers may; here only the date and the status change.   *)
(* Every query sees a snapshot of its own, so the dashboard, which makes   *)
(* up to four that depend on each other, is modelled statement by          *)
(* statement.  The other reports are the functions of the tables they      *)
(* compute when nothing is saved meanwhile.                                *)
(***************************************************************************)
EXTENDS Calendar, FiniteSets, FiniteSetsExt, SequencesExt

CONSTANTS
  Orders,     \* order ids
  Created,    \* Created[o]: the millisecond it was created in, with others or not
  Price,      \* Price[o]: its total price
  Due,        \* Due[o]: its balance due
  Owner,      \* Owner[o]: its customer
  Customers,  \* customer ids
  Expenses,   \* investments
  Cost,       \* Cost[e]: its total cost
  Days,       \* days orders are delivered on
  BuyDays,    \* days materials are bought on
  Starts,     \* instants and the wall clock in India at each
  MaxTicks,   \* bound: half hours that pass
  Absent,     \* no such row, a deleted expense
  NoMonth     \* upcomingOrders.month is null

Statuses == {"Pending", "Confirmed", "Delivered", "Cancelled"}
Month == [year : Nat, month : 0..11]
Wall == [year : Nat, month : 0..11, day : 1..31, time : 0..(HalfHoursPerDay - 1)]

\* What the clock on the wall shows at instant t: India is IstOffset ahead.
Shows(w, t) ==
  /\ w \in Wall /\ w.day <= DaysIn(w.year, w.month)
  /\ DateUTC(w.year, w.month, w.day) * HalfHoursPerDay + w.time = t + IstOffset

ASSUME ReportsAssumption ==
  /\ IsFiniteSet(Orders) /\ IsFiniteSet(Customers) /\ IsFiniteSet(Expenses)
  /\ Created \in [Orders -> Nat] /\ Price \in [Orders -> Nat] /\ Due \in [Orders -> Nat]
  /\ Owner \in [Orders -> Customers] /\ Cost \in [Expenses -> Nat]
  /\ Days \subseteq Nat /\ BuyDays \subseteq Nat /\ MaxTicks \in Nat
  /\ \A s \in Starts : s.now \in Nat /\ Shows(s.wall, s.now)
  /\ NoMonth \notin Month /\ Absent \notin Int

VARIABLES
  now,      \* the server's clock
  wall,     \* the clock on the baker's wall, in India
  ticks,    \* half hours passed
  order,    \* order[o]: the row of order o
  bought,   \* bought[e]: the purchase date of expense e
  report    \* the dashboard that is being put together

vars == <<now, wall, ticks, order, bought, report>>
clock == <<now, wall, ticks>>

(***************************************************************************)
(* getDashboardSummary in progress: the queries still to be made, the day  *)
(* it takes for today, the orders read so far, the month they are for, and *)
(* (history) the orders saved since it began.                              *)
(***************************************************************************)
Idle == [awaits |-> "request"]
InProgress == [awaits : SUBSET {"today", "rest", "next", "month"}, day : Nat,
               today : SUBSET Orders, upcoming : SUBSET Orders,
               month : Month \cup {NoMonth}, touched : SUBSET Orders]

TypeOK ==
  /\ now \in Nat /\ ticks \in 0..MaxTicks
  /\ wall \in Wall
  /\ order \in [Orders -> [day : Days, status : Statuses] \cup {Absent}]
  /\ bought \in [Expenses -> BuyDays \cup {Absent}]
  /\ report \in InProgress \cup {Idle}

Init ==
  /\ \E s \in Starts : now = s.now /\ wall = s.wall
  /\ ticks = 0
  /\ order = [o \in Orders |-> Absent]
  /\ bought = [e \in Expenses |-> Absent]
  /\ report = Idle

-----------------------------------------------------------------------------
(***************************************************************************)
(* What the queries select.                                                *)
(***************************************************************************)
Placed == {o \in Orders : order[o] # Absent}
Active == {o \in Placed : order[o].status # "Cancelled"}
ActiveIn(days) == {o \in Active : order[o].day \in days}
InStatus(s) == {o \in Placed : order[o].status = s}
BoughtIn(days) == {e \in Expenses : bought[e] \in days}

Revenue(S) == MapThenSumSet(LAMBDA o : Price[o], S)
Outstanding(S) == MapThenSumSet(LAMBDA o : Due[o], S)
Spent(S) == MapThenSumSet(LAMBDA e : Cost[e], S)

Today == LET t == GetISTCalendarDate(now) IN DateUTC(t.year, t.month, t.day)

\* The metric grid: one query grouped by status, one for the investments.
Metrics ==
  LET t == GetISTCalendarDate(now)
      month == DateUTC(t.year, t.month, 1) .. DateUTC(t.year, t.month + 1, 0)
      Group(s) == ActiveIn(month) \cap InStatus(s) IN
    [totalOrders         |-> Cardinality(ActiveIn(month)),
     confirmedOrders     |-> Cardinality(Group("Confirmed")),
     pendingOrders       |-> Cardinality(Group("Pending")),
     expectedRevenue     |-> Revenue(Group("Confirmed")) + Revenue(Group("Delivered")),
     deliveredRevenue    |-> Revenue(Group("Delivered")),
     confirmedBalanceDue |-> Outstanding(Group("Confirmed")),
     pendingOrderValue   |-> Revenue(Group("Pending")),
     totalInvested       |-> Spent(BoughtIn(month))]

\* getCalendar: one cell per day of the month or week, and two sums.
GetCalendar(days) ==
  LET Cell(d) == ActiveIn({d}) IN
    [cells |-> [d \in days |->
        [totalOrders |-> Cardinality(Cell(d)),
         pending     |-> Cardinality(Cell(d) \cap InStatus("Pending")),
         confirmed   |-> Cardinality(Cell(d) \cap InStatus("Confirmed")),
         delivered   |-> Cardinality(Cell(d) \cap InStatus("Delivered")),
         outstandingBalance |-> Outstanding(Cell(d))]],
     delivered      |-> Revenue(ActiveIn(days) \cap InStatus("Delivered")),
     estimatedTotal |-> Revenue(ActiveIn(days))]

MONTH_OVERVIEW_OFFSETS == <<1, 0, -1, -2, -3, -4>>

\* One query over the whole window, then a count per month.
GetCalendarMonthsOverview(center) ==
  LET window == DateUTC(center.year, center.month - 4, 1)
                  .. DateUTC(center.year, center.month + 2, 0) IN
    [k \in DOMAIN MONTH_OVERVIEW_OFFSETS |->
       LET first == DateUTC(center.year, center.month + MONTH_OVERVIEW_OFFSETS[k], 1) IN
         Cardinality({o \in ActiveIn(window) : MonthOf(order[o].day) = MonthOf(first)})]

\* getAnalyticsSummary: the months of the window, oldest first.
GetAnalyticsSummary(months) ==
  LET t == GetISTCalendarDate(now)
      window == DateUTC(t.year, t.month - (months - 1), 1)
                  .. DateUTC(t.year, t.month + 1, 0) IN
    [k \in 1..months |->
       LET bucket == MonthOf(DateUTC(t.year, t.month - (months - k), 1))
           sold == {o \in ActiveIn(window) : MonthOf(order[o].day) = bucket}
           paid == {e \in BoughtIn(window) : MonthOf(bought[e]) = bucket} IN
         [revenue |-> Revenue(sold), expenses |-> Spent(paid),
          profit |-> Revenue(sold) - Spent(paid), orderCount |-> Cardinality(sold)]]

-----------------------------------------------------------------------------
(***************************************************************************)
(* The lists.  page counts from 1.                                         *)
(***************************************************************************)
Skip(page, limit) == (page - 1) * limit

Page(list, page, limit) ==
  SubSeq(list, Skip(page, limit) + 1,
         Min({Skip(page, limit) + limit, Len(list)}))

TotalPages(items, limit) == (items + limit - 1) \div limit

\* ORDER BY: every row once, and none after one it goes before.  Rows that tie
\* come in any order, in another perhaps the next time.
Orderings(S, Before(_, _)) ==
  {s \in [1..Cardinality(S) -> S] :
     \A i, j \in 1..Cardinality(S) : i < j => s[i] # s[j] /\ ~Before(s[j], s[i])}

\* By delivery date, then the latest created first.
Sooner(o, p) == \/ order[o].day < order[p].day
                \/ order[o].day = order[p].day /\ Created[o] > Created[p]
Later(o, p) == \/ order[o].day > order[p].day
               \/ order[o].day = order[p].day /\ Created[o] > Created[p]

\* getOrders: without a status, all but the cancelled.  A set of pages: those
\* the database may answer with.
Matching(status, days) ==
  {o \in (IF status = "" THEN Active ELSE InStatus(status)) : order[o].day \in days}

GetOrders(status, days, page, limit) ==
  {Page(list, page, limit) : list \in Orderings(Matching(status, days), Sooner)}

LastOf(S) == IF S = {} THEN Absent ELSE Max({order[o].day : o \in S})

\* The row of getCustomers: orders grouped by customer.
CustomerRow(c) ==
  LET group == {o \in Active : Owner[o] = c}
      owing == {o \in group : Due[o] > 0} IN
    [totalOrders |-> Cardinality(group), lifetimeValue |-> Revenue(group),
     outstandingBalance |-> Outstanding(owing), lastOrderDate |-> LastOf(group)]

\* getCustomerProfile lists the cancelled orders too, latest first.
HistoryOf(c) == {o \in Placed : Owner[o] = c}
CustomerHistory(c, page, limit) ==
  {Page(list, page, limit) : list \in Orderings(HistoryOf(c), Later)}

\* getInvestments: the entries of a range and what they cost.
GetInvestments(days) == [entries |-> BoughtIn(days), totalExpense |-> Spent(BoughtIn(days))]

-----------------------------------------------------------------------------
(***************************************************************************)
(* getDashboardSummary, statement by statement.                            *)
(***************************************************************************)
GetDashboardSummary ==
  /\ report = Idle
  /\ report' = [awaits |-> {"today", "rest"}, day |-> Today,
                today |-> {}, upcoming |-> {}, month |-> MonthOf(Today), touched |-> {}]
  /\ UNCHANGED <<clock, order, bought>>

Awaits(query) == report # Idle /\ query \in report.awaits

FindToday ==
  /\ Awaits("today")
  /\ report' = [report EXCEPT !.awaits = @ \ {"today"}, !.today = ActiveIn({report.day})]
  /\ UNCHANGED <<clock, order, bought>>

EndOfMonth(d) == DateUTC(CivilOf(d).year, CivilOf(d).month + 1, 0)

\* The rest of this month; if there is nothing, the search goes on.
FindRestOfMonth ==
  /\ Awaits("rest")
  /\ LET rest == ActiveIn((report.day + 1) .. EndOfMonth(report.day)) IN
       report' = [report EXCEPT !.upcoming = rest,
                    !.awaits = (@ \ {"rest"}) \cup (IF rest = {} THEN {"next"} ELSE {})]
  /\ UNCHANGED <<clock, order, bought>>

\* Mutated form: the next calendar month is taken to be the next busy one.
FindNextCalendarMonth ==
  /\ report # Idle /\ report.awaits = {"next"}
  /\ report' = [report EXCEPT !.awaits = {"month"},
                              !.month = MonthOf(EndOfMonth(report.day) + 1)]
  /\ UNCHANGED <<clock, order, bought>>

\* Mutated form: the month is counted from 1, as in the label.
FindNextOrderOneBased ==
  /\ report # Idle /\ report.awaits = {"next"}
  /\ LET later == {order[o].day : o \in {p \in Active : order[p].day > EndOfMonth(report.day)}} IN
       report' = IF later = {}
                   THEN [report EXCEPT !.awaits = {}, !.month = NoMonth]
                   ELSE [report EXCEPT !.awaits = {"month"},
                           !.month = [year |-> MonthOf(Min(later)).year,
                                      month |-> MonthOf(Min(later)).month + 1]]
  /\ UNCHANGED <<clock, order, bought>>

FindNextOrder ==
  /\ report # Idle /\ report.awaits = {"next"}
  /\ LET later == {order[o].day : o \in {p \in Active : order[p].day > EndOfMonth(report.day)}} IN
       report' = IF later = {}
                   THEN [report EXCEPT !.awaits = {}, !.month = NoMonth]
                   ELSE [report EXCEPT !.awaits = {"month"}, !.month = MonthOf(Min(later))]
  /\ UNCHANGED <<clock, order, bought>>

ListNextMonth ==
  /\ Awaits("month")
  /\ report' = [report EXCEPT !.awaits = {},
                  !.upcoming = ActiveIn(GetMonthBounds(report.month.year, report.month.month))]
  /\ UNCHANGED <<clock, order, bought>>

Reply ==
  /\ report # Idle /\ report.awaits = {}
  /\ report' = Idle
  /\ UNCHANGED <<clock, order, bought>>

-----------------------------------------------------------------------------
\* An order is placed, rescheduled, moved to another status or cancelled.
SaveOrder(o) ==
  \E d \in Days, s \in Statuses :
    /\ order' = [order EXCEPT ![o] = [day |-> d, status |-> s]]
    /\ report' = IF report = Idle THEN Idle
                 ELSE [report EXCEPT !.touched = @ \cup {o}]
    /\ UNCHANGED <<clock, bought>>

SaveExpense(e) ==
  /\ \E d \in BuyDays \cup {Absent} : bought' = [bought EXCEPT ![e] = d]
  /\ UNCHANGED <<clock, order, report>>

\* Half an hour passes, on the wall as in any almanac.
NextDay(w) ==
  IF w.day < DaysIn(w.year, w.month)
    THEN [year |-> w.year, month |-> w.month, day |-> w.day + 1, time |-> 0]
    ELSE IF w.month < 11
           THEN [year |-> w.year, month |-> w.month + 1, day |-> 1, time |-> 0]
           ELSE [year |-> w.year + 1, month |-> 0, day |-> 1, time |-> 0]

Tick ==
  /\ ticks < MaxTicks
  /\ ticks' = ticks + 1
  /\ now' = now + 1
  /\ wall' = IF wall.time + 1 < HalfHoursPerDay
               THEN [wall EXCEPT !.time = @ + 1] ELSE NextDay(wall)
  /\ UNCHANGED <<order, bought, report>>

Next ==
  \/ GetDashboardSummary \/ FindToday \/ FindRestOfMonth \/ FindNextOrder
  \/ ListNextMonth \/ Reply \/ Tick
  \/ \E o \in Orders : SaveOrder(o)
  \/ \E e \in Expenses : SaveExpense(e)

Spec == Init /\ [][Next]_vars

-----------------------------------------------------------------------------
(***************************************************************************)
(* Properties.                                                             *)
(***************************************************************************)
OnTheWall(d) == CivilOf(d).year = wall.year /\ CivilOf(d).month = wall.month
ThisMonth == {o \in Active : OnTheWall(order[o].day)}
SumOver(cells, Field(_)) == MapThenSumSet(LAMBDA d : Field(cells[d]), DOMAIN cells)

\* Five queries with five ranges of their own count this month (dashboard
\* .service.ts 79, 103, 221, 377, analytics.service.ts 44); each counts the
\* active orders whose date falls in the month on the wall, at any hour.  The
\* revenue of the analytics, as the calendar's total, counts the pending ones in
\* and the dashboard's expected revenue does not (dashboard.service.ts 202): the
\* two are not the same, as analytics.service.ts 34-36 has it, unless nothing is
\* pending.
MonthAgrees ==
  LET monthCells == GetCalendar(GetMonthBounds(wall.year, wall.month))
      analytics == GetAnalyticsSummary(3)
      TotalOf(cell) == cell.totalOrders
      SplitOf(cell) == cell.pending + cell.confirmed + cell.delivered
      DueOf(cell) == cell.outstandingBalance IN
    /\ CivilOf(Today) = [year |-> wall.year, month |-> wall.month, day |-> wall.day]
    /\ Metrics.totalOrders = Cardinality(ThisMonth)
    /\ SumOver(monthCells.cells, TotalOf) = Cardinality(ThisMonth)
    /\ SumOver(monthCells.cells, SplitOf) = Cardinality(ThisMonth)
    /\ GetCalendarMonthsOverview(wall)[2] = Cardinality(ThisMonth)
    /\ analytics[3].orderCount = Cardinality(ThisMonth)
    /\ Metrics.expectedRevenue = Revenue(ThisMonth \ InStatus("Pending"))
    /\ Metrics.pendingOrderValue = Revenue(ThisMonth \cap InStatus("Pending"))
    /\ analytics[3].revenue = Revenue(ThisMonth)
    /\ monthCells.estimatedTotal = Revenue(ThisMonth)
    /\ Today \in GetWeekBounds(Today) /\ Cardinality(GetWeekBounds(Today)) = 7
    /\ WeekdayOf(Min(GetWeekBounds(Today))) = 1
    /\ monthCells.delivered = Metrics.deliveredRevenue
    /\ SumOver(monthCells.cells, DueOf) = Outstanding(ThisMonth)
    /\ Metrics.totalInvested = analytics[3].expenses
    /\ GetInvestments(GetMonthBounds(wall.year, wall.month)).totalExpense = Metrics.totalInvested

\* Every page is a query of its own (orders.service.ts 187-192), and orders of
\* one day created in one millisecond tie, so leafing through a list may show
\* one of them twice and another not at all.  An order that ties with no other
\* is always on one page, the same however the ties fall, whatever the size of
\* the pages; and a page with room for all shows every order once.  The
\* customers' rows account for every active order, and agree with the history.
NoTie(o, S) == \A p \in S \ {o} : Sooner(o, p) \/ Sooner(p, o)

ListsAgree ==
  /\ \A status \in {"", "Pending", "Cancelled"} :
       LET list == Matching(status, Days) IN
         /\ \A reply \in GetOrders(status, Days, 1, Cardinality(Orders)) :
              ToSet(reply) = list /\ Len(reply) = Cardinality(list)
         /\ \A limit \in 1..2, o \in list :
              LET pages == 1..TotalPages(Cardinality(list), limit) IN
                NoTie(o, list) =>
                  \E k \in pages : \A page \in pages :
                    \A reply \in GetOrders(status, Days, page, limit) :
                      o \in ToSet(reply) <=> page = k
  /\ MapThenSumSet(LAMBDA c : CustomerRow(c).lifetimeValue, Customers) = Revenue(Active)
  /\ \A c \in Customers : \A history \in CustomerHistory(c, 1, Cardinality(Orders)) :
       /\ CustomerRow(c).totalOrders = Cardinality(ToSet(history) \cap Active)
       /\ history # <<>> /\ order[history[1]].status # "Cancelled" =>
            CustomerRow(c).lastOrderDate = order[history[1]].day

\* They are functions of the tables and the clock: no need to look at them
\* again for every state of a dashboard in progress.
ViewsAgree == report = Idle => MonthAgrees /\ ListsAgree

\* The dashboard's queries do not see one snapshot (dashboard.service.ts 82,
\* 139, 156), and orders are saved in between.  Of the orders nobody touched
\* meanwhile, it still shows today's as today's, and no later one is passed
\* over: the upcoming month is the nearest that has one, and shows them all;
\* it is never empty unless an order was touched.
UpcomingIsNearest ==
  report # Idle /\ report.awaits = {} =>
    /\ report.touched = {} /\ (\E o \in Active : order[o].day > report.day) =>
         report.upcoming # {}
    /\ \A o \in Active \ report.touched :
         LET d == order[o].day IN
           /\ o \in report.today <=> d = report.day
           /\ o \in report.upcoming => d > report.day
           /\ d > report.day =>
                /\ report.month # NoMonth
                /\ o \in report.upcoming <=> MonthOf(d) = report.month
                /\ d >= DateUTC(report.month.year, report.month.month, 1)

-----------------------------------------------------------------------------
(***************************************************************************)
(* The inductive invariant: what the queries made so far have established. *)
(***************************************************************************)
Kept == Active \ report.touched
From(m) == DateUTC(m.year, m.month, 1)

Stages == {{"today", "rest"}, {"rest"}, {"today"}, {},
           {"today", "next"}, {"next"}, {"month"}}

TodayListed ==
  "today" \notin report.awaits =>
    \A o \in Kept : o \in report.today <=> order[o].day = report.day

SearchGoesOn ==
  /\ "rest" \in report.awaits => report.month = MonthOf(report.day)
  /\ "next" \in report.awaits =>
       /\ report.upcoming = {}
       /\ \A o \in Kept :
            order[o].day > report.day => order[o].day > EndOfMonth(report.day)

MonthFound ==
  "month" \in report.awaits =>
    /\ report.month # NoMonth /\ From(report.month) > report.day
    /\ \A o \in Kept : order[o].day > report.day => order[o].day >= From(report.month)
    /\ report.touched = {} => \E o \in Active : MonthOf(order[o].day) = report.month

UpcomingListed ==
  report.awaits \subseteq {"today"} =>
    /\ report.touched = {} /\ (\E o \in Active : order[o].day > report.day) =>
         report.upcoming # {}
    /\ \A o \in Kept :
         /\ o \in report.upcoming => order[o].day > report.day
         /\ order[o].day > report.day =>
              /\ report.month # NoMonth
              /\ o \in report.upcoming <=> MonthOf(order[o].day) = report.month
              /\ order[o].day >= From(report.month)

IInv ==
  /\ TypeOK
  /\ Shows(wall, now)
  /\ report # Idle =>
       /\ report.awaits \in Stages
       /\ TodayListed /\ SearchGoesOn /\ MonthFound /\ UpcomingListed

=============================================================================
