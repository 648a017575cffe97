------------------------------ MODULE Periods -------------------------------
(***************************************************************************)
(* Time members and account types of internal/model.  The Time dimension   *)
(* is generated: a year holds four quarters and a quarter three months, so *)
(* it is given by its years.  A member is a year and a part of it.         *)
(***************************************************************************)
EXTENDS Integers, Sequences

Month(y, m)   == [year |-> y, part |-> "M", n |-> m]
Quarter(y, q) == [year |-> y, part |-> "Q", n |-> q]
Year(y)       == [year |-> y, part |-> "Y", n |-> 1]

\* The members BuildTimeDim generates for a set of years.
TimeMembers(years) ==
  UNION {{Year(y)} \cup {Quarter(y, q) : q \in 1 .. 4} \cup {Month(y, m) : m \in 1 .. 12} :
           y \in years}

IsMonth(t)    == t.part = "M"

\* Children of a time member, as AddTimeYear hangs them.
SubPeriods(t) ==
  CASE t.part = "Y" -> {Quarter(t.year, q) : q \in 1 .. 4}
    [] t.part = "Q" -> {Month(t.year, m) : m \in (t.n - 1) * 3 + 1 .. t.n * 3}
    [] t.part = "M" -> {}

\* MonthsUnder: the months at or below t in order, none if t is unknown.
MonthsUnder(years, t) ==
  IF t \notin TimeMembers(years) THEN <<>> ELSE
    CASE t.part = "Y" -> [m \in 1 .. 12 |-> Month(t.year, m)]
      [] t.part = "Q" -> [m \in 1 .. 3 |-> Month(t.year, (t.n - 1) * 3 + m)]
      [] t.part = "M" -> <<t>>

\* YTDMonths: January to month t, whether or not the dimension has the year.
YTDMonths(t) == [m \in 1 .. t.n |-> Month(t.year, m)]

BalanceTypes == {"Asset", "Liability", "Equity"}
FlowTypes    == {"Revenue", "Expense", "Flow", "NonFinancial"}
IsBalance(type) == type \in BalanceTypes
\* RateType: the rate that translates an account.
RateType(type) == IF IsBalance(type) THEN "Closing" ELSE "Average"
=============================================================================
