-------------------------------- MODULE Demo --------------------------------
(***************************************************************************)
(* The GolfTrickle demo of internal/seed: metadata and input data.  Which  *)
(* cells exist, and how accounts, entities, months, years and scenarios    *)
(* differ, is the code's; amounts are whole multiples of 5 and rates whole *)
(* numbers in the same order, so that every share of an amount is whole.   *)
(* The dynamic account GPMargin, a quotient, is left out.                  *)
(***************************************************************************)
EXTENDS Periods, TLC

Inc == "GolfTrickle Inc"    US == "US Operations"
DemoEnt == Inc :> "" @@ "North America" :> Inc @@ US :> "North America"
           @@ "Canada" :> "North America"
           @@ "Europe" :> Inc @@ "Germany" :> "Europe" @@ "France" :> "Europe"
DemoCurrency(e) == CASE e = "Canada"                         -> "CAD"
                     [] e \in {"Europe", "Germany", "France"} -> "EUR"
                     [] OTHER                                 -> "USD"
DemoPct(e)      == IF e = "France" THEN 80 ELSE 100

DemoAcc == "NetIncome" :> "" @@ "GrossProfit" :> "NetIncome" @@ "OpEx" :> "NetIncome"
           @@ "Salaries" :> "OpEx" @@ "Marketing" :> "OpEx" @@ "Rent" :> "OpEx"
           @@ "Sales" :> "" @@ "COGS" :> "" @@ "BalanceSheet" :> ""
           @@ "Cash" :> "BalanceSheet" @@ "Receivables" :> "BalanceSheet"
           @@ "Payables" :> "BalanceSheet"
DemoWeight(a) == IF a = "OpEx" THEN -1 ELSE 1
DemoType(a) ==
  CASE a \in {"NetIncome", "GrossProfit", "Sales"}               -> "Revenue"
    [] a \in {"OpEx", "Salaries", "Marketing", "Rent", "COGS"}   -> "Expense"
    [] a \in {"BalanceSheet", "Cash", "Receivables"}             -> "Asset"
    [] a = "Payables"                                            -> "Liability"
    [] OTHER                                                     -> ""
DemoICAccounts == {"Sales", "COGS"}
DemoFormulas   == "GrossProfit" :> [coef |-> "Sales" :> 1 @@ "COGS" :> -1, const |-> 0]

\* Rates drift by month and by year, alike in both scenarios.
DataYears    == 2024 .. 2026
BaseRates    == <<"CAD", "Average">> :> 3 @@ <<"CAD", "Closing">> :> 2
                @@ <<"EUR", "Average">> :> 6 @@ <<"EUR", "Closing">> :> 5
DemoRates(t) == [r \in DOMAIN BaseRates |-> BaseRates[r] + (t.n - 1) + 2 * (t.year - 2024)]

DemoScenarios == {"Actual", "Budget"}
DemoSlices    == DemoScenarios \X {t \in TimeMembers(DataYears) : IsMonth(t)}

\* baseCells: amounts of the first month of a year and their growth.
Base   == US :> 4 @@ "Canada" :> 3 @@ "Germany" :> 2 @@ "France" :> 1
Leaves == DOMAIN Base
Growth == "Sales" :> 5 @@ "COGS" :> 3 @@ "Salaries" :> 3 @@ "Marketing" :> 2 @@ "Rent" :> 0
          @@ "Cash" :> 9 @@ "Receivables" :> 4 @@ "Payables" :> 6
Amount(e, a, s) ==
  5 * (20 * Base[e] + Growth[a] * s[2].n) * (s[2].year - 2020)
    + IF s[1] = "Budget" THEN 5 ELSE 0

\* buildStore: the cells of one leaf in one slice, every one from an import,
\* and both sides of what US Operations sells to Germany.
ICSale(t) == 5 * (40 + 2 * t.n) * (t.year - 2020)
Imported(a, p) == [acct |-> a, origin |-> "Import", ic |-> p]
DemoInput(e, s) ==
  [c \in {Imported(a, "None") : a \in DOMAIN Growth} |-> Amount(e, c.acct, s)]
  @@ (CASE e = US        -> Imported("Sales", "Germany") :> ICSale(s[2])
        [] e = "Germany" -> Imported("COGS", US) :> ICSale(s[2])
        [] OTHER         -> <<>>)

\* The import profile of the demo and a file for it.
DemoRules == <<[dim |-> "account", kind |-> "exact", src |-> "4100", target |-> "Sales"],
               [dim |-> "account", kind |-> "prefix", src |-> "5*", target |-> "COGS"],
               [dim |-> "entity", kind |-> "default", src |-> "*", target |-> US]>>
Column(n) == [col |-> n, fixed |-> ""]
DemoProfile ==
  [columns |-> "entity" :> Column(1) @@ "account" :> Column(2) @@ "time" :> Column(3)
               @@ "scenario" :> [col |-> 0, fixed |-> "Actual"],
   amountCol |-> 4, hasHeader |-> TRUE, rules |-> DemoRules]
SampleCSV == <<<<"entity", "account", "time", "amount">>,
               <<US, "4100", "2025M7", "1500">>, <<US, "5000", "2025M7", "870">>,
               <<"Canada", "4100", "2025M7", "720">>, <<"Canada", "5100", "2025M7", "445">>,
               <<"Germany", "4100", "2025M7", "980">>, <<"France", "5200", "2025M7", "300">>>>
=============================================================================
