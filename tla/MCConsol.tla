------------------------------ MODULE MCConsol ------------------------------
(* A group G that holds B and, through half of the sub-group S, A; an      *)
(* entity C, half owned, that comes, goes and moves; two chained formulas. *)
EXTENDS Consolidation, TLC

MCEnt  == "G" :> "" @@ "S" :> "G" @@ "A" :> "S" @@ "B" :> "G"
MCAcc  == "Bonus" :> "" @@ "Net" :> "" @@ "Sales" :> "Net" @@ "Tax" :> "Net"
\* Bonus reads Tax only through its ancestor Net.
MCExpr == "Bonus" :> [coef |-> "Net" :> 1, const |-> 0]
          @@ "Tax" :> [coef |-> "Sales" :> 2, const |-> 4]

MCWeight(a)  == IF a = "Tax" THEN -1 ELSE 1
MCPct(e)     == IF e \in {"S", "C"} THEN 50 ELSE 100
\* Tax is translated at a rate that is missing.
MCType(a)    == IF a = "Tax" THEN "Asset" ELSE "Revenue"
MCCurrency(e) == IF e = "A" THEN "EUR" ELSE "USD"

Jan      == <<"Actual", Month(2025, 1)>>
MCSlices == {Jan}
MCRates  == Jan :> (<<"EUR", "Average">> :> 2)

Sale(e, ic, v) == [slice |-> Jan, entity |-> e, value |-> v,
                   coord |-> [acct |-> "Sales", origin |-> "Forms", ic |-> ic]]
MCWrites == {Sale("A", "B", v) : v \in {0, 4}} \cup {Sale("B", "A", v) : v \in {0, 8}}
            \cup {Sale("A", None, 8), Sale("A", "S", 4), Sale("C", "A", 4)}
=============================================================================
