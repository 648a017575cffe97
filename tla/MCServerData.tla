---------------------------- MODULE MCServerData ----------------------------
(* Data entry, import, consolidation and workflow over fixed metadata: two *)
(* entities of a group and an account with a stored formula.  16 is out of *)
(* range: two rows of one cell, a formula over two cells, a translation,   *)
(* an elimination and a consolidation can each come to it.                 *)
EXTENDS Server, TLC

MCEnt  == "G" :> "" @@ "A" :> "G" @@ "B" :> "G"
MCAcc  == "Profit" :> "" @@ "Sales" :> "Profit" @@ "Tax" :> ""
MCTax  == [coef |-> "Profit" :> 1, const |-> 0]
MCExpr == "Tax" :> MCTax

MCWeight(a) == 1
MCPct(e)    == 100
MCType(a)   == "Revenue"
MCCurrency(e) == IF e = "B" THEN "EUR" ELSE ""

Jan     == <<"Actual", Month(2025, 1)>>
MCSlices == {Jan}
MCRates == Jan :> (<<"EUR", "Average">> :> 2)

Sale(o, ic) == [acct |-> "Sales", origin |-> o, ic |-> ic]
Partner(e) == IF e = "A" THEN "B" ELSE None
Entry(e, ic, v) == [slice |-> Jan, entity |-> e, coord |-> Sale("Forms", ic), value |-> v]
MCWrites == {Entry("A", "B", 8), Entry("A", "B", 0), Entry("A", None, 8), Entry("B", None, 4)}
MCRows   == {[slice |-> Jan, entity |-> e, acct |-> "Sales", ic |-> Partner(e), amount |-> 8] :
               e \in {"A", "B"}}
            \cup {[slice |-> Jan, entity |-> "A", acct |-> "Tax", ic |-> None, amount |-> 8]}
=============================================================================
