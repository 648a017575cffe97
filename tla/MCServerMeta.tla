---------------------------- MODULE MCServerMeta ----------------------------
(* Metadata edits under data: members of every editable dimension come, go *)
(* and move while cells, derived stages and workflow entries refer to them. *)
EXTENDS Server, TLC

MCEnt  == "A" :> "B" @@ "B" :> ""
MCAcc  == "Profit" :> "" @@ "Sales" :> "Profit"
NoFormulas == [a \in {} |-> 0]
MCExprs == {[coef |-> "Sales" :> 1, const |-> 0]}

MCWeight(a)  == 1
MCPct(e)     == 100
MCType(a)    == ""
MCCurrency(e) == "USD"

Jan      == <<"Actual", Month(2025, 1)>>
MCSlices == {Jan}
NoRates  == Jan :> [r \in {} |-> 0]

MCWrites == {[slice |-> Jan, entity |-> "A", value |-> v,
              coord |-> [acct |-> "Sales", origin |-> "Forms", ic |-> "B"]] : v \in {0, 4}}
=============================================================================
