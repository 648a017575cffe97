------------------------------ MODULE MCQuery -------------------------------
(* The demo in three months of a year: two of one quarter, the first of the *)
(* next.  Clients change a cell, a rate, the place of a partly owned entity *)
(* and the formula of an account, and consolidate a month or leave it.      *)
EXTENDS Seed

Feb == <<"Actual", Month(2025, 2)>>
Mar == <<"Actual", Month(2025, 3)>>
MCSlices == {"Actual"} \X {Month(2025, m) : m \in {2, 3, 4}}
MCRates  == [s \in MCSlices |-> DemoRates(s[2])]
MCRateLists == {<<"EUR", "Average">> :> 9}

\* Sales, which holds the demo's cells, has been given a child, and one that is
\* a balance below a flow.
MCAcc     == DemoAcc @@ "Online" :> "Sales"
MCType(a) == IF a = "Online" THEN "Asset" ELSE DemoType(a)

MCWrites == {[slice |-> Mar, entity |-> "France", value |-> -10,
              coord |-> [acct |-> a, origin |-> "Forms", ic |-> None]] : a \in {"Online", "Rent"}}
MCExprs  == {[coef |-> "NetIncome" :> 1 @@ "OpEx" :> 2, const |-> 0]}

MCEntities == DOMAIN DemoEnt
MCAccounts == DOMAIN MCAcc

POV == [entity |-> Inc, scenario |-> "Actual", time |-> Quarter(2025, 1), view |-> "Periodic",
        stage |-> "Consolidated", account |-> "NetIncome", origin |-> "", ic |-> ""]
MCPoints == {[POV EXCEPT !.entity = e, !.account = a] : e \in {Inc, US},
                a \in {"NetIncome", "BalanceSheet", "Sales", "Cash"}}
            \cup {[POV EXCEPT !.view = "YTD", !.origin = "Import", !.entity = "Europe"],
                  [POV EXCEPT !.stage = "Local", !.ic = "Germany", !.entity = US, !.account = "Sales"]}

Axis(d, x, how) == <<[dim |-> d, member |-> x, expand |-> how]>>
Grid(outer, inner, cols) == [pov |-> POV, rows |-> <<outer, inner>>, cols |-> <<cols>>]
MCGrids == {Grid(Axis("entity", Inc, "children"), Axis("account", "NetIncome", "tree"),
                 Axis("time", Quarter(2025, 1), "children")),
            Grid(Axis("account", "BalanceSheet", "children"),
                 Axis("account", "NetIncome", "leaves") \o Axis("account", "Sales", "tree"),
                 Axis("stage", "Consolidated", "member") \o Axis("stage", "Local", "tree")),
            Grid(Axis("ic", None, "leaves") \o Axis("ic", "Europe", "tree"),
                 Axis("account", "Sales", "member"), Axis("account", "COGS", "member"))}
=============================================================================
