----------------------------- MODULE MCStaging ------------------------------
(* The demo's profile over two of its entities, a file that replaces the    *)
(* sample with every kind of fault in it, and the requests of other clients *)
(* around the commits.                                                      *)
EXTENDS Staging, Demo
LOCAL INSTANCE Functions

Jul      == <<"Actual", "2025M7">>
MCSlices == {Jul}
MCEnt    == Inc :> "" @@ US :> Inc @@ "Canada" :> Inc
MCAcc    == "Sales" :> "" @@ "COGS" :> "" @@ "GrossProfit" :> ""
NoRates  == Jul :> [r \in {} |-> 0]
MCExprs  == {[coef |-> "Sales" :> 1, const |-> 0]}

\* A client writes over what was imported.
MCWrites == {[slice |-> Jul, entity |-> US, value |-> 7,
              coord |-> [acct |-> "Sales", origin |-> "Import", ic |-> None]]}

\* "5*" without its star is "5"; the prefixes of a code are its beginnings.
MCStem(x)         == CASE x = "5*" -> "5" [] x = "51*" -> "51" [] x = "*" -> "" [] OTHER -> x
MCHasPrefix(x, p) == \/ p = "" \/ x = p
                     \/ p = "5"  /\ x \in {"5000", "5100", "5200"}
                     \/ p = "51" /\ x = "5100"
MCLength(x)       == CASE x = "" -> 0 [] x = "5" -> 1 [] x = "51" -> 2 [] OTHER -> 6
MCAmounts         == "1500" :> 15 @@ "870" :> 9 @@ "720" :> 7 @@ "445" :> 4 @@ "980" :> 10
                     @@ "300" :> 3 @@ "-720" :> -7

Acct(src, target) == [dim |-> "account", kind |-> "", src |-> src, target |-> target]
MoreRules == {Acct("5*", "Sales"), Acct("51*", "Sales"), Acct("5100", "COGS"),
              Acct("*", "GrossProfit"), Acct("4100", "COGS")} \cup Range(DemoRules)
MCRuleLists == Lists(MoreRules, 3)

\* The demo's profile, one that lets entities pass through, and one the
\* transformation refuses.
Passing    == [DemoProfile EXCEPT !.rules = SubSeq(@, 1, 2)]
MCProfiles == {DemoProfile, Passing, [DemoProfile EXCEPT !.amountCol = 0]}

\* Next to the sample: rows that cancel out, a broken record, a short one, a
\* text for an amount, a year for a month, an unknown account.
Line(e, a, n) == <<e, a, "2025M7", n>>
Correction == <<<<"header">>, Line("Canada", "4100", "720"), <<>>, Line("Canada", "4100", "-720"),
                Line("Canada", "5100", "445"), <<US, "4100">>, Line(US, "4100", "n/a"),
                <<US, "4100", "2025", "300">>, Line(US, "9999", "300")>>
MCFiles    == {SampleCSV, Correction}
=============================================================================
