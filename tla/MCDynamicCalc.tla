--------------------------- MODULE MCDynamicCalc ----------------------------
(* Every set of formulas over three accounts with up to two references     *)
(* each, and every one in which the first account is an IF: cycles of      *)
(* every length, diamonds, and chains longer than the smaller limit.       *)
EXTENDS DynamicCalc

Small  == {S \in SUBSET Accounts : Cardinality(S) <= 2}
Single == {S \in SUBSET Accounts : Cardinality(S) <= 1}
Sums   == [test : {NoTest}, then : Small, else : {{}}]
Ifs    == {f \in [test : Accounts, then : Single, else : Single] : f.then # f.else}

MCFormulaSets ==
  UNION {[D -> Sums] : D \in SUBSET Accounts}
  \cup UNION {{g \in [Accounts -> Sums \cup Ifs] :
                 \A b \in Accounts : g[b] \in Ifs <=> b = a} : a \in {CHOOSE b \in Accounts : TRUE}}
=============================================================================
