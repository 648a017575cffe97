------------------------------- MODULE Parser -------------------------------
(***************************************************************************)
(* The recursive-descent parser of internal/calc, over tokens.  What a     *)
(* parse function returns depends on the place it starts at alone, and it  *)
(* calls others for later places, or a tighter one for the same place: so  *)
(* the results are a table, filled from the last place to the first.       *)
(* A result holds the trees parsed so far and the place after them, 0 for  *)
(* an error.  Error texts are left out.                                    *)
(***************************************************************************)
EXTENDS Naturals, Sequences

CONSTANTS Accounts,  \* accounts a token may refer to
          Numbers    \* numeric literals

Funcs == {"ABS", "MIN", "MAX", "IF"}
Cmps  == {"<", "<=", ">", ">=", "==", "!="}
\* Binary operators, the loosest first.
Levels == <<{"+", "-"}, {"*", "/"}>>

End   == "end of expression"   \* read behind the last token

Operators   == Levels[1] \cup Levels[2] \cup {"neg"}
Punctuation == {"(", ")", ",", "", End}

\* A token has one kind.
ASSUME TokensAssumption ==
  /\ Accounts \cap Numbers = {}
  /\ (Accounts \cup Numbers) \cap (Funcs \cup Cmps \cup Operators \cup Punctuation) = {}

\* A tree is a function from the way to a node, which argument to take at
\* each node above it, to the node's token.
Node(op, args) ==
  [way \in {<<>>} \cup UNION {{<<i>> \o w : w \in DOMAIN args[i]} : i \in DOMAIN args} |->
     IF way = <<>> THEN op ELSE args[Head(way)][Tail(way)]]

Leaf(tok)   == Node(tok, <<>>)
NotAFormula == Leaf("")

\* collectRefs.
RefsOfBranches(t) ==
  {t[way] : way \in {w \in DOMAIN t : \A n \in 0 .. Len(w) : t[SubSeq(w, 1, n)] \notin Cmps}} \cap Accounts

Refs(t) == {t[way] : way \in DOMAIN t} \cap Accounts

-----------------------------------------------------------------------------
Done(trees, at) == [trees |-> trees, at |-> at]
Error           == Done(<<>>, 0)
Failed(r)       == r.at = 0

Peek(s, i) == IF i \in DOMAIN s THEN s[i] ELSE End

Skip(r)           == Done(r.trees, r.at + 1)
Expect(s, r, tok) == IF Peek(s, r.at) = tok THEN Skip(r) ELSE Error

\* The trees of r become the arguments of one node.
Made(op, r) == IF Failed(r) THEN Error ELSE Done(<<Node(op, r.trees)>>, r.at)

\* r and what parseExpr (1), parseTerm (2) or parseFactor (3) makes behind
\* it, as the table p says.
Operand(n, p, r) ==
  LET e == p[r.at][n]
  IN  IF Failed(e) THEN Error ELSE Done(r.trees \o e.trees, e.at)

\* One turn of parseCall's loop over arguments, and the loop, which has no
\* more turns than there are tokens.
OneMore(s, p, r) == IF Peek(s, r.at) = "," THEN Operand(1, p, Skip(r)) ELSE r

More(s, p, first) ==
  LET turn[k \in 0 .. Len(s)] == IF k = 0 THEN first ELSE OneMore(s, p, turn[k - 1])
  IN  turn[Len(s)]

\* parseCond: two expressions with a comparison between them.
Cond(s, p, r) ==
  LET left == Operand(1, p, r)
      op   == Peek(s, left.at)
  IN  IF op \in Cmps THEN Made(op, Operand(1, p, Skip(left))) ELSE Error

\* parseCall: the function's name stands before i.
Call(s, p, f, i) ==
  LET open == Expect(s, Done(<<>>, i), "(")
      args == IF f = "IF"
                THEN Operand(1, p, Expect(s, Operand(1, p, Expect(s, Cond(s, p, open), ",")), ","))
                ELSE More(s, p, Operand(1, p, open))
  IN  IF f = "ABS" /\ Len(args.trees) # 1 THEN Error ELSE Made(f, Expect(s, args, ")"))

Factor(s, p, i) ==
  LET t      == Peek(s, i)
      behind == Done(<<>>, i + 1)
  IN  CASE t = "-"                     -> Made("neg", Operand(3, p, behind))
        [] t \in Numbers \cup Accounts -> Done(<<Leaf(t)>>, i + 1)
        [] t = "("                     -> Expect(s, Operand(1, p, behind), ")")
        [] t \in Funcs                 -> Call(s, p, t, i + 1)
        [] OTHER                       -> Error

\* One turn of the loops of parseExpr and parseTerm.
OneTurnToRight(n, s, p, r) ==
  IF Peek(s, r.at) \in Levels[n] THEN Made(s[r.at], Operand(n, p, Skip(r))) ELSE r

OneTurn(n, s, p, r) ==
  IF Peek(s, r.at) \in Levels[n] THEN Made(s[r.at], Operand(n + 1, p, Skip(r))) ELSE r

\* The loops, after their first operand.
Rest(n, s, p, left) ==
  LET turn[k \in 0 .. Len(s)] == IF k = 0 THEN left ELSE OneTurn(n, s, p, turn[k - 1])
  IN  turn[Len(s)]

\* What parseExpr, parseTerm and parseFactor return at place i.
ResultsAt(s, p, i) ==
  LET factor == Factor(s, p, i)
      term   == Rest(2, s, p, factor)
  IN  <<Rest(1, s, p, term), term, factor>>

\* The table of the places of s and its end.
ParseTable(s) ==
  LET from[i \in 1 .. Len(s) + 2] ==
        IF i = Len(s) + 2 THEN [j \in 0 .. Len(s) + 1 |-> <<Error, Error, Error>>]
        ELSE LET p == from[i + 1] IN [p EXCEPT ![i] = ResultsAt(s, p, i)]
  IN  from[1]

Parse(s) == LET e == ParseTable(s)[1][1] IN IF e.at = Len(s) + 1 THEN e.trees[1] ELSE NotAFormula

-----------------------------------------------------------------------------
(* The grammar in the comment of Parse: d[<<n, i, j>>] are the lists of    *)
(* trees that it derives from the tokens i to j, split wherever they can   *)
(* be: for n = 0 the argument lists, for 1, 2, 3 those of the one tree of  *)
(* an expr, a term or a factor.                                            *)
Join(A, B)        == {a \o b : a \in A, b \in B}
NodeOf(op, lists) == {<<Node(op, l)>> : l \in lists}
Where(s, S, i, j) == {k \in i .. j : s[k] \in S}

\* A node of two operands, of an operator out of S between them.
Binary(s, d, S, n, i, j, m) ==
  UNION {NodeOf(s[k], Join(d[<<n, i, k - 1>>], d[<<m, k + 1, j>>])) : k \in Where(s, S, i, j)}

ListsOf(s, d, i, j) ==
  d[<<1, i, j>>] \cup UNION {Join(d[<<0, i, k - 1>>], d[<<1, k + 1, j>>]) : k \in Where(s, {","}, i, j)}

ArgsOf(f, s, d, i, j) ==
  CASE f = "ABS" -> d[<<1, i, j>>]
    [] f = "IF"  -> UNION {Join(Binary(s, d, Cmps, 1, i, k - 1, 1), {l \in d[<<0, k + 1, j>>] : Len(l) = 2}) :
                             k \in Where(s, {","}, i, j)}
    [] OTHER     -> d[<<0, i, j>>]

FactorsOf(s, d, i, j) ==
  CASE s[i] \in Numbers \cup Accounts -> IF i = j THEN {<<Leaf(s[i])>>} ELSE {}
    [] s[i] = "-"                     -> NodeOf("neg", d[<<3, i + 1, j>>])
    [] s[i] = "(" /\ s[j] = ")"       -> d[<<1, i + 1, j - 1>>]
    [] s[i] \in Funcs /\ i + 1 < j /\ s[i + 1] = "(" /\ s[j] = ")"
                                      -> NodeOf(s[i], ArgsOf(s[i], s, d, i + 2, j - 1))
    [] OTHER                          -> {}

Line(s, d, n, i, j) ==
  IF i > j THEN {}
  ELSE CASE n = 0  -> ListsOf(s, d, i, j)
         [] n = 3  -> FactorsOf(s, d, i, j)
         [] OTHER  -> d[<<n + 1, i, j>>] \cup Binary(s, d, Levels[n], n, i, j, n + 1)

Spans(s) == (0 .. 3) \X (1 .. Len(s) + 2) \X (0 .. Len(s))

Derived(s) ==
  LET d[x \in Spans(s)] == Line(s, d, x[1], x[2], x[3])
  IN  {l[1] : l \in d[<<1, 1, Len(s)>>]}
=============================================================================
