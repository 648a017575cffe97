---------------------------- MODULE DynamicCalc -----------------------------
(***************************************************************************)
(* How internal/cube answers the cells of one grid whose accounts are      *)
(* dynamic formulas: getCell evaluates a formula by calling itself for     *)
(* each reference, with a set of the cells in flight to detect cycles, a   *)
(* limit on the depth, and one evaluation context for the whole grid.      *)
(* The recursion is a stack here, one step per call and per return.        *)
(*                                                                         *)
(* The cells of a grid that can meet in one evaluation differ in their     *)
(* account alone, so an account stands for its cell.  A formula is 1 plus  *)
(* a sum of references, or an IF that tests a reference against 0 and      *)
(* evaluates the branch taken only; the references of a branch are read in *)
(* any order.  What a formula without DynamicCalc reads is one number.     *)
(***************************************************************************)
EXTENDS Integers, Sequences, FiniteSets, Functions

CONSTANTS Accounts,
          NoTest,       \* a formula that is no IF
          FormulaSets,  \* formulas of the dynamic accounts, a function
          Limits,       \* values of maxDynDepth
          MaxCells      \* bound: cells of the grid

ASSUME LimitsAssumption == /\ Limits \subseteq Nat \ {0} /\ MaxCells \in Nat
                           /\ NoTest \notin Accounts /\ IsFiniteSet(Accounts)

\* Formulas refer to accounts, and one that is no IF has no second branch.
ASSUME FormulasAssumption ==
  \A g \in FormulaSets :
    /\ DOMAIN g \subseteq Accounts
    /\ \A a \in DOMAIN g :
         /\ g[a].test \in Accounts \cup {NoTest}
         /\ g[a].then \subseteq Accounts /\ g[a].else \subseteq Accounts
         /\ g[a].test = NoTest => g[a].else = {}

VARIABLES
  formula,   \* Formula of the accounts with DynamicCalc
  limit,     \* maxDynDepth
  stack,     \* the evaluations in progress, the outermost first
  inFlight,  \* evalCtx.inFlight
  cycled,    \* evalCtx.cycled
  issues,    \* evalCtx.issues
  answers    \* the cells of the grid resolved so far

vars == <<formula, limit, stack, inFlight, cycled, issues, answers>>

Dynamic == DOMAIN formula
Stored  == 3

Init == /\ formula \in FormulaSets /\ limit \in Limits
        /\ stack = <<>> /\ inFlight = {} /\ cycled = {} /\ issues = {} /\ answers = <<>>

-----------------------------------------------------------------------------
Top    == stack[Len(stack)]
Under  == SubSeq(stack, 1, Len(stack) - 1)

\* An evaluation that starts: the test of an IF, or the references of a sum.
Frame(a) == [acct |-> a, test |-> formula[a].test, sum |-> 1,
             todo |-> IF formula[a].test = NoTest THEN formula[a].then ELSE {}]

\* The references frame f may call getCell for next.
Wanted(f) == IF f.test # NoTest THEN {f.test} ELSE f.todo

\* Frame f once getRef has returned v for reference r.
Told(f, r, v) ==
  IF f.test # NoTest
    THEN [acct |-> f.acct, test |-> NoTest, sum |-> f.sum,
          todo |-> IF v = 0 THEN formula[f.acct].then ELSE formula[f.acct].else]
    ELSE [acct |-> f.acct, test |-> NoTest, sum |-> f.sum + v, todo |-> f.todo \ {r}]

\* getCell returns v for account a to its caller, the frame on top of st, or
\* to Query.
Return(st, a, v) ==
  IF st = <<>>
    THEN /\ stack' = st
         /\ answers' = Append(answers, [acct |-> a, value |-> v])
    ELSE /\ stack' = [st EXCEPT ![Len(st)] = Told(@, a, v)]
         /\ UNCHANGED answers

\* The accounts getCell may be called for next: any cell of the grid, or a
\* reference of the formula in progress.
Called == IF stack # <<>> THEN Wanted(Top)
          ELSE IF Len(answers) < MaxCells THEN Accounts ELSE {}

\* ctx.depth is the number of evaluations below the present call.
TooDeepLate == Len(stack) > limit

TooDeep == Len(stack) >= limit

ReadStored(a) ==
  /\ a \notin Dynamic
  /\ Return(stack, a, Stored)
  /\ UNCHANGED <<formula, limit, inFlight, cycled, issues>>

Cycle(a) ==
  /\ a \in Dynamic /\ a \in inFlight
  /\ cycled' = cycled \cup {a}
  /\ issues' = issues \cup {<<"cycle", a>>}
  /\ Return(stack, a, 0)
  /\ UNCHANGED <<formula, limit, inFlight>>

CutOffSilently(a) ==
  /\ a \in Dynamic \ inFlight /\ TooDeep
  /\ Return(stack, a, 0)
  /\ UNCHANGED <<formula, limit, inFlight, cycled, issues>>

CutOff(a) ==
  /\ a \in Dynamic \ inFlight /\ TooDeep
  /\ issues' = issues \cup {<<"depth", a>>}
  /\ Return(stack, a, 0)
  /\ UNCHANGED <<formula, limit, inFlight, cycled>>

Evaluate(a) ==
  /\ a \in Dynamic \ inFlight /\ ~TooDeep
  /\ stack' = Append(stack, Frame(a))
  /\ inFlight' = inFlight \cup {a}
  /\ UNCHANGED <<formula, limit, cycled, issues, answers>>

\* What a finished formula yields: nothing, when it was found on a cycle.
YieldSum(f) == f.sum

Yield(f) == IF f.acct \in cycled THEN 0 ELSE f.sum

LeaveInFlight ==
  /\ stack # <<>> /\ Wanted(Top) = {}
  /\ Return(Under, Top.acct, Yield(Top))
  /\ UNCHANGED <<formula, limit, inFlight, cycled, issues>>

Leave ==
  /\ stack # <<>> /\ Wanted(Top) = {}
  /\ inFlight' = inFlight \ {Top.acct}
  /\ Return(Under, Top.acct, Yield(Top))
  /\ UNCHANGED <<formula, limit, cycled, issues>>

Next == \/ \E a \in Called : ReadStored(a) \/ Cycle(a) \/ CutOff(a) \/ Evaluate(a)
        \/ Leave

Spec == Init /\ [][Next]_vars

-----------------------------------------------------------------------------
(* The reference: what the formulas mean, evaluated without a context.     *)

\* The value of every account, formulas nested more than n deep being 0.
Meaning ==
  LET val[n \in 0 .. limit] ==
        IF n = 0 THEN [a \in Accounts |-> IF a \in Dynamic THEN 0 ELSE Stored]
        ELSE LET inner == val[n - 1]
                 of(a) == IF formula[a].test = NoTest \/ inner[formula[a].test] = 0
                            THEN formula[a].then ELSE formula[a].else
             IN  [a \in Accounts |-> IF a \in Dynamic
                                       THEN 1 + SumFunctionOnSet(inner, of(a))
                                       ELSE Stored]
  IN  val[limit]

Uses(a) == IF a \in Dynamic
             THEN (formula[a].then \cup formula[a].else \cup {formula[a].test}) \ {NoTest} ELSE {}

\* The accounts a formula can reach through references, the least set that
\* holds its own and those of its members.
Reaches(a) ==
  {b \in Accounts : \A S \in SUBSET Accounts :
                     Uses(a) \subseteq S /\ (\A x \in S : Uses(x) \subseteq S) => b \in S}

Cyclic == {a \in Accounts : a \in Reaches(a)}

\* The value of every account of a set of sums no longer than the limit when a
\* cell on a cycle is worth 0.
CycleMeaning ==
  LET val[n \in 0 .. Cardinality(Accounts)] ==
        IF n = 0 THEN [a \in Accounts |-> 0]
        ELSE LET inner == val[n - 1]
             IN  [a \in Accounts |->
                    IF a \notin Dynamic THEN Stored
                    ELSE IF a \in Cyclic THEN 0
                    ELSE 1 + SumFunctionOnSet(inner, formula[a].then)]
  IN  val[Cardinality(Accounts)]

SumsOnly == \A a \in Dynamic : formula[a].test = NoTest

-----------------------------------------------------------------------------
(* The recursion never nests deeper than the limit, and the cells in       *)
(* flight are those on the stack, each once.                               *)
TypeOK ==
  /\ Len(stack) <= limit
  /\ inFlight = {stack[i].acct : i \in DOMAIN stack}
  /\ Cardinality(inFlight) = Len(stack)
  /\ cycled \subseteq Dynamic
  /\ Len(answers) <= MaxCells

(* A cell whose formulas lead to no cycle has the value the formulas mean, *)
(* cut off at the limit, whatever cyclic cells the grid resolved before it *)
(* and however often it refers to the same account.                        *)
AcyclicIsExact ==
  \A i \in DOMAIN answers :
    LET a == answers[i].acct
    IN  (Reaches(a) \cup {a}) \cap Cyclic = {} => answers[i].value = Meaning[a]

(* SPEC.md section 4: a cell on a cycle yields 0, and one that refers to   *)
(* it reads 0 there and nothing of what the cycle's formulas came to while *)
(* they were evaluated, in whatever order the grid resolves its cells.     *)
CyclesYieldZero ==
  SumsOnly /\ Cardinality(Dynamic) <= limit =>
    \A i \in DOMAIN answers : answers[i].value = CycleMeaning[answers[i].acct]

(* A grid without an issue shows exact values: neither a cycle nor the     *)
(* limit ever changes a cell and says nothing.                             *)
SilentIsExact ==
  issues = {} /\ stack = <<>> =>
    \A i \in DOMAIN answers :
      LET a == answers[i].acct
      IN  /\ answers[i].value = Meaning[a]
          /\ SumsOnly => a \notin Cyclic
=============================================================================
