------------------------------ MODULE Staging -------------------------------
(***************************************************************************)
(* The import pipeline of internal/stage and internal/server/imports.go:   *)
(* profiles with transformation rules, the transformation of a file, its   *)
(* preview and its commit into the units of module Server.                 *)
(*                                                                         *)
(* A file is a sequence of records, a record a sequence of texts; the      *)
(* empty record stands for a line the CSV reader reports as broken.  Texts *)
(* are opaque: the constants below answer what the code asks of them.      *)
(***************************************************************************)
EXTENDS Server, SequencesExt

CONSTANTS ProfileNames,
          ProfileTexts,     \* profiles a client may send
          RuleLists,        \* lists of rules the precedence is checked for
          Files,            \* files a client may upload
          RowLimit,         \* maxImportRows
          Stem(_),          \* a text without a trailing "*"
          HasPrefix(_, _),  \* the first text starts with the second
          Length(_),        \* length of a text
          Amounts           \* the amounts of the texts that parse to one

\* A file is a sequence of records, and amounts are integers.
ASSUME FilesAssumption == /\ \A file \in Files : file \in Seq(Seq(STRING))
                          /\ \A x \in DOMAIN Amounts : Amounts[x] \in Int

RulesInUse == RuleLists \cup {p.rules : p \in ProfileTexts}
RawTexts   == UNION {Range(rec) : rec \in UNION {Range(f) : f \in Files}}

\* Rules come in lists, and a text is at least as long as its prefixes.
ASSUME TextsAssumption ==
  \A rules \in RulesInUse :
    /\ rules \in Seq(Range(rules))
    /\ \A raw \in RawTexts, i \in DOMAIN rules :
         /\ Length(raw) \in Nat /\ Length(Stem(rules[i].src)) \in Nat
         /\ HasPrefix(raw, Stem(rules[i].src)) => Length(Stem(rules[i].src)) <= Length(raw)

VARIABLES profiles,  \* profile name -> profile
          loaded     \* history: unit -> the Import cells clients meant it to hold

stagingVars == <<vars, profiles, loaded>>

Dims         == {"entity", "account", "scenario", "time", "ic"}
RequiredDims == Dims \ {"ic"}

-----------------------------------------------------------------------------
(* Rules.                                                                  *)

\* indexRules: the kind a rule leaves open follows from its source.
Kind(r) ==
  CASE r.kind # ""         -> r.kind
    [] r.src = "*"         -> "default"
    [] Stem(r.src) # r.src -> "prefix"
    [] OTHER               -> "exact"

\* The positions of the rules of dimension d and of a kind; a later exact rule
\* of the same source, or a later default, replaces an earlier one.
RulesOf(rules, d, kind) == {i \in DOMAIN rules : rules[i].dim = d /\ Kind(rules[i]) = kind}
LatestOf(S)             == CHOOSE i \in S : \A j \in S : j <= i

\* applyRules: the prefixes are tried in their order, a later one replacing
\* one that is no longer; 0 while none has matched.
StemLength(r) == Length(Stem(r.src))

BestPrefixFirst(rules, d, raw) ==
  LET fits == {i \in RulesOf(rules, d, "prefix") : HasPrefix(raw, Stem(rules[i].src))}
      best[n \in 0 .. Len(rules)] ==
        IF n = 0 THEN 0
        ELSE IF n \in fits /\ (best[n - 1] = 0 \/ StemLength(rules[n]) > StemLength(rules[best[n - 1]]))
        THEN n ELSE best[n - 1]
  IN  best[Len(rules)]

BestPrefix(rules, d, raw) ==
  LET fits == {i \in RulesOf(rules, d, "prefix") : HasPrefix(raw, Stem(rules[i].src))}
      best[n \in 0 .. Len(rules)] ==
        IF n = 0 THEN 0
        ELSE IF n \in fits /\ (best[n - 1] = 0 \/ StemLength(rules[n]) >= StemLength(rules[best[n - 1]]))
        THEN n ELSE best[n - 1]
  IN  best[Len(rules)]

ApplyRules(rules, d, raw) ==
  LET exact    == {i \in RulesOf(rules, d, "exact") : rules[i].src = raw}
      best     == BestPrefix(rules, d, raw)
      defaults == RulesOf(rules, d, "default")
  IN  IF exact # {}         THEN rules[LatestOf(exact)].target
      ELSE IF best # 0      THEN rules[best].target
      ELSE IF defaults # {} THEN rules[LatestOf(defaults)].target
      ELSE raw

-----------------------------------------------------------------------------
(* Transform.                                                              *)

\* Structural problems of a profile make Transform return an error.
Transformable(p) ==
  /\ p.amountCol >= 1
  /\ RequiredDims \subseteq DOMAIN p.columns
  /\ \A i \in DOMAIN p.rules : Kind(p.rules[i]) \in {"exact", "prefix", "default"}

\* rawValue
Missing(p, d, rec)  == d \in DOMAIN p.columns /\ p.columns[d].col > Len(rec)
RawValue(p, d, rec) ==
  CASE d \notin DOMAIN p.columns -> None
    [] p.columns[d].col < 1      -> p.columns[d].fixed
    [] Missing(p, d, rec)        -> ""
    [] OTHER                     -> rec[p.columns[d].col]

AmountText(p, rec) == IF p.amountCol > Len(rec) THEN "" ELSE rec[p.amountCol]

\* transformRecord; a row with an issue of its own is not loadable.
Row(p, rec) ==
  LET mapped == [d \in Dims |-> ApplyRules(p.rules, d, RawValue(p, d, rec))]
  IN  [slice  |-> <<mapped["scenario"], mapped["time"]>>, entity |-> mapped["entity"],
       acct   |-> mapped["account"], ic |-> mapped["ic"],
       amount |-> IF AmountText(p, rec) \in DOMAIN Amounts THEN Amounts[AmountText(p, rec)] ELSE 0,
       flagged |-> \/ \E d \in Dims : Missing(p, d, rec)
                   \/ AmountText(p, rec) \notin DOMAIN Amounts]

\* Transform: the header is the first record, broken or not; a broken one is
\* an issue of the file and no row.  Rows keep the number of their record.
Transform(p, file) ==
  LET body == {i \in DOMAIN file : file[i] # <<>> /\ (p.hasHeader => i > 1)}
  IN  [i \in body |-> Row(p, file[i])]

\* transformImport: a file with too many rows is refused.
Accepted(p, file) == Transformable(p) /\ Cardinality(DOMAIN Transform(p, file)) <= RowLimit

\* The rows Transform has nothing against.  Validate, which flags others, is
\* CleanRows of module Server.
Unflagged(p, file) ==
  LET rows == Strict(Transform(p, file))
  IN  Restricted(rows, {i \in DOMAIN rows : ~rows[i].flagged})

-----------------------------------------------------------------------------
(* Requests.                                                               *)
WithProfile(n, p) == [m \in DOMAIN profiles \cup {n} |-> IF m = n THEN p ELSE profiles[m]]

\* handleProfilesPost, handleProfilePut, handleProfileDelete
ProfilePost(n, p) ==
  n \notin DOMAIN profiles /\ profiles' = WithProfile(n, p) /\ UNCHANGED <<vars, loaded>>
ProfilePut(n, p) ==
  profiles' = WithProfile(n, p) /\ UNCHANGED <<vars, loaded>>
ProfileDelete(n) ==
  /\ n \in DOMAIN profiles /\ profiles' = Restricted(profiles, DOMAIN profiles \ {n})
  /\ UNCHANGED <<vars, loaded>>

\* What the clean rows say of a unit: its Import cells, were it empty.
Meant(rows, u) ==
  LET own == {i \in CleanRows(rows) : RowUnit(rows[i]) = u}
  IN  Keep([c \in {ImportCoord(rows[i]) : i \in own} |->
              SumFunction([i \in {j \in own : ImportCoord(rows[j]) = c} |-> rows[i].amount])])

\* handleImportCommit: transforms and validates afresh, whatever the preview
\* (which does the same under the read lock, and no more) has shown.
Commit(n, file) ==
  /\ n \in DOMAIN profiles /\ Accepted(profiles[n], file)
  /\ LET rows == Unflagged(profiles[n], file)
     IN  /\ ImportCommit(rows)
         /\ loaded' = [u \in UnitKeys |->
                         IF \E i \in CleanRows(rows) : RowUnit(rows[i]) = u
                         THEN Meant(rows, u) ELSE loaded[u]]
  /\ UNCHANGED profiles

ImportCells(m) == [c \in {x \in DOMAIN m : x.origin = "Import"} |-> m[c]]

\* Any other request to the server.  validateWrite takes Import for an origin
\* like any other of a user's: what a client writes there counts as imported.
OtherRequest ==
  /\ \/ \E batch \in Lists(Writes, MaxBatch) :
          /\ DataCells(batch)
          /\ loaded' = [u \in UnitKeys |-> ImportCells(Overwritten(loaded[u], batch, u))]
     \/ /\ FlowStep \/ EntityStep \/ AccountStep \/ FormulaStep \/ ScenarioStep \/ RatesStep
        /\ UNCHANGED loaded
  /\ UNCHANGED profiles

StagingInit == /\ Init /\ profiles \in [ProfileNames -> ProfileTexts]
               /\ loaded = [u \in UnitKeys |-> Empty]

StagingNext ==
  \/ \E n \in ProfileNames, p \in ProfileTexts : ProfilePost(n, p) \/ ProfilePut(n, p)
  \/ \E n \in ProfileNames : ProfileDelete(n)
  \/ \E n \in ProfileNames, file \in Files : Commit(n, file)
  \/ OtherRequest

StagingSpec == StagingInit /\ [][StagingNext]_stagingVars

-----------------------------------------------------------------------------
\* How closely a rule fits a raw value: not at all, as the default, by a
\* prefix of some length, or exactly.
Fit(r, d, raw) ==
  IF r.dim # d                                              THEN -2
  ELSE IF Kind(r) = "exact" /\ r.src = raw                  THEN Length(raw) + 1
  ELSE IF Kind(r) = "prefix" /\ HasPrefix(raw, Stem(r.src)) THEN StemLength(r)
  ELSE IF Kind(r) = "default"                               THEN -1
  ELSE -2

ClosestWins(rules) ==
  \A d \in Dims, raw \in RawTexts :
    LET fit(i)  == Fit(rules[i], d, raw)
        closest == {i \in DOMAIN rules : fit(i) > -2 /\ \A j \in DOMAIN rules :
                      fit(j) < fit(i) \/ (fit(j) = fit(i) /\ j <= i)}
    IN  ApplyRules(rules, d, raw)
          = IF closest = {} THEN raw ELSE rules[CHOOSE i \in closest : TRUE].target

ClosestWinsInAll == \A rules \in RuleLists : ClosestWins(rules)

(* SPEC.md section 7: an exact rule wins, then the longest prefix, then    *)
(* the default, and a value no rule fits passes through.  The code indexes *)
(* and searches the rules by kind; whatever their order in the profile,    *)
(* the closest fit is taken, of equally close ones the last.               *)
RulePrecedence ==
  ClosestWinsInAll /\ \A n \in DOMAIN profiles : ClosestWins(profiles[n].rules)

(* Import cells mirror the last commit that had a clean row for the unit   *)
(* and the cells clients have since written there: nothing of an earlier   *)
(* file is left, duplicate rows are summed, rows that cancel out leave no  *)
(* cell, and no other request of the server, a consolidation or an edit of *)
(* the metadata, touches them.                                             *)
ImportMirrorsLastCommit ==
  \A u \in UnitKeys : ImportCells(units[u[1]][u[2]]["Input"]) = loaded[u]
=============================================================================
