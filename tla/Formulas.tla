------------------------------ MODULE Formulas ------------------------------
(***************************************************************************)
(* The way of a stored formula from the text a user types to the place it  *)
(* is evaluated at: the text is lexed and parsed when it is saved          *)
(* (handleFormulaPut), parsed again at every consolidation, its references *)
(* are expanded to the formulas below them (runStoredCalcs) and the        *)
(* formulas sorted (TopoSort), or the consolidation is refused.            *)
(*                                                                         *)
(* A text is a sequence of tokens, a reference the account it names; how   *)
(* tokens are spelled is needed for the lexer alone.  The formulas here    *)
(* are stored ones: a dynamic one is not sorted (see Server, DynamicCalc). *)
(***************************************************************************)
EXTENDS Parser, TopoSort, SequencesExt
T == INSTANCE Trees

CONSTANTS AccountTree,  \* account -> its parent
          AccountName,  \* account -> its name, characters
          Spelling,     \* every other token -> its characters
          Letters, Digits,
          OtherNames,   \* texts an account might be named
          FirstTexts,   \* texts the user starts from
          FirstStored,  \* formulas at the start: account -> text
          Vocabulary,   \* tokens the user types
          MaxEdits,     \* bound: tokens typed, removed or replaced
          MaxLength     \* bound: tokens of a text edited more than once

L == INSTANCE Lexer

IsText(s) == s \in Seq(Listed(s))

\* What is sorted are accounts, and formulas stored earlier were parsed then.
ASSUME FormulasAssumption ==
  /\ Accounts \subseteq Nodes
  /\ \A s \in FirstTexts : IsText(s)
  /\ \A stored \in FirstStored : \A a \in DOMAIN stored :
       a \in Accounts /\ IsText(stored[a]) /\ Parse(stored[a]) # NotAFormula

\* The characters of words separate nothing, and spell words.
Signs == {"+", "-", "*", "/", "(", ")", ",", "<", ">"}

ASSUME SpellingAssumption ==
  /\ "A" \in Letters /\ Letters \cap Digits = {}
  /\ L!Alnum \cap (Signs \cup {"=", "!", "#", " ", ".", "_", ""}) = {}
  /\ \A t \in Numbers : Spelling[t] \in Seq(Digits) \ {<<>>}
  /\ \A t \in Funcs : Spelling[t] \in Seq(Letters) \ {<<>>}
  /\ \A t \in Signs : Spelling[t] = <<t>>
  /\ Spelling["<="] = <<"<", "=">> /\ Spelling[">="] = <<">", "=">>
  /\ Spelling["=="] = <<"=", "=">> /\ Spelling["!="] = <<"!", "=">>

\* AddMember takes no other names.
ASSUME NamesAssumption ==
  /\ DOMAIN AccountName = Accounts
  /\ \A a \in Accounts : IsText(AccountName[a]) /\ L!ValidMemberName(AccountName[a])
  /\ \A n \in OtherNames : IsText(n)

VARIABLES
  draft,  \* the text in the formula editor
  edits,  \* edits of it so far
  texts   \* Formula of each account with a stored formula

vars == <<draft, edits, texts, sortVars>>

Init == /\ draft \in FirstTexts /\ edits = 0
        /\ texts \in FirstStored
        /\ SortInit

\* One edit in the browser.
Inserted == {InsertAt(draft, i, t) : i \in 1 .. Len(draft) + 1, t \in Vocabulary}
Removed  == {RemoveAt(draft, i) : i \in DOMAIN draft}
Replaced == {[draft EXCEPT ![i] = t] : i \in DOMAIN draft, t \in Vocabulary}

Edit == /\ stage = "idle" /\ edits < MaxEdits /\ (edits = 0 \/ Len(draft) <= MaxLength)
        /\ draft' \in Inserted \cup Removed \cup Replaced
        /\ edits' = edits + 1
        /\ UNCHANGED <<texts, sortVars>>

\* handleFormulaPut, with Dynamic unset.
PutFormula(a) ==
  /\ stage = "idle" /\ draft # <<>>
  /\ Parse(draft) # NotAFormula /\ T!IsLeaf(AccountTree, a)
  /\ texts' = [b \in DOMAIN texts \cup {a} |-> IF b = a THEN draft ELSE texts[b]]
  /\ UNCHANGED <<draft, edits, sortVars>>

ClearFormula(a) ==
  /\ stage = "idle" /\ draft = <<>>
  /\ texts' = [b \in DOMAIN texts \ {a} |-> texts[b]]
  /\ UNCHANGED <<draft, edits, sortVars>>

\* An account the tree does not know is still below itself.
Below(a) == {a} \cup T!Subtree(AccountTree, a)

\* runStoredCalcs: every formula account below a reference.
Deps(a) == {f \in DOMAIN texts : \E r \in Refs(Parse(texts[a])) : f \in Below(r)}

RunStoredCalcs == /\ Start([a \in DOMAIN texts |-> Deps(a)])
                  /\ UNCHANGED <<draft, edits, texts>>

Sort == (SortStep \/ Return) /\ UNCHANGED <<draft, edits, texts>>

Next == \/ Edit
        \/ \E a \in Accounts : PutFormula(a) \/ ClearFormula(a)
        \/ RunStoredCalcs
        \/ Sort

Spec == Init /\ [][Next]_vars

-----------------------------------------------------------------------------
(* SPEC.md section 6: the parser accepts what the grammar derives and      *)
(* nothing else, and builds its tree, of which there is one: operators of  *)
(* one level group to the left, a comparison is the test of an IF.         *)
ParsesTheGrammar ==
  stage = "idle" => Derived(draft) = {Parse(draft)} \ {NotAFormula}

\* The tokens of s as characters, sep behind each, the accounts named by
\* names.
Word(names, t) == IF t \in Accounts THEN <<"A", "#">> \o names[t] ELSE Spelling[t]

Written(s, names, sep) == FlattenSeq([i \in DOMAIN s |-> Word(names, s[i]) \o sep])

IsRead(s, names, sep) ==
  LET read == L!Lex(Written(s, names, sep))
  IN  /\ Len(read) = Len(s)
      /\ \A i \in DOMAIN s :
           /\ read[i].text = IF s[i] \in Accounts THEN names[s[i]] ELSE Spelling[s[i]]
           /\ (read[i].kind = "ref") = (s[i] \in Accounts)

\* A minus that touches a reference before it and no reference behind it is
\* part of the name.
Hyphenated(s) == \E i \in 1 .. Len(s) - 2 :
  s[i] \in Accounts /\ s[i + 1] = "-" /\ s[i + 2] \notin Accounts \cup {"(", "-"}

\* No account that s refers to has a name with two hyphens in a row.
Readable(s, names) == \A i \in DOMAIN s : s[i] \in Accounts => L!HyphensApart(names[s[i]])

(* dims.go:73-79: a legal member name round-trips as a reference.  In every *)
(* formula, whatever the accounts are named, the lexer reads the tokens     *)
(* that were written, apart or touching; but a name with two hyphens in a   *)
(* row, which ValidMemberName lets pass, no formula can refer to.           *)
NamesAreReferable ==
  stage = "idle" /\ Parse(draft) # NotAFormula =>
    \A n \in {n \in OtherNames : L!ValidMemberName(n)}, a \in Listed(draft) \cap Accounts :
      LET names == [AccountName EXCEPT ![a] = n]
      IN  /\ IsRead(draft, names, <<" ">>) = Readable(draft, names)
          /\ Readable(draft, names) /\ ~Hyphenated(draft) => IsRead(draft, names, <<>>)

\* The formulas that the text of account a reads, straight from its tokens.
Read(a) == {f \in DOMAIN texts : \E i \in DOMAIN texts[a] :
              texts[a][i] \in Accounts /\ f \in Below(texts[a][i])}

(* SPEC.md section 5, step 1: no formula is evaluated before one it reads, *)
(* directly or through a parent account, and none is left out.             *)
InputsFirst ==
  stage = "ordered" =>
    /\ Listed(order) = DOMAIN texts
    /\ \A i \in DOMAIN order : Read(order[i]) \subseteq {order[j] : j \in 1 .. i - 1}

(* A consolidation is refused for a cycle only if the accounts it names    *)
(* read each other in that order.                                          *)
CycleIsReal ==
  stage = "cycle" =>
    \A i \in DOMAIN path : path[IF i = Len(path) THEN 1 ELSE i + 1] \in Read(path[i])
-----------------------------------------------------------------------------
(* What makes them so: a stored text is a formula, and what is being sorted *)
(* is what the stored texts refer to.                                       *)
TextsInv == /\ IsText(draft)
            /\ \A a \in DOMAIN texts : a \in Accounts /\ IsText(texts[a]) /\ Parse(texts[a]) # NotAFormula

DepsInv == stage # "idle" => deps = [a \in DOMAIN texts |-> Deps(a)]
=============================================================================
