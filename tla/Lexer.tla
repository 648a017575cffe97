------------------------------- MODULE Lexer --------------------------------
(***************************************************************************)
(* The lexer of internal/calc and the member names of internal/model that  *)
(* it has to recognise after "A#".  A text is a sequence of characters; a  *)
(* name may hold spaces and hyphens, which also separate and subtract, so  *)
(* where a reference ends depends on what follows it.  A number is a run   *)
(* of digits here: fractions and exponents take no part in that.           *)
(***************************************************************************)
EXTENDS Naturals, Sequences

CONSTANTS Letters, Digits   \* characters of words that occur

Alnum    == Letters \cup Digits
NameWord == Alnum \cup {".", "_"}

At(s, i)       == IF i \in DOMAIN s THEN s[i] ELSE ""
StartsRef(s, i) == At(s, i) = "A" /\ At(s, i + 1) = "#"

\* The end of the run of characters of set S that starts at i.
RunEnd(s, i, S) ==
  CHOOSE j \in i .. Len(s) + 1 : At(s, j) \notin S /\ \A k \in i .. j - 1 : s[k] \in S

SkipSpaces(s, i) == RunEnd(s, i, {" "})
FromWord(s)      == SubSeq(s, SkipSpaces(s, 1), Len(s))

ContinuesAnyHyphen(s, start, i) ==
  \/ At(s, i) \in NameWord
  \/ At(s, i) = " " /\ At(s, SkipSpaces(s, i)) \in NameWord
  \/ At(s, i) = "-" /\ i > start /\ At(s, i + 1) \in NameWord

\* Whether the character at i goes on with a name that starts at start and
\* goes on to i: a space does before a word, a hyphen between two words, the
\* second of which is no reference of its own.
Continues(s, start, i) ==
  \/ At(s, i) \in NameWord
  \/ At(s, i) = " " /\ At(s, SkipSpaces(s, i)) \in NameWord
  \/ At(s, i) = "-" /\ i > start /\ At(s, i + 1) \in NameWord /\ ~StartsRef(s, i + 1)

\* lexRefName: the name, and where the text goes on.
LexRefName(s, start) ==
  LET end == CHOOSE j \in start .. Len(s) + 1 :
               ~Continues(s, start, j) /\ \A k \in start .. j - 1 : Continues(s, start, k)
  IN  [kind |-> "ref", text |-> FromWord(SubSeq(s, start, end - 1)), next |-> SkipSpaces(s, end)]

Token(kind, s, i, end) == [kind |-> kind, text |-> SubSeq(s, i, end - 1), next |-> end]

\* The token that starts at i, its text empty when none does.
LexToken(s, i) ==
  LET c == s[i]
      withEq == At(s, i + 1) = "="
  IN  CASE StartsRef(s, i)                     -> LexRefName(s, i + 2)
        [] c \in Digits                        -> Token("num", s, i, RunEnd(s, i, Digits))
        [] c \in Letters \cup {"_"} /\ ~StartsRef(s, i)
                                               -> Token("ident", s, i, RunEnd(s, i, Alnum \cup {"_"}))
        [] c \in {"+", "-", "*", "/", "(", ")", ","} -> Token("op", s, i, i + 1)
        [] c \in {"<", ">"}                    -> Token("op", s, i, IF withEq THEN i + 2 ELSE i + 1)
        [] c \in {"=", "!"} /\ withEq          -> Token("op", s, i, i + 2)
        [] OTHER                               -> Token("error", s, i, i)

\* lex: the tokens of s; an error ends them.
Lex(s) ==
  LET from[i \in 1 .. Len(s) + 1] ==
        IF i > Len(s) THEN <<>>
        ELSE IF s[i] = " " THEN from[i + 1]
        ELSE LET t   == LexToken(s, i)
                 tok == [kind |-> t.kind, text |-> t.text]
             IN  IF t.text = <<>> THEN <<tok>> ELSE <<tok>> \o from[t.next]
  IN  from[1]

-----------------------------------------------------------------------------
\* ValidMemberName: no space at the end, no hyphen at an end or by a space.
ValidMemberName(s) ==
  /\ s # <<>> /\ s[1] \in Alnum /\ s[Len(s)] # " "
  /\ \A i \in DOMAIN s :
       /\ s[i] \in NameWord \cup {" ", "-"}
       /\ s[i] = "-" => /\ i \notin {1, Len(s)}
                        /\ s[i - 1] # " " /\ s[i + 1] # " "

\* Two hyphens in a row pass ValidMemberName and end a reference.
HyphensApart(s) == \A i \in 1 .. Len(s) - 1 : s[i] # "-" \/ s[i + 1] # "-"
=============================================================================
