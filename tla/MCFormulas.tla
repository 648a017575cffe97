----------------------------- MODULE MCFormulas -----------------------------
(* Four accounts, one of them the parent of two others, and texts that a    *)
(* few keystrokes turn into right and wrong formulas and into cycles.       *)
EXTENDS Formulas
LOCAL INSTANCE TLC

MCTree == "net" :> "" @@ "a" :> "net" @@ "b" :> "net" @@ "c" :> ""
MCName == "net" :> <<"x">> @@ "a" :> <<"A", "-", "x">> @@ "b" :> <<"x", " ", "A">> @@ "c" :> <<"A">>

MCLetters  == {"A", "B", "F", "I", "M", "N", "S", "U", "X", "x"}
MCDigits   == {"1"}
MCSpelling == "1" :> <<"1">> @@ "+" :> <<"+">> @@ "-" :> <<"-">> @@ "*" :> <<"*">> @@ "/" :> <<"/">>
              @@ "(" :> <<"(">> @@ ")" :> <<")">> @@ "," :> <<",">> @@ "<" :> <<"<">> @@ ">" :> <<">">>
              @@ "<=" :> <<"<", "=">> @@ ">=" :> <<">", "=">> @@ "==" :> <<"=", "=">>
              @@ "!=" :> <<"!", "=">>
              @@ "ABS" :> <<"A", "B", "S">> @@ "MIN" :> <<"M", "I", "N">> @@ "MAX" :> <<"M", "A", "X">>
              @@ "IF" :> <<"I", "F">> @@ "SUM" :> <<"S", "U", "M">>

MCOtherNames == UNION {[1 .. n -> {"A", "1", "-", " "}] : n \in 1 .. 3} \cup {<<"A", "-", "-", "x">>}

MCFirstTexts == {<<>>, <<"a", "-", "1", "-", "net">>, <<"-", "(", "c", "/", "b", ")", "*", "1">>,
                 <<"IF", "(", "c", "<=", "1", ",", "a", ",", "-", "b", ")">>,
                 <<"MIN", "(", "net", ",", "ABS", "(", "1", ")", ")">>}
MCFirstStored == {"a" :> <<"c">>, "a" :> <<"b">> @@ "b" :> <<"1">> @@ "c" :> <<"net">>}
MCVocabulary  == {"c", "net", "-", "*", "(", ")", ",", "==", "MAX", "SUM"}
=============================================================================
