-------------------------------- MODULE Keyval --------------------------------
(***************************************************************************)
(* src/src/keyval.c: values looked up by keyword in the text of a label,   *)
(* and next_line_from_buffer of mapx.c, which reads a label line by line.  *)
(*                                                                         *)
(* A label is a sequence of tokens.  " ", "nl", ":", ";", "#" and digits   *)
(* are characters; a keyword is a token or several, so that one may be the *)
(* beginning of another; upper and lower case are not told apart.          *)
(***************************************************************************)
EXTENDS Integers, SequencesExt, FiniteSetsExt

CONSTANTS
    Num,        \* the numbers that tokens stand for, a function
    Beyond      \* what may lie in memory behind a label: token sequences

blank == {" ", "nl"}
ends == {";", "#", "nl"}

\* The text of a file: what a comment holds is replaced by blanks.
Commented(text, i) ==
    \E j \in 1 .. i - 1 : text[j] \in {";", "#"} /\ \A k \in j .. i : text[k] # "nl"
get_label_keyval(text) ==
    [i \in DOMAIN text |-> IF Commented(text, i) /\ text[i] \notin ends THEN " " ELSE text[i]]

\* From place i of s up to the first token of stop, or to the end.
Until(s, i, stop) ==
    SubSeq(s, i, Min({Len(s) + 1} \cup {j \in i .. Len(s) : s[j] \in stop}) - 1)

\* Where a keyword is found: with a colon behind it and not at the very end.
FollowedByAnything(label, i) == i + 2 <= Len(label)     \* mutant of Followed
Followed(label, i) == label[i] = ":" /\ i + 2 <= Len(label)
KeywordEnds(label, keyword) ==
    {i \in Len(keyword) + 1 .. Len(label) :
        /\ SubSeq(label, i - Len(keyword), i - 1) = keyword
        /\ Followed(label, i)}

\* The text of a field.  An empty one takes the next line that is not blank, one
\* that is only a comment takes the rest of the label.
FieldFrom(label, start) == LET field == Until(label, start, ends)
                           IN  IF field = <<>> THEN SubSeq(label, start, Len(label)) ELSE field
get_field_keyval(label, keyword) ==
    LET colon == Min(KeywordEnds(label, keyword))
    IN  FieldFrom(label, Min({Len(label) + 1} \cup {j \in colon + 1 .. Len(label) : label[j] \notin blank}))

\* A number with a hemisphere behind it.
Hemispheres(format) == CASE format = "%lat" -> {"N", "S"} [] format = "%lon" -> {"E", "W"} [] OTHER -> {}
lat_lon_keyval(field, format) ==
    LET here == {j \in DOMAIN field : field[j] \in Hemispheres(format)}
        numbers == {j \in 1 .. Min(here) - 1 : field[j] # " "}
    IN  IF here = {} \/ numbers = {} THEN <<>>
        ELSE IF field[Max(numbers)] \notin DOMAIN Num THEN <<>>
        ELSE <<IF field[Min(here)] \in {"S", "W"} THEN -Num[field[Max(numbers)]] ELSE Num[field[Max(numbers)]]>>
sscanf(field) == IF field # <<>> /\ field[1] \in DOMAIN Num THEN <<Num[field[1]]>> ELSE <<>>

\* <<>> for an error, which leaves the variable to be set as it was.
ReadAs(format, field) == LET value == lat_lon_keyval(field, format) IN IF value # <<>> THEN value ELSE sscanf(field)
get_value_keyval(label, keyword, format, default) ==
    IF KeywordEnds(label, keyword) = {} THEN default ELSE ReadAs(format, get_field_keyval(label, keyword))

\* The line at place i and the place of the next one; 0 when there is none.  A blank
\* line takes the rest of the label with it, and behind a last line without a newline
\* is what memory holds behind the label.
LineAt(label, beyond, i) ==
    LET text == IF i > Len(label) + 1 THEN label \o <<"end">> \o beyond ELSE label
        upto == Until(text, i, {"nl"})
        line == IF upto = <<>> THEN SubSeq(text, i, Len(text)) ELSE upto
        next == IF upto = <<>> THEN Len(text) + 1 ELSE i + Len(line) + 1
    IN  IF i > Len(text) THEN [line |-> <<>>, next |-> 0]
        ELSE [line |-> line, next |-> next]

\* The same of the next line that is not a comment.
next_line_from_buffer(label, beyond, i) ==
    LET from[j \in Nat] == LET l == LineAt(label, beyond, j)
                           IN  IF l.next # 0 /\ l.line[1] \in {"#", ";"} THEN from[l.next] ELSE l
    IN  from[i]

\* The numbers a line begins with, as many as wanted.
Numbers(line, wanted) ==
    LET tokens == SelectSeq(line, LAMBDA t : t \notin blank)
    IN  [j \in {n \in 1 .. wanted : n <= Len(tokens) /\ \A i \in 1 .. n : tokens[i] \in DOMAIN Num} |-> Num[tokens[j]]]
===============================================================================
