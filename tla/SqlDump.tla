------------------------------- MODULE SqlDump -------------------------------
(***************************************************************************)
(* How scripts/legacy-migration/import-sql.ts reads the INSERT statements  *)
(* of a MySQL dump.  A dump is a sequence of characters; the head of a     *)
(* statement (INSERT INTO, table, columns and VALUES) is one of them, and  *)
(* so are a number and NULL.  A dump has one table here.                   *)
(***************************************************************************)
EXTENDS Naturals, Sequences, FiniteSetsExt

Quote == "'"
Back == "\\"
Comma == ","
Semicolon == ";"
Insert == "INSERT"
Signs == {Quote, Back, Insert, Comma, Semicolon, "(", ")", "n", "newline"}

(* Mutant: a backslash is a character like any other. *)
ScanRaw(s) ==
  LET state[i \in 1 .. Len(s) + 1] ==
        IF i = 1 THEN "out"
        ELSE LET before == state[i - 1]
                 c == s[i - 1]
                 doubled == c = Quote /\ i <= Len(s) /\ s[i] = Quote
             IN  CASE before = "in" /\ doubled -> "skip"
                   [] before = "in" /\ c = Quote /\ ~doubled -> "out"
                   [] before = "out" /\ c # Quote -> "out"
                   [] OTHER -> "in"
  IN  state

(* The scanner that statementEnd, splitFields and tuples share: its state  *)
(* before each character.  A backslash skips what follows it in a string,  *)
(* and so does a quote another quote.                                      *)
Scan(s) ==
  LET state[i \in 1 .. Len(s) + 1] ==
        IF i = 1 THEN "out"
        ELSE LET before == state[i - 1]
                 c == s[i - 1]
                 doubled == c = Quote /\ i <= Len(s) /\ s[i] = Quote
             IN  CASE before = "in" /\ (c = Back \/ doubled) -> "skip"
                   [] before = "in" /\ c = Quote /\ ~doubled -> "out"
                   [] before = "out" /\ c # Quote -> "out"
                   [] OTHER -> "in"
  IN  state

(* Where c stands outside the strings of s. *)
Outside(s, c) == LET state == Scan(s) IN {i \in DOMAIN s : s[i] = c /\ state[i] = "out"}

StatementEnd(s) == Min(Outside(s, Semicolon) \cup {Len(s) + 1})

(* s cut at a set of positions. *)
Pieces(s, cuts) ==
  LET ends == cuts \cup {0, Len(s) + 1}
      nth(n) == CHOOSE e \in ends : Cardinality({f \in ends : f < e}) = n - 1
  IN  [n \in 1 .. Cardinality(cuts) + 1 |-> SubSeq(s, nth(n) + 1, nth(n + 1) - 1)]

SplitFields(s) == Pieces(s, Outside(s, Comma))

Unescaped(c) == IF c = "n" THEN "newline" ELSE c

(* A field that is not quoted is a number or NULL. *)
ParseValue(s) ==
  LET rest[i \in 2 .. Len(s) + 1] ==
        IF i >= Len(s) THEN <<>>
        ELSE IF s[i] = Back /\ i + 1 < Len(s) THEN <<Unescaped(s[i + 1])>> \o rest[i + 2]
        ELSE IF s[i] = Quote /\ s[i + 1] = Quote THEN <<Quote>> \o rest[i + 2]
        ELSE <<s[i]>> \o rest[i + 1]
  IN  IF s # <<>> /\ s[1] = Quote /\ s[Len(s)] = Quote
      THEN [kind |-> "text", chars |-> rest[2]]
      ELSE [kind |-> "plain", chars |-> s]

(* What stands between parentheses that are in no others, split. *)
Tuples(s) ==
  LET opens == Outside(s, "(")
      closes == Outside(s, ")")
      depth(i) == Cardinality({o \in opens : o < i}) - Cardinality({c \in closes : c < i})
      ends(o) == {c \in closes : c > o /\ depth(c) = 1}
      first == {o \in opens : depth(o) = 0 /\ ends(o) # {}}
      nth(n) == CHOOSE o \in first : Cardinality({f \in first : f < o}) = n - 1
  IN  [n \in 1 .. Cardinality(first) |-> SplitFields(SubSeq(s, nth(n) + 1, Min(ends(nth(n))) - 1))]

ParseRow(fields) == [f \in DOMAIN fields |-> ParseValue(fields[f])]

(* The statements one after the other: the search for a head goes on       *)
(* behind the end of the statement before.                                 *)
ParseDump(s) ==
  LET rows[i \in 1 .. Len(s) + 2] ==
        LET heads == {h \in DOMAIN s : h >= i /\ s[h] = Insert}
        IN  IF heads = {} THEN <<>>
            ELSE LET after == SubSeq(s, Min(heads) + 1, Len(s))
                     end == StatementEnd(after)
                     tuples == Tuples(SubSeq(after, 1, end - 1))
                 IN  [n \in DOMAIN tuples |-> ParseRow(tuples[n])] \o rows[Min(heads) + end + 1]
  IN  rows[1]

-----------------------------------------------------------------------------
(* The dump as mysqldump writes it                                         *)

Escaped(c, mark) ==
  CASE c = Quote -> <<mark, Quote>>
    [] c = Back -> <<Back, Back>>
    [] c = "newline" -> <<Back, "n">>
    [] OTHER -> <<c>>

Join(parts, between) ==
  LET joined[n \in 0 .. Len(parts)] ==
        IF n = 0 THEN <<>>
        ELSE joined[n - 1] \o (IF n = 1 THEN <<>> ELSE between) \o parts[n]
  IN  joined[Len(parts)]

Field(v, mark) ==
  IF v.kind = "plain" THEN v.chars
  ELSE <<Quote>> \o Join([n \in DOMAIN v.chars |-> Escaped(v.chars[n], mark)], <<>>) \o <<Quote>>

Tuple(r, mark) == <<"(">> \o Join([f \in DOMAIN r |-> Field(r[f], mark)], <<Comma>>) \o <<")">>

Statement(rows, mark) ==
  <<Insert>> \o Join([n \in DOMAIN rows |-> Tuple(rows[n], mark)], <<Comma>>) \o <<Semicolon>>

(* One statement for all the rows, or one for each; a quote in a string is *)
(* marked by a backslash or by another quote.                              *)
Dump(d) ==
  IF d.split THEN Join([n \in DOMAIN d.rows |-> Statement(<<d.rows[n]>>, d.mark)], <<>>)
  ELSE Statement(d.rows, d.mark)

(* What mysqldump writes: a number or NULL has none of the signs in it,    *)
(* rows have fields.                                                       *)
Plain(char) == Seq(char \ Signs) \ {<<>>}
Cells(char) == [kind : {"plain"}, chars : Plain(char)] \cup [kind : {"text"}, chars : Seq(char)]
Written(char) == [rows : Seq(Seq(Cells(char)) \ {<<>>}), split : BOOLEAN, mark : {Quote, Back}]
=============================================================================
