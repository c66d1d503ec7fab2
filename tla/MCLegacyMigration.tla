-------------------------- MODULE MCLegacyMigration --------------------------
(* A dump of one row for each kind of table.                               *)
EXTENDS LegacyMigration, TLC

From(table, entity, up, remembered, name) ==
  [table |-> table, key |-> 1, entity |-> entity, up |-> up, remembered |-> remembered,
   name |-> name]

(* The administrator and the user have the same legacy id; a message has   *)
(* no natural key.                                                         *)
MCSource ==
  << From("admin",        "User",        {},  TRUE,  1),
     From("users",        "User",        {},  TRUE,  2),
     From("drama",        "Drama",       {},  TRUE,  1),
     From("season",       "Season",      {3}, TRUE,  1),
     From("episode",      "Episode",     {4}, TRUE,  1),
     From("user_message", "UserMessage", {2}, TRUE,  0) >>

(* Strings of up to two characters that matter to the scanner, beside a    *)
(* number and NULL.                                                        *)
TextCell == {[kind |-> "text", chars |-> s] : s \in UNION {[1 .. n -> Signs] : n \in 0 .. 2}}
PlainCell == {[kind |-> "plain", chars |-> <<w>>] : w \in {"NULL", "7"}}

MCChar == Signs \cup {"NULL", "7"}

MCDumps ==
  [rows : {<<<<c, d>>, <<d, c>>>> : c \in TextCell, d \in PlainCell}
          \cup {<<<<c, d>>>> : c, d \in {t \in TextCell : Len(t.chars) < 2}},
   split : BOOLEAN, mark : {"'", "\\"}]

Symmetry == Permutations(Run)
=============================================================================
