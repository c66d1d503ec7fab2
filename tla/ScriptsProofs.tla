---------------------------- MODULE ScriptsProofs -----------------------------
(***************************************************************************)
(* Proofs about the scripts that run beside the service.                   *)
(*                                                                         *)
(* SqlDump, for any characters and rows.  A text is neat if the scanner    *)
(* ends it outside a string; it sees in a neat part of a text what it sees *)
(* in the part alone.  So the signs outside the strings of joined fields,  *)
(* tuples and statements are those that join them.                         *)
(*                                                                         *)
(* LegacyMigration, for any legacy rows, runs and bounds.  One script runs *)
(* at a time: between the insert of a row and its record, and between the  *)
(* deletion of a row and that of its record, the only other steps are      *)
(* those of the application and a crash.                                   *)
(*                                                                         *)
(* Deployment, for any instances, users, roles, permissions and number of  *)
(* retries.  The invariant follows a seed through its loops: what a loop   *)
(* has put behind it is in the database as long as staff takes nothing     *)
(* away, whatever other instances do at the same time, for a seed only     *)
(* adds.                                                                   *)
(***************************************************************************)
EXTENDS LegacyMigration, Deployment, FiniteSetTheorems, SequenceTheorems, WellFoundedInduction,
        TLAPS

-----------------------------------------------------------------------------
(* SqlDump: what is read from a dump is what was written to it             *)
(*                                                                         *)
(* The definitions are functions given by equations.  Counting has, by the *)
(* least counterexample, induction over a set of numbers; Forward and      *)
(* Backward have the functions that satisfy such equations.                *)

LEMMA SignsAreChars ==
  /\ Quote \in Char /\ Back \in Char /\ Insert \in Char /\ "n" \in Char /\ "newline" \in Char
  /\ Comma \in Char /\ "(" \in Char /\ ")" \in Char /\ Semicolon \in Char
BY DumpAssumption DEF DumpAssumption, Signs

(* The signs the scanners tell apart.                                      *)
LEMMA SignsDiffer ==
  /\ Quote # Back /\ Quote # Comma /\ Quote # "(" /\ Quote # ")" /\ Quote # Semicolon /\ Quote # "n"
  /\ Quote # "newline" /\ Back # "n" /\ Back # "newline" /\ Quote # Insert
  /\ Comma # "(" /\ Comma # ")" /\ Comma # Semicolon /\ "(" # ")" /\ "(" # Semicolon /\ ")" # Semicolon
  /\ Insert # Comma /\ Insert # "(" /\ Insert # ")" /\ Insert # Semicolon
BY Zenon DEF Quote, Back, Insert, Comma, Semicolon

(* A set of numbers with 0 and all successors has every number.            *)
LEMMA Counting ==
  ASSUME NEW T, 0 \in T, \A n \in Nat : n \in T => n + 1 \in T
  PROVE  Nat \subseteq T
<1> DEFINE Rest == Nat \ T
           R == OpToRel(<, Nat)
<1> SUFFICES ASSUME Rest # {} PROVE FALSE
  OBVIOUS
<1>1. PICK n \in Rest : \A m \in Rest : ~(<<m, n>> \in R)
  <2>1. IsWellFoundedOn(R, Nat)
    BY NatLessThanWellFounded
  <2>2. Rest \subseteq Nat
    OBVIOUS
  <2> HIDE DEF Rest, R
  <2> QED
    BY <2>1, <2>2, WFMin
<1>2. n \in Nat /\ n # 0 /\ n \notin T
  OBVIOUS
<1>3. n - 1 \in Nat /\ n = (n - 1) + 1
  BY <1>2
<1>4. n - 1 \notin T
  BY <1>2, <1>3
<1>5. <<n - 1, n>> \in R
  BY <1>2, <1>3 DEF OpToRel
<1> QED
  BY <1>1, <1>3, <1>4, <1>5

(* A function given by its first value and the step from each to the next. *)
StepsIn(F, V) == \A n \in Nat : \A x \in V : F[<<n, x>>] \in V

Stepwise(g, n, V, v, F) ==
  g \in [0 .. n -> V] /\ g[0] = v /\ \A i \in 1 .. n : g[i] = F[<<i, g[i - 1]>>]

(* A function is given by its first value and its steps.                   *)
LEMMA Forward ==
  ASSUME NEW V, NEW v \in V, NEW F, StepsIn(F, V), NEW n \in Nat
  PROVE  \E g : Stepwise(g, n, V, v, F)
<1> USE DEF StepsIn
<1> SUFFICES ASSUME TRUE
             PROVE  \A m \in Nat : \E g \in [0 .. m -> V] : g[0] = v /\ \A i \in 1 .. m : g[i] = F[<<i, g[i - 1]>>]
  BY DEF Stepwise
<1> DEFINE P(m) == \E g \in [0 .. m -> V] : g[0] = v /\ \A i \in 1 .. m : g[i] = F[<<i, g[i - 1]>>]
           T == {m \in Nat : P(m)}
<1>1. P(0)
  <2> DEFINE h == [i \in 0 .. 0 |-> v]
  <2>1. h \in [0 .. 0 -> V] /\ h[0] = v /\ \A i \in 1 .. 0 : h[i] = F[<<i, h[i - 1]>>]
    OBVIOUS
  <2> HIDE DEF h
  <2> QED
    BY <2>1
<1>2. ASSUME NEW m \in Nat, P(m) PROVE P(m + 1)
  <2>1. PICK g \in [0 .. m -> V] : g[0] = v /\ \A i \in 1 .. m : g[i] = F[<<i, g[i - 1]>>]
    BY <1>2
  <2> DEFINE h == [i \in 0 .. m + 1 |-> IF i <= m THEN g[i] ELSE F[<<m + 1, g[m]>>]]
  <2>2. h \in [0 .. m + 1 -> V]
    BY <2>1
  <2>3. h[0] = v
    BY <2>1
  <2>4. ASSUME NEW i \in 1 .. m + 1 PROVE h[i] = F[<<i, h[i - 1]>>]
    <3>1. CASE i \in 1 .. m
      BY <2>1, <3>1
    <3>2. CASE i = m + 1
      BY <2>1, <3>2
    <3> QED
      BY <3>1, <3>2
  <2>5. \A i \in 1 .. m + 1 : h[i] = F[<<i, h[i - 1]>>]
    BY <2>4
  <2> HIDE DEF h
  <2> QED
    BY <2>2, <2>3, <2>5, Zenon
<1>3. 0 \in T /\ \A m \in Nat : m \in T => m + 1 \in T
  BY <1>1, <1>2
<1> HIDE DEF T
<1>4. Nat \subseteq T
  BY <1>3, Counting
<1> QED
  BY <1>4 DEF T

(* A function whose value at an index is empty or goes on with its value at *)
(* a later one.                                                            *)
Ahead(S, a, n, Stop, pre, next) ==
  \A i \in a .. n : i \notin Stop => pre[i] \in Seq(S) /\ next[i] \in i + 1 .. n

Onward(g, S, a, n, Stop, pre, next) ==
  /\ g \in [a .. n -> Seq(S)]
  /\ \A i \in a .. n : g[i] = IF i \in Stop THEN <<>> ELSE pre[i] \o g[next[i]]

(* A function is given by what it is where it stops and by steps ahead.    *)
LEMMA Backward ==
  ASSUME NEW S, NEW a \in Nat, NEW n \in Nat, NEW Stop, NEW pre, NEW next,
         Ahead(S, a, n, Stop, pre, next)
  PROVE  \E g : Onward(g, S, a, n, Stop, pre, next)
<1> USE DEF Ahead
<1> SUFFICES \E g \in [a .. n -> Seq(S)] :
               \A i \in a .. n : g[i] = IF i \in Stop THEN <<>> ELSE pre[i] \o g[next[i]]
  BY DEF Onward
<1> DEFINE P(k) == \E g \in [n - k + 1 .. n -> Seq(S)] :
                     \A i \in a .. n : i > n - k =>
                        g[i] = IF i \in Stop THEN <<>> ELSE pre[i] \o g[next[i]]
           T == {k \in Nat : k <= n + 1 - a => P(k)}
<1>1. P(0)
  <2> DEFINE h == [i \in n - 0 + 1 .. n |-> <<>>]
  <2>1. h \in [n - 0 + 1 .. n -> Seq(S)]
    OBVIOUS
  <2>2. \A i \in a .. n : ~(i > n - 0)
    OBVIOUS
  <2> HIDE DEF h
  <2> QED
    BY <2>1, <2>2
<1>2. ASSUME NEW k \in Nat, k + 1 <= n + 1 - a, P(k) PROVE P(k + 1)
  <2>1. PICK g \in [n - k + 1 .. n -> Seq(S)] :
           \A i \in a .. n : i > n - k => g[i] = IF i \in Stop THEN <<>> ELSE pre[i] \o g[next[i]]
    BY <1>2
  <2> DEFINE b == n - k
             x == IF b \in Stop THEN <<>> ELSE pre[b] \o g[next[b]]
             h == [i \in b .. n |-> IF i = b THEN x ELSE g[i]]
  <2>2. b \in a .. n /\ b + 1 = n - k + 1 /\ n - (k + 1) + 1 = b
    BY <1>2
  <2>3. x \in Seq(S)
    BY <2>1, <2>2
  <2>4. h \in [b .. n -> Seq(S)]
    BY <2>1, <2>2, <2>3
  <2>5. ASSUME NEW i \in a .. n, i > n - (k + 1)
        PROVE  h[i] = IF i \in Stop THEN <<>> ELSE pre[i] \o h[next[i]]
    <3>1. i \in b .. n
      BY <2>2, <2>5
    <3>2. i \notin Stop => next[i] \in i + 1 .. n /\ next[i] \in b + 1 .. n /\ h[next[i]] = g[next[i]]
      BY <2>2, <3>1
    <3>3. CASE i = b
      BY <3>1, <3>2, <3>3
    <3>4. CASE i # b
      BY <2>1, <2>2, <3>1, <3>2, <3>4
    <3> QED
      BY <3>3, <3>4
  <2> HIDE DEF h
  <2> QED
    BY <2>2, <2>4, <2>5
<1>3. 0 \in T /\ \A k \in Nat : k \in T => k + 1 \in T
  <2> HIDE DEF P
  <2> QED
    BY <1>1, <1>2
<1> HIDE DEF T
<1>4. Nat \subseteq T
  BY <1>3, Counting
<1>5. CASE a <= n
  <2>1. PICK k \in Nat : k = n + 1 - a
    BY <1>5
  <2>2. n - k + 1 = a /\ \A i \in a .. n : i > n - k
    BY <2>1
  <2>3. P(k)
    <3> HIDE DEF P
    <3> QED
      BY <1>4, <2>1 DEF T
  <2>4. PICK g \in [n - k + 1 .. n -> Seq(S)] :
           \A i \in a .. n : i > n - k => g[i] = IF i \in Stop THEN <<>> ELSE pre[i] \o g[next[i]]
    BY <2>3
  <2>5. g \in [a .. n -> Seq(S)]
    BY <2>2, <2>4
  <2> QED
    BY <2>2, <2>4, <2>5
<1>6. CASE ~(a <= n)
  <2> DEFINE h == [i \in a .. n |-> <<>>]
  <2>1. h \in [a .. n -> Seq(S)] /\ \A i \in a .. n : FALSE
    BY <1>6
  <2> HIDE DEF h
  <2> QED
    BY <2>1
<1> QED
  BY <1>5, <1>6

-----------------------------------------------------------------------------
(* What the recursive definitions of SqlDump say                           *)

(* The equation of Join. *)
Joins(g, parts, between) ==
  g = [n \in 0 .. Len(parts) |->
         IF n = 0 THEN <<>>
         ELSE g[n - 1] \o (IF n = 1 THEN <<>> ELSE between) \o parts[n]]

LEMMA JoinChosen ==
  ASSUME NEW parts, NEW between
  PROVE  Join(parts, between) = (CHOOSE g : Joins(g, parts, between))[Len(parts)]
BY DEF Join, Joins

(* g[n] is the text of the first n parts. *)
Joined(g, parts, between) ==
  /\ g \in [0 .. Len(parts) -> Seq(Char)] /\ g[0] = <<>>
  /\ \A n \in 1 .. Len(parts) : g[n] = g[n - 1] \o (IF n = 1 THEN <<>> ELSE between) \o parts[n]

(* Join is the text of all the parts.                                      *)
LEMMA JoinSays ==
  ASSUME NEW parts \in Seq(Seq(Char)), NEW between \in Seq(Char)
  PROVE  \E g : Joined(g, parts, between) /\ Join(parts, between) = g[Len(parts)]
<1> DEFINE F == [p \in Nat \X Seq(Char) |->
                   IF p[1] \in 1 .. Len(parts)
                   THEN p[2] \o (IF p[1] = 1 THEN <<>> ELSE between) \o parts[p[1]]
                   ELSE <<>>]
<1>1. Len(parts) \in Nat /\ \A n \in 1 .. Len(parts) : parts[n] \in Seq(Char)
  OBVIOUS
<1>2. ASSUME NEW n \in Nat, NEW x \in Seq(Char) PROVE F[<<n, x>>] \in Seq(Char)
  <2>1. CASE n \in 1 .. Len(parts)
    <3>1. F[<<n, x>>] = x \o (IF n = 1 THEN <<>> ELSE between) \o parts[n]
      BY <2>1
    <3>2. parts[n] \in Seq(Char) /\ (IF n = 1 THEN <<>> ELSE between) \in Seq(Char)
      BY <1>1, <2>1
    <3> HIDE DEF F
    <3> QED
      BY <3>1, <3>2, ConcatProperties
  <2>2. CASE n \notin 1 .. Len(parts)
    <3>1. F[<<n, x>>] = <<>>
      BY <2>2
    <3> QED
      BY <3>1
  <2> QED
    BY <2>1, <2>2
<1>3. \A n \in 1 .. Len(parts) : \A x \in Seq(Char) :
        F[<<n, x>>] = x \o (IF n = 1 THEN <<>> ELSE between) \o parts[n]
  <2> SUFFICES ASSUME NEW n \in 1 .. Len(parts), NEW x \in Seq(Char)
               PROVE  F[<<n, x>>] = x \o (IF n = 1 THEN <<>> ELSE between) \o parts[n]
    OBVIOUS
  <2>1. n \in Nat
    BY <1>1
  <2>2. <<n, x>> \in Nat \X Seq(Char) /\ <<n, x>>[1] = n /\ <<n, x>>[2] = x
    BY <2>1
  <2> QED
    BY <2>2
<1>4. <<>> \in Seq(Char)
  OBVIOUS
<1> HIDE DEF F
<1>5. PICK g \in [0 .. Len(parts) -> Seq(Char)] :
         g[0] = <<>> /\ \A i \in 1 .. Len(parts) : g[i] = F[<<i, g[i - 1]>>]
  <2> DEFINE V == Seq(Char)
             v == <<>>
  <2>1. v \in V /\ StepsIn(F, V)
    BY <1>2, <1>4 DEF StepsIn
  <2> HIDE DEF V, v
  <2>2. \E g : Stepwise(g, Len(parts), V, v, F)
    BY <1>1, <2>1, Forward
  <2> QED
    BY <2>2 DEF V, v, Stepwise
<1>6. ASSUME NEW n \in 1 .. Len(parts) PROVE g[n - 1] \in Seq(Char)
  <2>1. n - 1 \in 0 .. Len(parts)
    BY <1>1
  <2> QED
    BY <1>5, <2>1
<1>7. \A n \in 1 .. Len(parts) : g[n] = g[n - 1] \o (IF n = 1 THEN <<>> ELSE between) \o parts[n]
  BY <1>3, <1>5, <1>6
<1>8. ASSUME NEW n \in 0 .. Len(parts)
      PROVE  g[n] = IF n = 0 THEN <<>> ELSE g[n - 1] \o (IF n = 1 THEN <<>> ELSE between) \o parts[n]
  <2>1. n = 0 \/ n \in 1 .. Len(parts)
    BY <1>1
  <2>2. g[0] = <<>>
    BY <1>5
  <2> QED
    BY <1>7, <2>1, <2>2, Zenon
<1>9. g = [n \in 0 .. Len(parts) |-> g[n]]
  OBVIOUS
<1>10. Joins(g, parts, between)
  BY <1>8, <1>9 DEF Joins
<1> DEFINE h == CHOOSE k : Joins(k, parts, between)
<1>11. Joins(h, parts, between) /\ Join(parts, between) = h[Len(parts)]
  BY <1>10, JoinChosen
<1> HIDE DEF h

(* There is one such function only. *)
<1> DEFINE T == {n \in Nat : n <= Len(parts) => h[n] = g[n]}
<1>12. \A n \in 0 .. Len(parts) :
         h[n] = IF n = 0 THEN <<>> ELSE h[n - 1] \o (IF n = 1 THEN <<>> ELSE between) \o parts[n]
  BY <1>11 DEF Joins
<1>13. 0 \in T
  <2>1. 0 \in 0 .. Len(parts)
    BY <1>1
  <2>2. h[0] = <<>> /\ g[0] = <<>>
    BY <1>5, <1>12, <2>1, Zenon
  <2> QED
    BY <2>2
<1>14. ASSUME NEW n \in Nat, n \in T PROVE n + 1 \in T
  <2> SUFFICES ASSUME n + 1 <= Len(parts) PROVE h[n + 1] = g[n + 1]
    OBVIOUS
  <2>1. n + 1 \in 0 .. Len(parts) /\ n + 1 # 0 /\ (n + 1) - 1 = n /\ h[n] = g[n]
    BY <1>1, <1>14
  <2>2. h[n + 1] = h[(n + 1) - 1] \o (IF n + 1 = 1 THEN <<>> ELSE between) \o parts[n + 1]
    BY <1>12, <2>1, Zenon
  <2>3. g[n + 1] = g[(n + 1) - 1] \o (IF n + 1 = 1 THEN <<>> ELSE between) \o parts[n + 1]
    BY <1>8, <2>1, Zenon
  <2> QED
    BY <2>1, <2>2, <2>3, Zenon
<1> HIDE DEF T
<1>15. Nat \subseteq T
  BY <1>13, <1>14, Counting
<1>16. h[Len(parts)] = g[Len(parts)]
  BY <1>1, <1>15 DEF T
<1> QED
  BY <1>5, <1>7, <1>11, <1>16 DEF Joined

State == {"out", "in", "skip"}

(* The step of the scanner. *)
Moves(before, c, doubled) ==
  IF before = "in" THEN IF c = Back \/ (c = Quote /\ doubled) THEN "skip"
                        ELSE IF c = Quote THEN "out" ELSE "in"
  ELSE IF before = "out" /\ c # Quote THEN "out" ELSE "in"

Scans(s, g) ==
  g = [i \in 1 .. Len(s) + 1 |->
        IF i = 1 THEN "out"
        ELSE LET before == g[i - 1]
                 c == s[i - 1]
                 doubled == c = Quote /\ i <= Len(s) /\ s[i] = Quote
             IN  CASE before = "in" /\ (c = Back \/ doubled) -> "skip"
                   [] before = "in" /\ c = Quote /\ ~doubled -> "out"
                   [] before = "out" /\ c # Quote -> "out"
                   [] OTHER -> "in"]

LEMMA ScanChosen == ASSUME NEW s PROVE Scan(s) = CHOOSE g : Scans(s, g)
BY DEF Scan, Scans

Chosen(before, c, doubled) ==
  CASE before = "in" /\ (c = Back \/ (c = Quote /\ doubled)) -> "skip"
    [] before = "in" /\ c = Quote /\ ~(c = Quote /\ doubled) -> "out"
    [] before = "out" /\ c # Quote -> "out"
    [] OTHER -> "in"

(* The step as Scan writes it.                                             *)
LEMMA MovesCases ==
  ASSUME NEW b, NEW c, NEW d, d \in BOOLEAN
  PROVE  Chosen(b, c, d) = Moves(b, c, d)
<1>1. CASE b = "in"
  BY <1>1 DEF Chosen, Moves, Quote, Back
<1>2. CASE b # "in"
  BY <1>2 DEF Chosen, Moves, Quote, Back
<1> QED
  BY <1>1, <1>2

(* The scanner has a state before each character and at the end.           *)
LEMMA ScanSays ==
  ASSUME NEW s \in Seq(Char)
  PROVE  /\ Scan(s) \in [1 .. Len(s) + 1 -> State] /\ Scan(s)[1] = "out"
         /\ \A i \in 1 .. Len(s) :
              Scan(s)[i + 1] = Moves(Scan(s)[i], s[i], i < Len(s) /\ s[i + 1] = Quote)
<1> DEFINE D(i) == i < Len(s) /\ s[i + 1] = Quote
           F == [p \in Nat \X State |-> Moves(p[2], s[p[1]], D(p[1]))]
<1>1. Len(s) \in Nat
  OBVIOUS
<1>2. \A n \in Nat : \A x \in State : F[<<n, x>>] = Moves(x, s[n], D(n))
  OBVIOUS
<1>3. \A n \in Nat : \A x \in State : F[<<n, x>>] \in State
  BY <1>2 DEF Moves, State
<1>4. "out" \in State
  BY DEF State
<1> HIDE DEF F
<1>5. PICK f \in [0 .. Len(s) -> State] : f[0] = "out" /\ \A i \in 1 .. Len(s) : f[i] = F[<<i, f[i - 1]>>]
  <2>1. StepsIn(F, State)
    BY <1>3 DEF StepsIn
  <2>2. \E f : Stepwise(f, Len(s), State, "out", F)
    BY <1>1, <1>4, <2>1, Forward
  <2> QED
    BY <2>2 DEF Stepwise
<1> DEFINE g == [i \in 1 .. Len(s) + 1 |-> f[i - 1]]
<1>6. g \in [1 .. Len(s) + 1 -> State] /\ g[1] = "out"
  BY <1>1, <1>5
<1>7. ASSUME NEW i \in 1 .. Len(s) PROVE g[i + 1] = Moves(g[i], s[i], D(i))
  <2>1. i \in Nat /\ i - 1 \in 0 .. Len(s) /\ i \in 1 .. Len(s) + 1 /\ i + 1 \in 1 .. Len(s) + 1 /\ (i + 1) - 1 = i
    BY <1>1
  <2>2. f[i - 1] \in State
    BY <1>5, <2>1
  <2>3. g[i + 1] = f[i] /\ g[i] = f[i - 1]
    BY <2>1
  <2> HIDE DEF g, D
  <2>4. f[i] = F[<<i, f[i - 1]>>]
    BY <1>5
  <2> QED
    BY <1>2, <2>1, <2>2, <2>3, <2>4
<1> HIDE DEF g
<1> DEFINE Eq(h, i) ==
        IF i = 1 THEN "out"
        ELSE LET before == h[i - 1]
                 c == s[i - 1]
                 doubled == c = Quote /\ i <= Len(s) /\ s[i] = Quote
             IN  CASE before = "in" /\ (c = Back \/ doubled) -> "skip"
                   [] before = "in" /\ c = Quote /\ ~doubled -> "out"
                   [] before = "out" /\ c # Quote -> "out"
                   [] OTHER -> "in"
<1>8. ASSUME NEW h, NEW i \in 1 .. Len(s) PROVE Eq(h, i + 1) = Moves(h[i], s[i], D(i))
  <2>1. (i + 1) - 1 = i /\ i + 1 # 1 /\ (i + 1 <= Len(s) <=> i < Len(s)) /\ D(i) \in BOOLEAN
    BY <1>1
  <2> DEFINE b == h[i]
             c == s[i]
             d == D(i)
  <2>2. Eq(h, i + 1) = Chosen(b, c, d)
    BY <2>1 DEF Chosen
  <2> HIDE DEF Eq, b, c, d
  <2>3. d \in BOOLEAN
    BY <2>1 DEF d
  <2>4. Chosen(b, c, d) = Moves(b, c, d)
    BY <2>3, MovesCases
  <2> QED
    BY <2>2, <2>4 DEF b, c, d
<1>9. ASSUME NEW h PROVE Eq(h, 1) = "out"
  OBVIOUS
<1>10. \A h : Scans(s, h) <=> h = [i \in 1 .. Len(s) + 1 |-> Eq(h, i)]
  BY DEF Scans
<1> HIDE DEF Eq
<1>11. \A i \in 1 .. Len(s) + 1 : i = 1 \/ \E j \in 1 .. Len(s) : i = j + 1
  BY <1>1
<1>12. \A i \in 1 .. Len(s) + 1 : g[i] = Eq(g, i)
  BY <1>6, <1>7, <1>8, <1>9, <1>11
<1>13. g = [i \in 1 .. Len(s) + 1 |-> g[i]]
  BY <1>6
<1>14. Scans(s, g)
  BY <1>10, <1>12, <1>13
<1> DEFINE h == CHOOSE k : Scans(s, k)
<1>15. Scans(s, h) /\ Scan(s) = h
  BY <1>14, ScanChosen
<1> HIDE DEF h
<1>16. h = [i \in 1 .. Len(s) + 1 |-> Eq(h, i)]
  BY <1>10, <1>15
<1>17. h[1] = "out" /\ \A i \in 1 .. Len(s) : h[i + 1] = Moves(h[i], s[i], D(i))
  <2>1. 1 \in 1 .. Len(s) + 1 /\ \A i \in 1 .. Len(s) : i + 1 \in 1 .. Len(s) + 1
    BY <1>1
  <2> QED
    BY <1>8, <1>9, <1>16, <2>1
<1>18. \A i \in 1 .. Len(s) + 1 : h[i] \in State
  <2>1. \A b, c, d : Moves(b, c, d) \in State
    BY DEF Moves, State
  <2> QED
    BY <1>4, <1>11, <1>17, <2>1
<1> QED
  BY <1>15, <1>16, <1>17, <1>18

-----------------------------------------------------------------------------
(* Least elements                                                          *)

LEMMA Least ==
  ASSUME NEW T \in SUBSET Nat, T # {}
  PROVE  /\ Min(T) \in T /\ Min(T) \in Nat
         /\ \A m \in T : Min(T) <= m
<1> DEFINE R == OpToRel(<, Nat)
<1>1. PICK n \in T : \A m \in T : ~(<<m, n>> \in R)
  <2>1. IsWellFoundedOn(R, Nat)
    BY NatLessThanWellFounded
  <2> HIDE DEF R
  <2> QED
    BY <2>1, WFMin
<1>2. ASSUME NEW m \in T PROVE n <= m
  <2> SUFFICES ASSUME m < n PROVE FALSE
    OBVIOUS
  <2>1. <<m, n>> \in R
    BY DEF OpToRel
  <2> QED
    BY <1>1, <2>1
<1> QED
  BY <1>1, <1>2 DEF Min

(* It is the element that no other is below.                               *)
LEMMA LeastIs ==
  ASSUME NEW T \in SUBSET Nat, NEW x \in T, \A m \in T : x <= m
  PROVE  Min(T) = x
BY Least

-----------------------------------------------------------------------------
(* The equations of the parser                                             *)

(* The first matching case of parseValue. *)
RestOf(g, s, i) ==
  IF i >= Len(s) THEN <<>>
  ELSE IF s[i] = Back /\ i + 1 < Len(s) THEN <<Unescaped(s[i + 1])>> \o g[i + 2]
  ELSE IF s[i] = Quote /\ s[i + 1] = Quote THEN <<Quote>> \o g[i + 2]
  ELSE <<s[i]>> \o g[i + 1]

Rests(g, s) == g = [i \in 2 .. Len(s) + 1 |-> RestOf(g, s, i)]

LEMMA ValueChosen ==
  ASSUME NEW s
  PROVE  ParseValue(s) = IF s # <<>> /\ s[1] = Quote /\ s[Len(s)] = Quote
                         THEN [kind |-> "text", chars |-> (CHOOSE g : Rests(g, s))[2]]
                         ELSE [kind |-> "plain", chars |-> s]
BY DEF ParseValue, Rests, RestOf

(* The rest of a value is read as parseValue reads it.                     *)
LEMMA RestSays ==
  ASSUME NEW s \in Seq(Char)
  PROVE  LET g == CHOOSE g : Rests(g, s) IN \A i \in 2 .. Len(s) + 1 : g[i] = RestOf(g, s, i)
<1> DEFINE n == Len(s) + 1
           Stop == {i \in 2 .. n : i >= Len(s)}
           Esc(i) == s[i] = Back /\ i + 1 < Len(s)
           Dbl(i) == s[i] = Quote /\ s[i + 1] = Quote
           pre == [i \in 2 .. n |-> IF Esc(i) THEN <<Unescaped(s[i + 1])>>
                                    ELSE IF Dbl(i) THEN <<Quote>> ELSE <<s[i]>>]
           next == [i \in 2 .. n |-> IF Esc(i) \/ Dbl(i) THEN i + 2 ELSE i + 1]
<1>1. Len(s) \in Nat /\ n \in Nat /\ \A i \in 1 .. Len(s) : s[i] \in Char
  OBVIOUS
<1>2. Ahead(Char, 2, n, Stop, pre, next)
  <2> SUFFICES ASSUME NEW i \in 2 .. n, i \notin Stop
               PROVE  pre[i] \in Seq(Char) /\ next[i] \in i + 1 .. n
    BY DEF Ahead
  <2>1. i \in Nat /\ i < Len(s) /\ i \in 1 .. Len(s) /\ i + 1 \in 1 .. Len(s)
    BY <1>1
  <2>2. s[i] \in Char /\ Unescaped(s[i + 1]) \in Char /\ Quote \in Char
    BY <1>1, <2>1, SignsAreChars DEF Unescaped
  <2>3. pre[i] \in Seq(Char)
    BY <2>2
  <2>4. next[i] \in i + 1 .. n
    BY <1>1, <2>1
  <2> QED
    BY <2>3, <2>4
<1>3. \A g : \A i \in 2 .. n :
        RestOf(g, s, i) = IF i \in Stop THEN <<>> ELSE pre[i] \o g[next[i]]
  <2> SUFFICES ASSUME NEW g, NEW i \in 2 .. n
               PROVE  RestOf(g, s, i) = IF i \in Stop THEN <<>> ELSE pre[i] \o g[next[i]]
    OBVIOUS
  <2>1. CASE i \in Stop
    BY <2>1 DEF RestOf
  <2>2. CASE i \notin Stop /\ Esc(i)
    BY <1>1, <2>2 DEF RestOf
  <2>3. CASE i \notin Stop /\ ~Esc(i) /\ Dbl(i)
    BY <1>1, <2>3 DEF RestOf
  <2>4. CASE i \notin Stop /\ ~Esc(i) /\ ~Dbl(i)
    BY <1>1, <2>4 DEF RestOf
  <2> QED
    BY <2>1, <2>2, <2>3, <2>4
<1> HIDE DEF n, Stop, pre, next
<1>4. PICK g : Onward(g, Char, 2, n, Stop, pre, next)
  BY <1>1, <1>2, Backward
<1>5. g = [i \in 2 .. n |-> g[i]] /\ \A i \in 2 .. n : g[i] = RestOf(g, s, i)
  BY <1>3, <1>4 DEF Onward
<1>6. Rests(g, s)
  BY <1>5 DEF Rests, n
<1> DEFINE h == CHOOSE g_1 : Rests(g_1, s)
<1>7. Rests(h, s)
  BY <1>6
<1> HIDE DEF h
<1>8. \A i \in 2 .. Len(s) + 1 : h[i] = RestOf(h, s, i)
  BY <1>7 DEF Rests
<1> QED
  BY <1>8 DEF h

(* A statement ends in its text or behind it.                              *)
LEMMA StatementEndTyped ==
  ASSUME NEW s \in Seq(Char)
  PROVE  StatementEnd(s) \in 1 .. Len(s) + 1
<1> DEFINE T == Outside(s, Semicolon) \cup {Len(s) + 1}
<1>1. Len(s) \in Nat /\ DOMAIN s = 1 .. Len(s)
  OBVIOUS
<1>2. Outside(s, Semicolon) \subseteq DOMAIN s
  BY DEF Outside
<1>3. T \subseteq 1 .. Len(s) + 1 /\ T \in SUBSET Nat /\ T # {}
  <2>1. Len(s) + 1 \in T
    OBVIOUS
  <2>2. ASSUME NEW t \in T PROVE t \in 1 .. Len(s) + 1
    <3>1. t \in DOMAIN s \/ t = Len(s) + 1
      BY <1>2
    <3>2. \A u \in 1 .. Len(s) : u \in 1 .. Len(s) + 1
      BY <1>1
    <3>3. Len(s) + 1 \in 1 .. Len(s) + 1
      BY <1>1
    <3> HIDE DEF T
    <3> QED
      BY <1>1, <3>1, <3>2, <3>3
  <2>3. 1 .. Len(s) + 1 \subseteq Nat
    BY <1>1
  <2> HIDE DEF T
  <2> QED
    BY <2>1, <2>2, <2>3
<1> HIDE DEF T
<1>4. Min(T) \in T
  BY <1>3, Least
<1> QED
  BY <1>3, <1>4 DEF StatementEnd, T

(* Tuples are numbered from 1.                                             *)
LEMMA TuplesTyped ==
  ASSUME NEW s \in Seq(Char)
  PROVE  \E k \in Nat : DOMAIN Tuples(s) = 1 .. k
<1> DEFINE opens == Outside(s, "(")
           closes == Outside(s, ")")
           depth(i) == Cardinality({o \in opens : o < i}) - Cardinality({c \in closes : c < i})
           ends(o) == {c \in closes : c > o /\ depth(c) = 1}
           first == {o \in opens : depth(o) = 0 /\ ends(o) # {}}
<1>1. first \subseteq 1 .. Len(s) /\ Len(s) \in Nat
  BY DEF Outside
<1>2. DOMAIN Tuples(s) = 1 .. Cardinality(first)
  BY DEF Tuples
<1> HIDE DEF first
<1>3. IsFiniteSet(1 .. Len(s))
  BY <1>1, FS_Interval
<1>4. Cardinality(first) \in Nat
  BY <1>1, <1>3, FS_Subset, FS_CardinalityType
<1> QED
  BY <1>2, <1>4

(* The statements of s from i on. *)
Heads(s, i) == {h \in DOMAIN s : h >= i /\ s[h] = Insert}
After(s, i) == SubSeq(s, Min(Heads(s, i)) + 1, Len(s))
RowsAt(s, i) ==
  LET tuples == Tuples(SubSeq(After(s, i), 1, StatementEnd(After(s, i)) - 1))
  IN  [n \in DOMAIN tuples |-> ParseRow(tuples[n])]
Behind(s, i) == Min(Heads(s, i)) + StatementEnd(After(s, i)) + 1

RowsOf(g, s, i) == IF Heads(s, i) = {} THEN <<>> ELSE RowsAt(s, i) \o g[Behind(s, i)]

ParsesInto(g, s) == g = [i \in 1 .. Len(s) + 2 |-> RowsOf(g, s, i)]

LEMMA DumpChosen == ASSUME NEW s PROVE ParseDump(s) = (CHOOSE g : ParsesInto(g, s))[1]
BY DEF ParseDump, ParsesInto, RowsOf, Heads, After, RowsAt, Behind

(* The search for a head goes on further behind.                           *)
LEMMA BehindAhead ==
  ASSUME NEW s \in Seq(Char), NEW i \in 1 .. Len(s) + 2, Heads(s, i) # {}
  PROVE  Behind(s, i) \in i + 1 .. Len(s) + 2
<1> DEFINE h == Min(Heads(s, i))
           a == After(s, i)
<1>1. Len(s) \in Nat /\ DOMAIN s = 1 .. Len(s) /\ \A j \in 1 .. Len(s) : s[j] \in Char
  OBVIOUS
<1>2. Heads(s, i) \in SUBSET Nat
  BY <1>1 DEF Heads
<1>3. h \in Heads(s, i)
  BY <1>2, Least
<1>4. h \in 1 .. Len(s) /\ h >= i
  BY <1>1, <1>3 DEF Heads
<1> HIDE DEF h
<1>5. SubSeq(s, h + 1, Len(s)) \in Seq(Char) /\ Len(SubSeq(s, h + 1, Len(s))) = Len(s) - h
  <2>1. h + 1 \in Int /\ Len(s) \in Int /\ \A j \in h + 1 .. Len(s) : s[j] \in Char
    BY <1>1, <1>4
  <2> QED
    BY <1>4, <2>1, SubSeqProperties
<1>6. a \in Seq(Char) /\ Len(a) = Len(s) - h
  BY <1>5 DEF After, h
<1> HIDE DEF a
<1>7. StatementEnd(a) \in 1 .. Len(a) + 1
  BY <1>6, StatementEndTyped
<1>8. Behind(s, i) = h + StatementEnd(a) + 1
  BY DEF Behind, h, a
<1> QED
  BY <1>1, <1>4, <1>6, <1>7, <1>8

(* From a place on, the next statement is read and what is behind it.      *)
LEMMA ReadSays ==
  ASSUME NEW s \in Seq(Char)
  PROVE  LET g == CHOOSE g : ParsesInto(g, s)
         IN  ParseDump(s) = g[1] /\ \A i \in 1 .. Len(s) + 2 : g[i] = RowsOf(g, s, i)
<1> DEFINE n == Len(s) + 2
           Stop == {i \in 1 .. n : Heads(s, i) = {}}
           S == {RowsAt(s, p[1])[p[2]] : p \in (1 .. n) \X Nat}
           pre == [i \in 1 .. n |-> RowsAt(s, i)]
           next == [i \in 1 .. n |-> Behind(s, i)]
<1>1. Len(s) \in Nat /\ n \in Nat /\ \A j \in 1 .. Len(s) : s[j] \in Char
  OBVIOUS
<1>2. ASSUME NEW i \in 1 .. n, i \notin Stop PROVE pre[i] \in Seq(S) /\ next[i] \in i + 1 .. n
  <2> DEFINE t == SubSeq(After(s, i), 1, StatementEnd(After(s, i)) - 1)
             h == Min(Heads(s, i))
  <2>1. h \in 1 .. Len(s)
    <3>1. Heads(s, i) \in SUBSET Nat /\ Heads(s, i) # {} /\ Heads(s, i) \subseteq 1 .. Len(s)
      BY <1>2, <1>1 DEF Heads
    <3> QED
      BY <3>1, Least
  <2>2. After(s, i) \in Seq(Char)
    <3> HIDE DEF h
    <3>1. h + 1 \in Int /\ Len(s) \in Int /\ \A j \in h + 1 .. Len(s) : s[j] \in Char
      BY <1>1, <2>1
    <3>2. SubSeq(s, h + 1, Len(s)) \in Seq(Char)
      BY <3>1, SubSeqProperties
    <3> QED
      BY <3>2 DEF After, h
  <2>3. t \in Seq(Char)
    <3> DEFINE a == After(s, i)
               e == StatementEnd(a) - 1
    <3>1. a \in Seq(Char) /\ e \in 0 .. Len(a)
      BY <2>2, StatementEndTyped
    <3> HIDE DEF a, e
    <3>2. 1 \in Int /\ e \in Int /\ \A j \in 1 .. e : a[j] \in Char
      BY <3>1
    <3>3. SubSeq(a, 1, e) \in Seq(Char)
      BY <3>2, SubSeqProperties
    <3> QED
      BY <3>3 DEF a, e
  <2> HIDE DEF t
  <2>4. PICK k \in Nat : DOMAIN Tuples(t) = 1 .. k
    BY <2>3, TuplesTyped
  <2>5. pre[i] = RowsAt(s, i) /\ DOMAIN RowsAt(s, i) = 1 .. k /\ next[i] = Behind(s, i)
    BY <2>4 DEF RowsAt, t
  <2>6. RowsAt(s, i) = [m \in 1 .. k |-> RowsAt(s, i)[m]]
    BY <2>4 DEF RowsAt, t
  <2>7. \A m \in 1 .. k : RowsAt(s, i)[m] \in S
    <3> SUFFICES ASSUME NEW m \in 1 .. k PROVE RowsAt(s, i)[m] \in S
      OBVIOUS
    <3>1. <<i, m>> \in (1 .. n) \X Nat /\ <<i, m>>[1] = i /\ <<i, m>>[2] = m
      OBVIOUS
    <3> QED
      BY <3>1
  <2> HIDE DEF S, pre, next
  <2>8. RowsAt(s, i) \in Seq(S)
    BY <2>4, <2>6, <2>7
  <2>9. Behind(s, i) \in i + 1 .. n
    <3>1. Heads(s, i) # {}
      BY <1>2
    <3> QED
      BY <3>1, BehindAhead
  <2> QED
    BY <2>5, <2>8, <2>9
<1>3. ASSUME NEW g, NEW i \in 1 .. n
      PROVE  RowsOf(g, s, i) = IF i \in Stop THEN <<>> ELSE pre[i] \o g[next[i]]
  BY DEF RowsOf
<1>4. \A g : ParsesInto(g, s) <=> g = [i \in 1 .. n |-> RowsOf(g, s, i)]
  BY DEF ParsesInto
<1> HIDE DEF n, Stop, pre, next, S
<1>5. Ahead(S, 1, n, Stop, pre, next)
  BY <1>2 DEF Ahead
<1>6. PICK g : Onward(g, S, 1, n, Stop, pre, next)
  BY <1>1, <1>5, Backward
<1>7. g = [i \in 1 .. n |-> g[i]] /\ \A i \in 1 .. n : g[i] = RowsOf(g, s, i)
  BY <1>3, <1>6 DEF Onward
<1>8. ParsesInto(g, s)
  BY <1>4, <1>7
<1> DEFINE f == CHOOSE k : ParsesInto(k, s)
<1>9. ParsesInto(f, s) /\ ParseDump(s) = f[1]
  BY <1>8, DumpChosen
<1> HIDE DEF f
<1>10. \A i \in 1 .. n : f[i] = RowsOf(f, s, i)
  BY <1>4, <1>9
<1> QED
  BY <1>9, <1>10 DEF f, n

-----------------------------------------------------------------------------
(* The scanner sees in a part of a text what it sees in the part alone     *)

Neat(a) == Scan(a)[Len(a) + 1] = "out"

(* A quote that ends a is not doubled by one that begins b. *)
Apart(a, b) == a = <<>> \/ b = <<>> \/ a[Len(a)] # Quote \/ b[1] # Quote

(* Only at a quote does the next character matter.                         *)
LEMMA MovesAlone == ASSUME NEW b, NEW c, c # Quote, NEW d, NEW e PROVE Moves(b, c, d) = Moves(b, c, e)
BY DEF Moves

(* In a text that stands in another, begun outside a string and not ended  *)
(* by a quote that is doubled, the scanner has its states.                 *)
LEMMA Local ==
  ASSUME NEW s \in Seq(Char), NEW a \in Seq(Char), NEW k \in Nat, k + Len(a) <= Len(s),
         \A i \in 1 .. Len(a) : s[k + i] = a[i],
         Scan(s)[k + 1] = "out",
         a # <<>> => a[Len(a)] # Quote \/ ~(k + Len(a) < Len(s) /\ s[k + Len(a) + 1] = Quote)
  PROVE  \A i \in 1 .. Len(a) + 1 : Scan(s)[k + i] = Scan(a)[i]
<1> DEFINE T == {n \in Nat : n <= Len(a) => Scan(s)[k + (n + 1)] = Scan(a)[n + 1]}
<1>1. Len(s) \in Nat /\ Len(a) \in Nat
  OBVIOUS
<1>2. 0 \in T
  <2>1. 0 + 1 = 1 /\ Scan(a)[1] = "out"
    BY ScanSays
  <2> QED
    BY <2>1
<1>3. ASSUME NEW n \in Nat, n \in T PROVE n + 1 \in T
  <2> SUFFICES ASSUME n + 1 <= Len(a) PROVE Scan(s)[k + ((n + 1) + 1)] = Scan(a)[(n + 1) + 1]
    OBVIOUS
  <2> DEFINE i == n + 1
             d == i < Len(a) /\ a[i + 1] = Quote
             e == k + i < Len(s) /\ s[(k + i) + 1] = Quote
  <2>1. Scan(s)[k + i] = Scan(a)[i] /\ i \in 1 .. Len(a) /\ k + i \in 1 .. Len(s) /\ s[k + i] = a[i]
    BY <1>1, <1>3
  <2>2. Scan(a)[i + 1] = Moves(Scan(a)[i], a[i], d)
    BY <2>1, ScanSays
  <2>3. Scan(s)[(k + i) + 1] = Moves(Scan(s)[k + i], s[k + i], e)
    BY <2>1, ScanSays
  <2>4. (d <=> e) \/ a[i] # Quote
    <3>1. CASE i < Len(a)
      <4>1. i + 1 \in 1 .. Len(a) /\ k + (i + 1) = (k + i) + 1 /\ k + i < Len(s)
        BY <1>1, <3>1
      <4>2. s[(k + i) + 1] = a[i + 1]
        BY <4>1
      <4> QED
        BY <3>1, <4>1, <4>2
    <3>2. CASE i = Len(a)
      <4>1. a # <<>> /\ k + Len(a) + 1 = (k + i) + 1
        <5>1. i # 0 /\ k + Len(a) + 1 = (k + Len(a)) + 1
          BY <1>1
        <5>2. Len(<<>>) = 0
          OBVIOUS
        <5> QED
          BY <3>2, <5>1, <5>2
      <4>2. a[Len(a)] # Quote \/ ~e
        BY <3>2, <4>1
      <4> QED
        BY <1>1, <3>2, <4>2
    <3> QED
      BY <1>1, <2>1, <3>1, <3>2
  <2>5. Moves(Scan(a)[i], a[i], d) = Moves(Scan(a)[i], a[i], e)
    <3>1. CASE a[i] # Quote
      BY <3>1, MovesAlone
    <3>2. CASE d <=> e
      <4>1. d = e
        BY <3>2
      <4> QED
        BY <4>1
    <3> QED
      BY <2>4, <3>1, <3>2
  <2>6. k + (i + 1) = (k + i) + 1
    BY <2>1
  <2> HIDE DEF d, e
  <2> QED
    BY <2>1, <2>2, <2>3, <2>5, <2>6
<1> HIDE DEF T
<1>4. Nat \subseteq T
  BY <1>2, <1>3, Counting
<1> SUFFICES ASSUME NEW i \in 1 .. Len(a) + 1 PROVE Scan(s)[k + i] = Scan(a)[i]
  OBVIOUS
<1>5. PICK n \in Nat : i = n + 1 /\ n <= Len(a)
  <2>1. i - 1 \in Nat /\ i = (i - 1) + 1 /\ i - 1 <= Len(a)
    BY <1>1
  <2> QED
    BY <2>1
<1> QED
  BY <1>4, <1>5 DEF T

(* What the concatenation of two texts is.                                 *)
LEMMA Concat ==
  ASSUME NEW a \in Seq(Char), NEW b \in Seq(Char)
  PROVE  /\ a \o b \in Seq(Char) /\ Len(a \o b) = Len(a) + Len(b) /\ Len(a) \in Nat /\ Len(b) \in Nat
         /\ DOMAIN (a \o b) = 1 .. Len(a) + Len(b)
         /\ \A i \in 1 .. Len(a) : (a \o b)[i] = a[i]
         /\ \A i \in 1 .. Len(b) : (a \o b)[Len(a) + i] = b[i]
<1>1. Len(a) \in Nat /\ Len(b) \in Nat
  OBVIOUS
<1>2. /\ a \o b \in Seq(Char) /\ Len(a \o b) = Len(a) + Len(b)
      /\ \A i \in 1 .. Len(a) + Len(b) : (a \o b)[i] = IF i <= Len(a) THEN a[i] ELSE b[i - Len(a)]
  BY ConcatProperties
<1>3. \A i \in 1 .. Len(a) : (a \o b)[i] = a[i]
  BY <1>1, <1>2
<1>4. ASSUME NEW i \in 1 .. Len(b) PROVE (a \o b)[Len(a) + i] = b[i]
  <2>1. Len(a) + i \in 1 .. Len(a) + Len(b) /\ ~(Len(a) + i <= Len(a)) /\ (Len(a) + i) - Len(a) = i
    BY <1>1
  <2> QED
    BY <1>2, <2>1
<1>5. DOMAIN (a \o b) = 1 .. Len(a) + Len(b)
  BY <1>2
<1> QED
  BY <1>1, <1>2, <1>3, <1>4, <1>5

(* Behind a neat text the scanner starts afresh.                           *)
LEMMA ScanConcat ==
  ASSUME NEW a \in Seq(Char), NEW b \in Seq(Char), Neat(a), Apart(a, b)
  PROVE  /\ \A i \in 1 .. Len(a) + 1 : Scan(a \o b)[i] = Scan(a)[i]
         /\ \A i \in 1 .. Len(b) + 1 : Scan(a \o b)[Len(a) + i] = Scan(b)[i]
<1> DEFINE s == a \o b
<1>1. /\ s \in Seq(Char) /\ Len(s) = Len(a) + Len(b) /\ Len(a) \in Nat /\ Len(b) \in Nat
      /\ \A i \in 1 .. Len(a) : s[i] = a[i]
      /\ \A i \in 1 .. Len(b) : s[Len(a) + i] = b[i]
  BY Concat
<1> HIDE DEF s
<1>2. \A i \in 1 .. Len(a) + 1 : Scan(s)[0 + i] = Scan(a)[i]
  <2>1. Scan(s)[0 + 1] = "out" /\ 0 \in Nat /\ 0 + Len(a) <= Len(s)
    BY <1>1, ScanSays
  <2>2. \A i \in 1 .. Len(a) : s[0 + i] = a[i]
    BY <1>1
  <2>3. a # <<>> => a[Len(a)] # Quote \/ ~(0 + Len(a) < Len(s) /\ s[0 + Len(a) + 1] = Quote)
    <3> SUFFICES ASSUME a # <<>>, Len(a) < Len(s) PROVE a[Len(a)] # Quote \/ s[Len(a) + 1] # Quote
      BY <1>1
    <3>1. 1 \in 1 .. Len(b) /\ b # <<>>
      BY <1>1
    <3> QED
      BY <1>1, <3>1 DEF Apart
  <2> QED
    BY <1>1, <2>1, <2>2, <2>3, Local
<1>3. \A i \in 1 .. Len(a) + 1 : Scan(s)[i] = Scan(a)[i]
  BY <1>1, <1>2
<1>4. Scan(s)[Len(a) + 1] = "out"
  BY <1>1, <1>3 DEF Neat
<1>5. \A i \in 1 .. Len(b) + 1 : Scan(s)[Len(a) + i] = Scan(b)[i]
  <2>1. Len(a) + Len(b) <= Len(s) /\ ~(Len(a) + Len(b) < Len(s))
    BY <1>1
  <2> QED
    BY <1>1, <1>4, <2>1, Local
<1> QED
  BY <1>3, <1>5 DEF s

(* Neat texts put together are neat; what stands outside strings adds up.  *)
LEMMA NeatConcat ==
  ASSUME NEW a \in Seq(Char), NEW b \in Seq(Char), Neat(a), Neat(b), Apart(a, b)
  PROVE  /\ Neat(a \o b)
         /\ \A c : Outside(a \o b, c) = Outside(a, c) \cup {Len(a) + i : i \in Outside(b, c)}
<1> DEFINE s == a \o b
<1>1. /\ Len(s) = Len(a) + Len(b) /\ Len(a) \in Nat /\ Len(b) \in Nat /\ DOMAIN s = 1 .. Len(a) + Len(b)
      /\ \A i \in 1 .. Len(a) : s[i] = a[i]
      /\ \A i \in 1 .. Len(b) : s[Len(a) + i] = b[i]
  BY Concat
<1>2. /\ \A i \in 1 .. Len(a) + 1 : Scan(s)[i] = Scan(a)[i]
      /\ \A i \in 1 .. Len(b) + 1 : Scan(s)[Len(a) + i] = Scan(b)[i]
  BY ScanConcat
<1>3. DOMAIN a = 1 .. Len(a) /\ DOMAIN b = 1 .. Len(b)
  OBVIOUS
<1> HIDE DEF s
<1>4. Neat(s)
  <2>1. Len(b) + 1 \in 1 .. Len(b) + 1 /\ Len(a) + (Len(b) + 1) = Len(s) + 1
    BY <1>1
  <2>2. Scan(s)[Len(a) + (Len(b) + 1)] = "out"
    BY <1>2, <2>1 DEF Neat
  <2> QED
    BY <2>1, <2>2 DEF Neat
<1>5. ASSUME NEW c PROVE Outside(s, c) = Outside(a, c) \cup {Len(a) + i : i \in Outside(b, c)}
  <2>1. ASSUME NEW i \in 1 .. Len(a) PROVE i \in Outside(s, c) <=> i \in Outside(a, c)
    <3>1. i \in 1 .. Len(a) + 1 /\ i \in DOMAIN s
      BY <1>1
    <3> QED
      BY <1>1, <1>2, <1>3, <3>1 DEF Outside
  <2>2. ASSUME NEW i \in 1 .. Len(b) PROVE Len(a) + i \in Outside(s, c) <=> i \in Outside(b, c)
    <3>1. i \in 1 .. Len(b) + 1 /\ Len(a) + i \in DOMAIN s
      BY <1>1
    <3> QED
      BY <1>1, <1>2, <1>3, <3>1 DEF Outside
  <2>3. Outside(s, c) \subseteq DOMAIN s /\ Outside(a, c) \subseteq DOMAIN a /\ Outside(b, c) \subseteq DOMAIN b
    BY DEF Outside
  <2>4. ASSUME NEW j \in Outside(s, c) PROVE j \in Outside(a, c) \cup {Len(a) + i : i \in Outside(b, c)}
    <3>1. CASE j \in 1 .. Len(a)
      BY <2>1, <2>4, <3>1
    <3>2. CASE j \notin 1 .. Len(a)
      <4>1. j - Len(a) \in 1 .. Len(b) /\ j = Len(a) + (j - Len(a))
        BY <1>1, <2>3, <2>4, <3>2
      <4>2. j - Len(a) \in Outside(b, c)
        BY <2>2, <2>4, <4>1
      <4> QED
        BY <4>1, <4>2
    <3> QED
      BY <3>1, <3>2
  <2>5. Outside(a, c) \cup {Len(a) + i : i \in Outside(b, c)} \subseteq Outside(s, c)
    BY <1>3, <2>1, <2>2, <2>3
  <2> QED
    BY <2>4, <2>5
<1> QED
  BY <1>4, <1>5 DEF s

(* A sign that is not a quote stands outside.                              *)
LEMMA NeatSign ==
  ASSUME NEW c \in Char, c # Quote
  PROVE  /\ <<c>> \in Seq(Char) /\ Len(<<c>>) = 1 /\ <<c>>[1] = c /\ Neat(<<c>>)
         /\ Outside(<<c>>, c) = {1} /\ \A d : d # c => Outside(<<c>>, d) = {}
<1> DEFINE s == <<c>>
<1>1. s \in Seq(Char) /\ Len(s) = 1 /\ s[1] = c /\ DOMAIN s = {1}
  OBVIOUS
<1> HIDE DEF s
<1>2. Scan(s)[1] = "out" /\ Scan(s)[1 + 1] = Moves(Scan(s)[1], s[1], 1 < Len(s) /\ s[1 + 1] = Quote)
  BY <1>1, ScanSays
<1>3. Neat(s)
  BY <1>1, <1>2 DEF Neat, Moves
<1>4. Outside(s, c) = {1} /\ \A d : d # c => Outside(s, d) = {}
  BY <1>1, <1>2 DEF Outside
<1> QED
  BY <1>1, <1>3, <1>4 DEF s

-----------------------------------------------------------------------------
(* Where the parts of a joined text stand                                  *)

(* Where the n-th part begins. *)
Offset(g, n, between) == Len(g[n - 1]) + (IF n = 1 THEN 0 ELSE Len(between))

(* The n-th part stands at its offset.                                     *)
LEMMA JoinedStep ==
  ASSUME NEW parts \in Seq(Seq(Char)), NEW between \in Seq(Char), NEW g, Joined(g, parts, between),
         NEW n \in 1 .. Len(parts)
  PROVE  /\ g[n - 1] \in Seq(Char) /\ g[n] \in Seq(Char) /\ parts[n] \in Seq(Char)
         /\ Len(g[n - 1]) \in Nat /\ Len(g[n]) \in Nat /\ Len(parts[n]) \in Nat
         /\ Offset(g, n, between) \in Nat
         /\ Len(g[n]) = Offset(g, n, between) + Len(parts[n])
         /\ Len(g[n - 1]) <= Offset(g, n, between)
         /\ \A i \in 1 .. Len(g[n - 1]) : g[n][i] = g[n - 1][i]
         /\ n # 1 => \A i \in 1 .. Len(between) : g[n][Len(g[n - 1]) + i] = between[i]
         /\ \A i \in 1 .. Len(parts[n]) : g[n][Offset(g, n, between) + i] = parts[n][i]
<1> DEFINE a == g[n - 1]
           b == IF n = 1 THEN <<>> ELSE between
           c == parts[n]
<1>1. n - 1 \in 0 .. Len(parts) /\ n \in 0 .. Len(parts)
  OBVIOUS
<1>2. a \in Seq(Char) /\ b \in Seq(Char) /\ c \in Seq(Char) /\ g[n] \in Seq(Char)
  <2>1. a \in Seq(Char) /\ g[n] \in Seq(Char)
    BY <1>1 DEF Joined
  <2>2. b \in Seq(Char)
    OBVIOUS
  <2>3. c \in Seq(Char)
    BY ElementOfSeq
  <2> QED
    BY <2>1, <2>2, <2>3
<1>3. g[n] = (a \o b) \o c
  BY DEF Joined
<1>4. Len(b) = IF n = 1 THEN 0 ELSE Len(between)
  OBVIOUS
<1> HIDE DEF a, b, c
<1>5. /\ a \o b \in Seq(Char) /\ Len(a \o b) = Len(a) + Len(b) /\ Len(a) \in Nat /\ Len(b) \in Nat
      /\ \A i \in 1 .. Len(a) : (a \o b)[i] = a[i]
      /\ \A i \in 1 .. Len(b) : (a \o b)[Len(a) + i] = b[i]
  BY <1>2, Concat
<1> DEFINE d == a \o b
<1>6. d \in Seq(Char) /\ Len(d) = Len(a) + Len(b) /\ g[n] = d \o c
  BY <1>3, <1>5
<1>7. \A i \in 1 .. Len(a) : d[i] = a[i]
  BY <1>5
<1>8. \A i \in 1 .. Len(b) : d[Len(a) + i] = b[i]
  BY <1>5
<1> HIDE DEF d
<1>9. /\ Len(g[n]) = Len(d) + Len(c) /\ Len(c) \in Nat
      /\ \A i \in 1 .. Len(d) : g[n][i] = d[i]
      /\ \A i \in 1 .. Len(c) : g[n][Len(d) + i] = c[i]
  <2>1. /\ Len(d \o c) = Len(d) + Len(c) /\ Len(c) \in Nat
        /\ \A i \in 1 .. Len(d) : (d \o c)[i] = d[i]
        /\ \A i \in 1 .. Len(c) : (d \o c)[Len(d) + i] = c[i]
    BY <1>2, <1>6, Concat
  <2> QED
    BY <1>6, <2>1
<1>10. \A i \in 1 .. Len(a) : g[n][i] = a[i]
  BY <1>5, <1>6, <1>7, <1>9
<1>11. \A i \in 1 .. Len(b) : g[n][Len(a) + i] = b[i]
  BY <1>5, <1>6, <1>8, <1>9
<1>12. Offset(g, n, between) = Len(d)
  BY <1>4, <1>6 DEF Offset, a
<1>13. n # 1 => b = between
  BY DEF b
<1>14. Len(d) \in Nat /\ Len(a) <= Len(d) /\ Len(g[n]) \in Nat
  BY <1>5, <1>6, <1>9
<1>15. n # 1 => \A i \in 1 .. Len(between) : g[n][Len(a) + i] = between[i]
  BY <1>11, <1>13
<1>16. \A i \in 1 .. Len(c) : g[n][Offset(g, n, between) + i] = c[i]
  BY <1>9, <1>12
<1>17. Len(g[n]) = Offset(g, n, between) + Len(c)
  BY <1>9, <1>12
<1> QED
  BY <1>2, <1>5, <1>9, <1>10, <1>12, <1>14, <1>15, <1>16, <1>17 DEF a, c

(* The text of fewer parts begins the text of more.                        *)
LEMMA JoinedPrefix ==
  ASSUME NEW parts \in Seq(Seq(Char)), NEW between \in Seq(Char), NEW g, Joined(g, parts, between),
         NEW m \in 0 .. Len(parts), NEW n \in m .. Len(parts)
  PROVE  /\ Len(g[m]) \in Nat /\ Len(g[n]) \in Nat /\ Len(g[m]) <= Len(g[n])
         /\ \A i \in 1 .. Len(g[m]) : g[n][i] = g[m][i]
<1> DEFINE P(k) == Len(g[m]) <= Len(g[k]) /\ \A i \in 1 .. Len(g[m]) : g[k][i] = g[m][i]
           T == {k \in Nat : m + k <= Len(parts) => P(m + k)}
<1>1. Len(parts) \in Nat /\ \A k \in 0 .. Len(parts) : g[k] \in Seq(Char) /\ Len(g[k]) \in Nat
  BY DEF Joined
<1>2. 0 \in T
  <2>1. m + 0 = m /\ P(m)
    BY <1>1
  <2> HIDE DEF P
  <2> QED
    BY <2>1
<1>3. ASSUME NEW k \in Nat, k \in T PROVE k + 1 \in T
  <2> SUFFICES ASSUME m + (k + 1) <= Len(parts) PROVE P(m + (k + 1))
    OBVIOUS
  <2> DEFINE j == m + (k + 1)
  <2>1. j \in 1 .. Len(parts) /\ j - 1 = m + k /\ m + k <= Len(parts)
    BY <1>1
  <2>2. P(j - 1)
    <3> HIDE DEF P
    <3> QED
      BY <1>3, <2>1
  <2>3. /\ Len(g[j - 1]) \in Nat /\ Len(g[j]) \in Nat /\ Len(g[j - 1]) <= Len(g[j])
        /\ \A i \in 1 .. Len(g[j - 1]) : g[j][i] = g[j - 1][i]
    <3> HIDE DEF j
    <3>1. /\ Len(g[j - 1]) \in Nat /\ Len(g[j]) \in Nat /\ Len(parts[j]) \in Nat
          /\ Offset(g, j, between) \in Nat
          /\ Len(g[j]) = Offset(g, j, between) + Len(parts[j])
          /\ Len(g[j - 1]) <= Offset(g, j, between)
          /\ \A i \in 1 .. Len(g[j - 1]) : g[j][i] = g[j - 1][i]
      BY <2>1, JoinedStep
    <3> QED
      BY <3>1
  <2> HIDE DEF j
  <2>a. Len(g[m]) \in Nat
    BY <1>1
  <2>4. P(j)
    <3>1. Len(g[m]) <= Len(g[j])
      BY <2>2, <2>3, <2>a
    <3>2. ASSUME NEW i \in 1 .. Len(g[m]) PROVE g[j][i] = g[m][i]
      <4>1. i \in 1 .. Len(g[j - 1])
        BY <2>2, <2>3, <2>a
      <4>2. g[j][i] = g[j - 1][i] /\ g[j - 1][i] = g[m][i]
        BY <2>2, <2>3, <4>1
      <4> QED
        BY <4>2
    <3> QED
      BY <3>1, <3>2
  <2> QED
    BY <2>4 DEF j
<1> HIDE DEF T
<1>4. Nat \subseteq T
  BY <1>2, <1>3, Counting
<1>5. n - m \in Nat /\ m + (n - m) = n /\ n \in 0 .. Len(parts)
  BY <1>1
<1>6. P(n)
  <2> HIDE DEF P
  <2> QED
    <3>1. n - m \in T
      BY <1>4, <1>5
    <3>2. m + (n - m) <= Len(parts) => P(m + (n - m))
      BY <3>1 DEF T
    <3> QED
      BY <1>1, <1>5, <3>2
<1> QED
  BY <1>1, <1>5, <1>6

(* So do the parts in the whole text.                                      *)
LEMMA JoinPlaces ==
  ASSUME NEW parts \in Seq(Seq(Char)), NEW between \in Seq(Char), NEW g, Joined(g, parts, between),
         NEW n \in 1 .. Len(parts)
  PROVE  LET s == g[Len(parts)]
         IN  /\ Len(g[n]) <= Len(s)
             /\ n # 1 => \A i \in 1 .. Len(between) : s[Len(g[n - 1]) + i] = between[i]
             /\ \A i \in 1 .. Len(parts[n]) : s[Offset(g, n, between) + i] = parts[n][i]
<1> DEFINE s == g[Len(parts)]
           o == Offset(g, n, between)
<1>1. /\ Len(g[n]) <= Len(s)
      /\ \A i \in 1 .. Len(g[n]) : s[i] = g[n][i]
  <2>1. n \in 0 .. Len(parts) /\ Len(parts) \in n .. Len(parts)
    OBVIOUS
  <2> QED
    BY <2>1, JoinedPrefix
<1>2. /\ Len(g[n - 1]) \in Nat /\ Len(g[n]) \in Nat /\ Len(parts[n]) \in Nat /\ o \in Nat
      /\ Len(g[n]) = o + Len(parts[n])
      /\ n # 1 => \A i \in 1 .. Len(between) : g[n][Len(g[n - 1]) + i] = between[i]
      /\ \A i \in 1 .. Len(parts[n]) : g[n][o + i] = parts[n][i]
  BY JoinedStep
<1>3. n # 1 => o = Len(g[n - 1]) + Len(between)
  BY DEF Offset
<1>4. Len(between) \in Nat
  OBVIOUS
<1> HIDE DEF s, o
<1>5. \A i \in 1 .. Len(parts[n]) : s[o + i] = parts[n][i]
  <2> SUFFICES ASSUME NEW i \in 1 .. Len(parts[n])
               PROVE  s[o + i] = parts[n][i]
    OBVIOUS
  <2> DEFINE y == Len(g[n])
             w == Len(parts[n])
  <2>1. y \in Nat /\ w \in Nat /\ o \in Nat /\ y = o + w /\ i \in 1 .. w
    BY <1>2
  <2>2. o + i \in 1 .. y
    <3> HIDE DEF y, w
    <3> QED
      BY <2>1
  <2>3. g[n][o + i] = parts[n][i]
    BY <1>2
  <2> QED
    BY <1>1, <2>2, <2>3
<1>6. n # 1 => \A i \in 1 .. Len(between) : s[Len(g[n - 1]) + i] = between[i]
  <2> SUFFICES ASSUME n # 1, NEW i \in 1 .. Len(between)
               PROVE  s[Len(g[n - 1]) + i] = between[i]
    OBVIOUS
  <2> DEFINE x == Len(g[n - 1])
             y == Len(g[n])
             z == Len(between)
             w == Len(parts[n])
  <2>a. x \in Nat /\ y \in Nat /\ z \in Nat /\ o \in Nat /\ o = x + z /\ w \in Nat /\ y = o + w
    BY <1>2, <1>3, <1>4
  <2>b. i \in 1 .. z
    OBVIOUS
  <2>1. x + i \in 1 .. y
    <3> HIDE DEF x, y, z, w
    <3>1. i \in Nat /\ 1 <= i /\ i <= z
      BY <2>a, <2>b
    <3>2. x + i <= x + z /\ x + i \in Nat /\ 1 <= x + i
      BY <2>a, <3>1
    <3>3. x + i <= y
      BY <2>a, <3>2
    <3> QED
      BY <2>a, <3>2, <3>3
  <2> QED
    BY <1>1, <1>2, <2>1
<1> QED
  BY <1>1, <1>5, <1>6 DEF s, o

(* In short: where a part stands, and that the whole text is long enough. *)
LEMMA JoinPlace ==
  ASSUME NEW parts \in Seq(Seq(Char)), NEW between \in Seq(Char), NEW g, Joined(g, parts, between),
         NEW n \in 1 .. Len(parts)
  PROVE  LET s == g[Len(parts)]
         IN  Len(g[n]) <= Len(s) /\ \A i \in 1 .. Len(parts[n]) : s[Offset(g, n, between) + i] = parts[n][i]
BY JoinPlaces

-----------------------------------------------------------------------------
(* Positions counted in their order                                        *)

Rising(e, N) == e \in [1 .. N -> Nat] /\ \A i, j \in 1 .. N : i < j => e[i] < e[j]

Places(e, N) == {e[i] : i \in 1 .. N}

Fewer(E, x) == Cardinality({f \in E : f < x})

(* Rising places are counted by their numbers.                             *)
LEMMA CountBelow ==
  ASSUME NEW N \in Nat, NEW e, Rising(e, N), NEW k \in 0 .. N, NEW x,
         \A i \in 1 .. N : e[i] < x <=> i <= k
  PROVE  Fewer(Places(e, N), x) = k
<1> DEFINE B == {f \in Places(e, N) : f < x}
           h == [i \in 1 .. k |-> e[i]]
<1>1. \A i \in 1 .. k : i \in 1 .. N
  OBVIOUS
<1>2. \A b \in B : \E i \in 1 .. k : b = e[i]
  <2> SUFFICES ASSUME NEW b \in B PROVE \E i \in 1 .. k : b = e[i]
    OBVIOUS
  <2>1. PICK i \in 1 .. N : b = e[i]
    BY DEF Places
  <2>2. i \in 1 .. k
    BY <2>1
  <2> QED
    BY <2>1, <2>2
<1>3. \A i \in 1 .. k : e[i] \in B
  BY <1>1 DEF Places
<1>4. \A i, j \in 1 .. k : e[i] = e[j] => i = j
  <2> SUFFICES ASSUME NEW i \in 1 .. k, NEW j \in 1 .. k, e[i] = e[j], i # j PROVE FALSE
    OBVIOUS
  <2>1. e[i] \in Nat /\ e[j] \in Nat /\ (i < j => e[i] < e[j]) /\ (j < i => e[j] < e[i])
    BY <1>1 DEF Rising
  <2>2. i < j \/ j < i
    OBVIOUS
  <2> QED
    BY <2>1, <2>2
<1> HIDE DEF B
<1>5. h \in [1 .. k -> B]
  BY <1>3
<1>6. h \in Injection(1 .. k, B)
  BY <1>4, <1>5 DEF Injection, IsInjective
<1>7. h \in Surjection(1 .. k, B)
  BY <1>2, <1>5 DEF Surjection
<1>8. ExistsBijection(1 .. k, B)
  BY <1>6, <1>7 DEF ExistsBijection, Bijection
<1>9. Cardinality(B) = k
  BY <1>8, FS_CountingElements
<1> QED
  BY <1>9 DEF Fewer, B

(* There are as many places as numbers.                                    *)
LEMMA CountAll ==
  ASSUME NEW N \in Nat, NEW e, Rising(e, N)
  PROVE  Cardinality(Places(e, N)) = N
<1> DEFINE h == [i \in 1 .. N |-> e[i]]
           B == Places(e, N)
<1>1. \A i, j \in 1 .. N : e[i] = e[j] => i = j
  <2> SUFFICES ASSUME NEW i \in 1 .. N, NEW j \in 1 .. N, e[i] = e[j], i # j PROVE FALSE
    OBVIOUS
  <2>1. e[i] \in Nat /\ e[j] \in Nat /\ (i < j => e[i] < e[j]) /\ (j < i => e[j] < e[i])
    BY DEF Rising
  <2>2. i < j \/ j < i
    OBVIOUS
  <2> QED
    BY <2>1, <2>2
<1>2. \A b \in B : \E i \in 1 .. N : b = e[i]
  BY DEF Places
<1>3. \A i \in 1 .. N : e[i] \in B
  BY DEF Places
<1> HIDE DEF B
<1>5. h \in [1 .. N -> B]
  BY <1>3
<1>6. h \in Injection(1 .. N, B)
  BY <1>1, <1>5 DEF Injection, IsInjective
<1>7. h \in Surjection(1 .. N, B)
  BY <1>2, <1>5 DEF Surjection
<1>8. ExistsBijection(1 .. N, B)
  BY <1>6, <1>7 DEF ExistsBijection, Bijection
<1>9. Cardinality(B) = N
  BY <1>8, FS_CountingElements
<1> QED
  BY <1>9 DEF B

(* The n-th place is the one with n - 1 places before it. *)
LEMMA NthIs ==
  ASSUME NEW N \in Nat, NEW e, Rising(e, N), NEW n \in 1 .. N
  PROVE  (CHOOSE y \in Places(e, N) : Fewer(Places(e, N), y) = n - 1) = e[n]
<1>1. ASSUME NEW j \in 1 .. N PROVE e[j] \in Places(e, N) /\ Fewer(Places(e, N), e[j]) = j - 1
  <2>1. j - 1 \in 0 .. N
    OBVIOUS
  <2>2. ASSUME NEW i \in 1 .. N PROVE e[i] < e[j] <=> i <= j - 1
    <3>1. e[i] \in Nat /\ e[j] \in Nat /\ (i < j => e[i] < e[j]) /\ (j < i => e[j] < e[i]) /\ (i = j => e[i] = e[j])
      BY DEF Rising
    <3>2. i < j \/ j < i \/ i = j
      OBVIOUS
    <3> QED
      BY <3>1, <3>2
  <2>3. Fewer(Places(e, N), e[j]) = j - 1
    BY <2>1, <2>2, CountBelow
  <2> QED
    BY <2>3 DEF Places
<1> DEFINE P == Places(e, N)
<1>2. \A y \in P : \E j \in 1 .. N : y = e[j]
  BY DEF Places
<1> HIDE DEF P
<1>3. ASSUME NEW y \in P, Fewer(P, y) = n - 1 PROVE y = e[n]
  <2>1. PICK j \in 1 .. N : y = e[j]
    BY <1>2
  <2>2. j - 1 = n - 1
    BY <1>1, <1>3, <2>1 DEF P
  <2>3. j = n
    BY <2>2
  <2> QED
    BY <2>1, <2>3
<1>4. e[n] \in P /\ Fewer(P, e[n]) = n - 1
  BY <1>1 DEF P
<1>5. (CHOOSE y \in P : Fewer(P, y) = n - 1) = e[n]
  BY <1>3, <1>4
<1> QED
  BY <1>5 DEF P

-----------------------------------------------------------------------------
(* What stands outside the strings of parts joined by commas               *)

LEMMA NeatEmpty == /\ <<>> \in Seq(Char) /\ Neat(<<>>) /\ \A d : Outside(<<>>, d) = {}
<1>1. <<>> \in Seq(Char) /\ Len(<<>>) = 0 /\ DOMAIN <<>> = {}
  OBVIOUS
<1>2. Scan(<<>>)[1] = "out"
  BY <1>1, ScanSays
<1> QED
  BY <1>1, <1>2 DEF Neat, Outside

(* x is, in the text of the first n parts, the sign d or a comma between.  *)
SignAt(g, parts, n, d, x) ==
  \E j \in 1 .. n : \/ \E i \in Outside(parts[j], d) : x = Offset(g, j, <<Comma>>) + i
                    \/ (j # 1 /\ d = Comma /\ x = Len(g[j - 1]) + 1)

(* Joined neat parts are neat, and what stands outside the strings is      *)
(* what stands so in the parts, and the commas.                            *)
LEMMA JoinOutside ==
  ASSUME NEW parts \in Seq(Seq(Char)), NEW g, Joined(g, parts, <<Comma>>),
         \A n \in 1 .. Len(parts) : Neat(parts[n])
  PROVE  \A n \in 0 .. Len(parts) :
            Neat(g[n]) /\ \A d, x : x \in Outside(g[n], d) <=> SignAt(g, parts, n, d, x)
<1> DEFINE G(n) == Neat(g[n]) /\ \A d, x : x \in Outside(g[n], d) <=> SignAt(g, parts, n, d, x)
           T == {n \in Nat : n <= Len(parts) => G(n)}
           C == <<Comma>>
<1>1. /\ C \in Seq(Char) /\ Len(C) = 1 /\ C[1] = Comma /\ Neat(C)
      /\ Outside(C, Comma) = {1} /\ \A d : d # Comma => Outside(C, d) = {}
  BY SignsAreChars, SignsDiffer, NeatSign
<1>2. Len(parts) \in Nat /\ g[0] = <<>> /\ \A n \in 0 .. Len(parts) : g[n] \in Seq(Char)
  <2>1. Len(parts) \in Nat
    OBVIOUS
  <2>2. g \in [0 .. Len(parts) -> Seq(Char)] /\ g[0] = <<>>
    BY Zenon DEF Joined
  <2> QED
    BY <2>1, <2>2
<1>3. 0 \in T
  <2>1. G(0)
    BY <1>2, NeatEmpty DEF SignAt
  <2> HIDE DEF G
  <2> QED
    BY <2>1
<1>4. ASSUME NEW n \in Nat, n \in T PROVE n + 1 \in T
  <2> SUFFICES ASSUME n + 1 <= Len(parts) PROVE G(n + 1)
    OBVIOUS
  <2> DEFINE m == n + 1
             p == parts[m]
             a == g[n]
             o == Offset(g, m, <<Comma>>)
  <2>1. m \in 1 .. Len(parts) /\ m - 1 = n /\ n \in 0 .. Len(parts) /\ m \in Nat
    BY <1>2
  <2>2. p \in Seq(Char) /\ Neat(p) /\ a \in Seq(Char)
    BY <1>2, <2>1, ElementOfSeq
  <2>3. Neat(a) /\ \A d, x : x \in Outside(a, d) <=> SignAt(g, parts, n, d, x)
    BY <1>4, <2>1
  <2>4. g[m] = a \o (IF m = 1 THEN <<>> ELSE C) \o p
    BY <2>1 DEF Joined
  <2>5. Len(a) \in Nat /\ o = Len(a) + (IF m = 1 THEN 0 ELSE 1)
    <3>1. Len(a) \in Nat
      BY <2>2
    <3>2. Len(<<Comma>>) = 1
      OBVIOUS
    <3>3. o = Len(a) + (IF m = 1 THEN 0 ELSE Len(<<Comma>>))
      BY <2>1, Zenon DEF Offset
    <3> QED
      BY <3>1, <3>2, <3>3
  <2>6. \A d, x : SignAt(g, parts, m, d, x) <=> \/ SignAt(g, parts, n, d, x)
                                                \/ \E i \in Outside(p, d) : x = o + i
                                                \/ (m # 1 /\ d = Comma /\ x = Len(a) + 1)
    <3>1. \A j : j \in 1 .. m <=> j \in 1 .. n \/ j = m
      BY <2>1
    <3> QED
      BY <2>1, <3>1 DEF SignAt
  <2> HIDE DEF m, C
  <2>7. Neat(g[m]) /\ \A d, x : x \in Outside(g[m], d) <=> \/ x \in Outside(a, d)
                                                           \/ \E i \in Outside(p, d) : x = o + i
                                                           \/ (m # 1 /\ d = Comma /\ x = Len(a) + 1)
    <3> HIDE DEF o, p, a
    <3>1. CASE m = 1
      <4>1. a = <<>>
        BY <1>2, <2>1, <3>1 DEF a
      <4>2. g[m] = p
        <5>1. g[m] = <<>> \o <<>> \o p
          BY <2>4, <3>1, <4>1
        <5> QED
          BY <2>2, <5>1
      <4>3. o = 0 /\ \A d : Outside(a, d) = {}
        BY <2>5, <3>1, <4>1, NeatEmpty
      <4>4. \A d : Outside(p, d) \subseteq Nat
        BY <2>2 DEF Outside
      <4> QED
        BY <2>2, <3>1, <4>2, <4>3, <4>4
    <3>2. CASE m # 1
      <4> DEFINE b == a \o C
      <4>1. g[m] = b \o p
        BY <2>4, <3>2
      <4>2. Apart(a, C)
        BY <1>1, SignsDiffer DEF Apart
      <4>3. b \in Seq(Char) /\ Len(b) = Len(a) + 1 /\ b[Len(a) + 1] = Comma
        <5>1. Len(b) = Len(a) + Len(C) /\ b \in Seq(Char) /\ \A i \in 1 .. Len(C) : b[Len(a) + i] = C[i]
          BY <1>1, <2>2, Concat
        <5>2. 1 \in 1 .. Len(C)
          BY <1>1
        <5> HIDE DEF b
        <5> QED
          BY <1>1, <5>1, <5>2
      <4>4. Neat(b) /\ \A d : Outside(b, d) = Outside(a, d) \cup {Len(a) + i : i \in Outside(C, d)}
        BY <1>1, <2>2, <2>3, <4>2, NeatConcat
      <4> HIDE DEF b
      <4>5. Apart(b, p)
        BY <4>3, SignsDiffer DEF Apart
      <4>6. Neat(g[m]) /\ \A d : Outside(g[m], d) = Outside(b, d) \cup {Len(b) + i : i \in Outside(p, d)}
        BY <2>2, <4>1, <4>3, <4>4, <4>5, NeatConcat
      <4>7. o = Len(b)
        BY <2>5, <3>2, <4>3
      <4>8. \A d, x : x \in Outside(b, d) <=> x \in Outside(a, d) \/ (d = Comma /\ x = Len(a) + 1)
        <5> SUFFICES ASSUME NEW d, NEW x
                     PROVE  x \in Outside(b, d) <=> x \in Outside(a, d) \/ (d = Comma /\ x = Len(a) + 1)
          OBVIOUS
        <5>1. CASE d = Comma
          <6>1. Outside(C, d) = {1} /\ Outside(b, d) = Outside(a, d) \cup {Len(a) + i : i \in Outside(C, d)}
            BY <1>1, <4>4, <5>1
          <6> QED
            BY <5>1, <6>1
        <5>2. CASE d # Comma
          <6>1. Outside(C, d) = {} /\ Outside(b, d) = Outside(a, d) \cup {Len(a) + i : i \in Outside(C, d)}
            BY <1>1, <4>4, <5>2
          <6> QED
            BY <5>2, <6>1
        <5> QED
          BY <5>1, <5>2
      <4> SUFFICES ASSUME NEW d, NEW x
                   PROVE  x \in Outside(g[m], d) <=> \/ x \in Outside(a, d)
                                                     \/ \E i \in Outside(p, d) : x = o + i
                                                     \/ (m # 1 /\ d = Comma /\ x = Len(a) + 1)
        BY <4>6
      <4>9. x \in Outside(g[m], d) <=> x \in Outside(b, d) \/ \E i \in Outside(p, d) : x = o + i
        BY <4>6, <4>7
      <4> QED
        BY <3>2, <4>8, <4>9
    <3> QED
      BY <3>1, <3>2
  <2>8. G(m)
    <3> HIDE DEF o, p
    <3> QED
      BY <2>3, <2>6, <2>7 DEF G
  <2> QED
    BY <2>8 DEF m
<1> HIDE DEF T, G
<1>5. Nat \subseteq T
  BY <1>3, <1>4, Counting
<1> QED
  BY <1>2, <1>5 DEF T, G

-----------------------------------------------------------------------------
(* Fields joined by commas are split at the commas                         *)

LEMMA SubSeqIs ==
  ASSUME NEW s \in Seq(Char), NEW a \in Seq(Char), NEW o \in Nat, o + Len(a) <= Len(s),
         \A i \in 1 .. Len(a) : s[o + i] = a[i]
  PROVE  SubSeq(s, o + 1, o + Len(a)) = a
<1> DEFINE m == Len(a)
           b == SubSeq(s, o + 1, o + m)
<1>1. m \in Nat /\ Len(s) \in Nat /\ a = [i \in 1 .. m |-> a[i]]
  OBVIOUS
<1>2. \A i \in o + 1 .. o + m : s[i] \in Char
  <2> SUFFICES ASSUME NEW i \in o + 1 .. o + m PROVE s[i] \in Char
    OBVIOUS
  <2>1. i \in 1 .. Len(s)
    BY <1>1
  <2> QED
    BY <2>1
<1> HIDE DEF m
<1>3. /\ b \in Seq(Char)
      /\ Len(b) = (IF o + 1 <= o + m THEN (o + m) - (o + 1) + 1 ELSE 0)
      /\ \A i \in 1 .. (o + m) - (o + 1) + 1 : b[i] = s[(o + 1) + i - 1]
  <2>1. o + 1 \in Int /\ o + m \in Int
    BY <1>1
  <2> QED
    BY <1>2, <2>1, SubSeqProperties
<1> HIDE DEF b
<1>4. Len(b) = m
  <2>1. CASE m = 0
    BY <1>3, <2>1
  <2>2. CASE m # 0
    <3>1. o + 1 <= o + m /\ (o + m) - (o + 1) + 1 = m
      BY <1>1, <2>2
    <3> QED
      BY <1>3, <3>1
  <2> QED
    BY <2>1, <2>2
<1>5. ASSUME NEW i \in 1 .. m PROVE b[i] = a[i]
  <2>1. i \in 1 .. (o + m) - (o + 1) + 1 /\ (o + 1) + i - 1 = o + i
    BY <1>1
  <2>2. b[i] = s[o + i]
    BY <1>3, <2>1
  <2> QED
    BY <2>2 DEF m
<1>6. b = [i \in 1 .. m |-> b[i]]
  BY <1>3, <1>4
<1>7. b = a
  BY <1>1, <1>5, <1>6
<1> QED
  BY <1>7 DEF b, m

(* The texts between the places. *)
Between(s, e, N) == [n \in 1 .. N |-> SubSeq(s, e[n] + 1, e[n + 1] - 1)]

(* The places are the cuts and the two ends. *)
Cuts(s, cuts, e, N) ==
  /\ Rising(e, N + 1)
  /\ cuts \cup {0, Len(s) + 1} = Places(e, N + 1)
  /\ Cardinality(cuts) = N - 1

(* Pieces are the texts between the places.                                *)
LEMMA PiecesAre ==
  ASSUME NEW s, NEW cuts, NEW N \in Nat \ {0}, NEW e, Cuts(s, cuts, e, N)
  PROVE  Pieces(s, cuts) = Between(s, e, N)
<1> USE DEF Cuts, Between
<1> DEFINE E == cuts \cup {0, Len(s) + 1}
           nth(n) == CHOOSE y \in E : Cardinality({f \in E : f < y}) = n - 1
<1>1. Pieces(s, cuts) = [n \in 1 .. Cardinality(cuts) + 1 |-> SubSeq(s, nth(n) + 1, nth(n + 1) - 1)]
  BY DEF Pieces
<1>2. \A n : nth(n) = CHOOSE y \in Places(e, N + 1) : Fewer(Places(e, N + 1), y) = n - 1
  BY DEF Fewer
<1> HIDE DEF nth
<1>3. ASSUME NEW n \in 1 .. N + 1 PROVE nth(n) = e[n]
  <2>1. N + 1 \in Nat
    OBVIOUS
  <2>2. (CHOOSE y \in Places(e, N + 1) : Fewer(Places(e, N + 1), y) = n - 1) = e[n]
    BY <2>1, NthIs
  <2> QED
    BY <1>2, <2>2
<1>4. \A n \in 1 .. N : n \in 1 .. N + 1 /\ n + 1 \in 1 .. N + 1
  OBVIOUS
<1>5. Cardinality(cuts) + 1 = N
  OBVIOUS
<1> QED
  BY <1>1, <1>3, <1>4, <1>5

(* The texts of fewer parts are shorter.                                   *)
LEMMA JoinedLonger ==
  ASSUME NEW parts \in Seq(Seq(Char)), NEW between \in Seq(Char), Len(between) = 1,
         NEW g, Joined(g, parts, between),
         NEW i \in 1 .. Len(parts), NEW j \in i + 1 .. Len(parts)
  PROVE  Len(g[i]) \in Nat /\ Len(g[j]) \in Nat /\ Len(g[i]) < Len(g[j])
<1>2. Len(parts) \in Nat /\ i \in 0 .. Len(parts) /\ j - 1 \in i .. Len(parts) /\ j \in 1 .. Len(parts) /\ j # 1
  OBVIOUS
<1>3. Len(g[i]) \in Nat /\ Len(g[j - 1]) \in Nat /\ Len(g[i]) <= Len(g[j - 1])
  BY <1>2, JoinedPrefix
<1>4. /\ Len(g[j]) \in Nat /\ Len(parts[j]) \in Nat /\ Offset(g, j, between) \in Nat
      /\ Len(g[j]) = Offset(g, j, between) + Len(parts[j])
  BY <1>2, JoinedStep
<1>5. Offset(g, j, between) = Len(g[j - 1]) + 1
  BY <1>2 DEF Offset
<1> DEFINE a == Len(g[i])
           b == Len(g[j - 1])
           c == Len(g[j])
           d == Len(parts[j])
           o == Offset(g, j, between)
<1>6. a \in Nat /\ b \in Nat /\ c \in Nat /\ d \in Nat /\ a <= b /\ c = o + d /\ o = b + 1
  BY <1>3, <1>4, <1>5
<1>7. a < c
  <2> HIDE DEF a, b, c, d, o
  <2> QED
    BY <1>6
<1> QED
  BY <1>6, <1>7

(* Joined parts without commas outside are split into the parts.           *)
LEMMA SplitJoined ==
  ASSUME NEW parts \in Seq(Seq(Char)), parts # <<>>,
         \A n \in 1 .. Len(parts) : Neat(parts[n]) /\ Outside(parts[n], Comma) = {}
  PROVE  SplitFields(Join(parts, <<Comma>>)) = parts
<1> DEFINE C == <<Comma>>
           N == Len(parts)
<1>1. C \in Seq(Char) /\ Len(C) = 1
  BY SignsAreChars
<1>2. N \in Nat \ {0}
  OBVIOUS
<1>3. PICK g : Joined(g, parts, C) /\ Join(parts, C) = g[N]
  BY <1>1, JoinSays
<1>4. \A n \in 1 .. N : Neat(parts[n]) /\ Outside(parts[n], Comma) = {}
  OBVIOUS
<1>5. \A n \in 0 .. N : Neat(g[n]) /\ \A d, x : x \in Outside(g[n], d) <=> SignAt(g, parts, n, d, x)
  BY <1>3, <1>4, JoinOutside
<1>6. \A n \in 0 .. N : g[n] \in Seq(Char) /\ Len(g[n]) \in Nat
  <2>1. g \in [0 .. N -> Seq(Char)]
    BY <1>3 DEF Joined
  <2> SUFFICES ASSUME NEW n \in 0 .. N PROVE g[n] \in Seq(Char) /\ Len(g[n]) \in Nat
    OBVIOUS
  <2> HIDE DEF N, C
  <2>2. g[n] \in Seq(Char)
    BY <2>1
  <2> QED
    BY <2>2
<1>7. ASSUME NEW i \in 1 .. N, NEW j \in i + 1 .. N PROVE Len(g[i]) < Len(g[j])
  <2> HIDE DEF C
  <2> QED
    BY <1>1, <1>3, JoinedLonger
<1> DEFINE s == g[N]
           cuts == Outside(s, Comma)
           e == [i \in 1 .. N + 1 |-> IF i = 1 THEN 0 ELSE Len(g[i - 1]) + 1]
<1>8. \A x : x \in cuts <=> \E j \in 2 .. N : x = Len(g[j - 1]) + 1
  <2> SUFFICES ASSUME NEW x PROVE x \in cuts <=> \E j \in 2 .. N : x = Len(g[j - 1]) + 1
    OBVIOUS
  <2>1. N \in 0 .. N
    BY <1>2
  <2>2. x \in cuts <=> SignAt(g, parts, N, Comma, x)
    BY <1>5, <2>1
  <2>3. SignAt(g, parts, N, Comma, x) <=> \E j \in 1 .. N : j # 1 /\ x = Len(g[j - 1]) + 1
    BY <1>4 DEF SignAt
  <2>4. \A j : j \in 2 .. N <=> j \in 1 .. N /\ j # 1
    BY <1>2
  <2> QED
    BY <2>2, <2>3, <2>4
<1>9. Rising(e, N + 1)
  <2>1. \A i \in 2 .. N + 1 : i - 1 \in 0 .. N /\ i - 1 \in 1 .. N
    BY <1>2
  <2>2. e \in [1 .. N + 1 -> Nat]
    <3>1. ASSUME NEW i \in 1 .. N + 1, i # 1 PROVE Len(g[i - 1]) + 1 \in Nat
      <4>1. i - 1 \in 0 .. N
        BY <1>2, <3>1
      <4> QED
        BY <1>6, <4>1
    <3> QED
      BY <3>1
  <2>3. ASSUME NEW i \in 1 .. N + 1, NEW j \in 1 .. N + 1, i < j PROVE e[i] < e[j]
    <3>1. j # 1 /\ j - 1 \in 1 .. N /\ j - 1 \in 0 .. N /\ e[j] = Len(g[j - 1]) + 1 /\ Len(g[j - 1]) \in Nat
      BY <1>2, <1>6, <2>3
    <3>2. CASE i = 1
      BY <3>1, <3>2
    <3>3. CASE i # 1
      <4>1. i - 1 \in 1 .. N /\ i - 1 \in 0 .. N /\ e[i] = Len(g[i - 1]) + 1 /\ Len(g[i - 1]) \in Nat
        BY <1>2, <1>6, <3>3
      <4>2. j - 1 \in (i - 1) + 1 .. N
        BY <1>2, <2>3
      <4>3. Len(g[i - 1]) < Len(g[j - 1])
        BY <1>7, <4>1, <4>2
      <4> HIDE DEF e
      <4> QED
        BY <3>1, <4>1, <4>3
    <3> QED
      BY <3>2, <3>3
  <2> HIDE DEF e
  <2> QED
    BY <2>2, <2>3 DEF Rising
<1>10. cuts \cup {0, Len(s) + 1} = Places(e, N + 1)
  <2>1. ASSUME NEW i \in 1 .. N + 1 PROVE e[i] \in cuts \cup {0, Len(s) + 1}
    <3> HIDE DEF cuts
    <3>1. CASE i = 1
      BY <3>1
    <3>2. CASE i = N + 1
      <4>1. i - 1 = N /\ i # 1
        BY <1>2, <3>2
      <4>2. e[i] = Len(s) + 1
        BY <4>1
      <4> HIDE DEF e, s
      <4> QED
        BY <4>2
    <3>3. CASE i \in 2 .. N
      <4>1. e[i] = Len(g[i - 1]) + 1
        BY <1>2, <3>3
      <4>2. e[i] \in cuts
        BY <1>8, <3>3, <4>1
      <4> QED
        BY <4>2
    <3> QED
      BY <1>2, <3>1, <3>2, <3>3
  <2>2. ASSUME NEW x \in cuts \cup {0, Len(s) + 1} PROVE \E i \in 1 .. N + 1 : x = e[i]
    <3>1. 1 \in 1 .. N + 1 /\ N + 1 \in 1 .. N + 1 /\ N + 1 # 1 /\ (N + 1) - 1 = N
      BY <1>2
    <3>2. e[1] = 0 /\ e[N + 1] = Len(s) + 1
      BY <3>1
    <3>3. ASSUME x \in cuts PROVE \E i \in 1 .. N + 1 : x = e[i]
      <4>1. PICK j \in 2 .. N : x = Len(g[j - 1]) + 1
        BY <1>8, <3>3
      <4>2. j \in 1 .. N + 1 /\ j # 1
        BY <1>2
      <4>3. e[j] = x
        BY <4>1, <4>2
      <4> QED
        BY <4>2, <4>3
    <3> HIDE DEF e, cuts, s
    <3> QED
      BY <2>2, <3>1, <3>2, <3>3
  <2> HIDE DEF cuts, e, s
  <2> QED
    BY <2>1, <2>2 DEF Places
<1>11. Cardinality(cuts) = N - 1
  <2> DEFINE f == [i \in 1 .. N - 1 |-> Len(g[i]) + 1]
  <2>1. \A i \in 1 .. N - 1 : i \in 0 .. N /\ i \in 1 .. N
    BY <1>2
  <2>2. f \in [1 .. N - 1 -> Nat]
    BY <1>6, <2>1
  <2>3. ASSUME NEW i \in 1 .. N - 1, NEW j \in 1 .. N - 1, i < j PROVE f[i] < f[j]
    <3>1. j \in i + 1 .. N
      BY <1>2, <2>3
    <3>2. Len(g[i]) \in Nat /\ Len(g[j]) \in Nat /\ Len(g[i]) < Len(g[j])
      BY <1>6, <1>7, <2>1, <3>1
    <3>3. f[i] = Len(g[i]) + 1 /\ f[j] = Len(g[j]) + 1
      OBVIOUS
    <3> DEFINE a == Len(g[i])
               b == Len(g[j])
    <3>4. a \in Nat /\ b \in Nat /\ a < b /\ f[i] = a + 1 /\ f[j] = b + 1
      BY <3>2, <3>3
    <3> HIDE DEF f, N, C, a, b
    <3> QED
      BY <3>4
  <2>4. Rising(f, N - 1)
    <3> HIDE DEF f
    <3> QED
      BY <2>2, <2>3 DEF Rising
  <2>5. \A x : x \in cuts <=> \E i \in 1 .. N - 1 : x = f[i]
    <3>1. \A i \in 1 .. N - 1 : i + 1 \in 2 .. N /\ (i + 1) - 1 = i
      BY <1>2
    <3>2. \A j \in 2 .. N : j - 1 \in 1 .. N - 1
      BY <1>2
    <3>3. \A i \in 1 .. N - 1 : f[i] = Len(g[i]) + 1
      OBVIOUS
    <3> HIDE DEF f, cuts, N, C, s
    <3>4. ASSUME NEW x, NEW i \in 1 .. N - 1, x = f[i] PROVE x \in cuts
      <4>1. i + 1 \in 2 .. N /\ x = Len(g[(i + 1) - 1]) + 1
        BY <3>1, <3>3, <3>4
      <4> QED
        BY <1>8, <4>1
    <3>5. ASSUME NEW x, x \in cuts PROVE \E i \in 1 .. N - 1 : x = f[i]
      <4>1. PICK j \in 2 .. N : x = Len(g[j - 1]) + 1
        BY <1>8, <3>5
      <4>2. j - 1 \in 1 .. N - 1 /\ x = f[j - 1]
        BY <3>2, <3>3, <4>1
      <4> QED
        BY <4>2
    <3> QED
      BY <3>4, <3>5
  <2>6. cuts = Places(f, N - 1)
    <3> HIDE DEF f, cuts
    <3> QED
      BY <2>5 DEF Places
  <2>7. N - 1 \in Nat
    BY <1>2
  <2> HIDE DEF f, cuts
  <2> QED
    BY <2>4, <2>6, <2>7, CountAll
<1>12. Pieces(s, cuts) = Between(s, e, N)
  <2> HIDE DEF cuts, e, s, N, C
  <2>1. Cuts(s, cuts, e, N)
    BY <1>9, <1>10, <1>11 DEF Cuts
  <2> QED
    BY <1>2, <2>1, PiecesAre
<1>13. ASSUME NEW n \in 1 .. N PROVE SubSeq(s, e[n] + 1, e[n + 1] - 1) = parts[n]
  <2> DEFINE o == Offset(g, n, C)
             p == parts[n]
  <2>a. C \in Seq(Char) /\ Joined(g, parts, C) /\ n \in 1 .. Len(parts)
    BY <1>1, <1>3
  <2>1. /\ o \in Nat /\ Len(p) \in Nat /\ Len(g[n]) = o + Len(p) /\ p \in Seq(Char)
    <3> HIDE DEF C, N, s, cuts, e
    <3> QED
      BY <2>a, JoinedStep
  <2>2. Len(g[n]) <= Len(s) /\ \A i \in 1 .. Len(p) : s[o + i] = p[i]
    <3>1. /\ Len(g[n]) <= Len(g[Len(parts)])
          /\ \A i \in 1 .. Len(parts[n]) : g[Len(parts)][Offset(g, n, C) + i] = parts[n][i]
      <4> HIDE DEF C, N, cuts, e, s, o, p
      <4> QED
        BY <2>a, JoinPlaces
    <3>2. s = g[Len(parts)]
      BY <1>3
    <3> HIDE DEF C, s
    <3> QED
      BY <3>1, <3>2
  <2>3. e[n] = o
    <3>1. n \in 1 .. N + 1
      BY <1>2
    <3>2. Len(g[0]) = 0
      BY <1>3 DEF Joined
    <3> HIDE DEF C
    <3>3. o = Len(g[n - 1]) + (IF n = 1 THEN 0 ELSE 1)
      BY <1>1 DEF Offset
    <3>4. n = 1 => n - 1 = 0
      OBVIOUS
    <3> HIDE DEF o
    <3>5. e[n] = IF n = 1 THEN 0 ELSE Len(g[n - 1]) + 1
      BY <3>1
    <3> HIDE DEF e, N
    <3>6. CASE n = 1
      BY <3>2, <3>3, <3>4, <3>5, <3>6
    <3>7. CASE n # 1
      BY <3>3, <3>5, <3>7
    <3> QED
      BY <3>6, <3>7
  <2>4. e[n + 1] = Len(g[n]) + 1
    <3>1. n + 1 \in 1 .. N + 1 /\ n + 1 # 1 /\ (n + 1) - 1 = n
      BY <1>2
    <3> QED
      BY <3>1
  <2> HIDE DEF e, o, p, s, C
  <2>5. (o + Len(p)) + 1 - 1 = o + Len(p)
    BY <2>1
  <2>6. SubSeq(s, o + 1, o + Len(p)) = p
    <3>1. s \in Seq(Char)
      BY <1>2, <1>6 DEF s
    <3> QED
      BY <2>1, <2>2, <3>1, SubSeqIs
  <2>7. e[n + 1] - 1 = o + Len(p)
    BY <2>1, <2>4, <2>5
  <2> QED
    BY <2>3, <2>6, <2>7 DEF p
<1>14. parts = [n \in 1 .. N |-> parts[n]]
  OBVIOUS
<1>15. SplitFields(s) = Pieces(s, cuts)
  BY DEF SplitFields
<1> HIDE DEF s, cuts, e, N
<1>16. Pieces(s, cuts) = parts
  BY <1>12, <1>13, <1>14 DEF Between
<1> QED
  BY <1>3, <1>15, <1>16 DEF s

-----------------------------------------------------------------------------
(* Fields                                                                  *)

Specials == {Comma, "(", ")", Semicolon}

Clean(f) == f \in Seq(Char) /\ Neat(f) /\ \A d \in Specials : Outside(f, d) = {}

(* A value that is not quoted has no sign.                                 *)
LEMMA PlainClean ==
  ASSUME NEW a \in Plain(Char)
  PROVE  Clean(a) /\ \A i \in 1 .. Len(a) : a[i] # Quote
<1>1. Len(a) \in Nat /\ DOMAIN a = 1 .. Len(a) /\ \A i \in 1 .. Len(a) : a[i] \in Char \ Signs
  BY DEF Plain
<1>2. \A i \in 1 .. Len(a) : a[i] \in Char /\ a[i] # Quote /\ a[i] \notin Specials
  BY <1>1 DEF Signs, Specials
<1>3. a \in Seq(Char)
  <2>1. a = [i \in 1 .. Len(a) |-> a[i]]
    BY DEF Plain
  <2> QED
    BY <1>1, <1>2, <2>1
<1>4. \A d \in Specials : Outside(a, d) = {}
  BY <1>1, <1>2 DEF Outside
<1>5. Neat(a)
  <2> DEFINE T == {n \in Nat : n <= Len(a) => Scan(a)[n + 1] = "out"}
  <2>1. 0 \in T
    <3>1. Scan(a)[0 + 1] = "out"
      BY <1>3, ScanSays
    <3> QED
      BY <3>1
  <2>2. ASSUME NEW n \in Nat, n \in T PROVE n + 1 \in T
    <3> SUFFICES ASSUME n + 1 <= Len(a) PROVE Scan(a)[(n + 1) + 1] = "out"
      OBVIOUS
    <3>1. n + 1 \in 1 .. Len(a) /\ Scan(a)[n + 1] = "out"
      BY <1>1, <2>2
    <3> DEFINE d == n + 1 < Len(a) /\ a[(n + 1) + 1] = Quote
    <3>2. Scan(a)[(n + 1) + 1] = Moves(Scan(a)[n + 1], a[n + 1], d)
      BY <1>3, <3>1, ScanSays
    <3> HIDE DEF d
    <3> QED
      BY <1>2, <3>1, <3>2 DEF Moves
  <2> HIDE DEF T
  <2>3. Nat \subseteq T
    BY <2>1, <2>2, Counting
  <2> QED
    BY <1>1, <2>3 DEF T, Neat
<1> QED
  BY <1>2, <1>3, <1>4, <1>5 DEF Clean

(* How a character is spelled in a string.                                 *)
LEMMA EscapedSays ==
  ASSUME NEW c \in Char, NEW mark \in {Quote, Back}
  PROVE  /\ Escaped(c, mark) \in Seq(Char)
         /\ \/ \E x \in Char : Escaped(c, mark) = <<Back, x>> /\ Unescaped(x) = c
            \/ Escaped(c, mark) = <<Quote, Quote>> /\ c = Quote
            \/ Escaped(c, mark) = <<c>> /\ c \notin {Quote, Back}
<1> USE SignsAreChars, SignsDiffer
<1>1. CASE c = Quote
  <2>1. Escaped(c, mark) = <<mark, Quote>>
    BY <1>1 DEF Escaped
  <2>2. Unescaped(Quote) = Quote
    BY DEF Unescaped
  <2> QED
    BY <1>1, <2>1, <2>2
<1>2. CASE c = Back
  <2>1. Escaped(c, mark) = <<Back, Back>>
    BY <1>2 DEF Escaped
  <2>2. Unescaped(Back) = Back
    BY DEF Unescaped
  <2> QED
    BY <1>2, <2>1, <2>2
<1>3. CASE c = "newline"
  <2>1. Escaped(c, mark) = <<Back, "n">>
    BY <1>3 DEF Escaped
  <2>2. Unescaped("n") = c
    BY <1>3 DEF Unescaped
  <2>3. \E x \in Char : Escaped(c, mark) = <<Back, x>> /\ Unescaped(x) = c
    BY <2>1, <2>2, Zenon
  <2>4. Escaped(c, mark) \in Seq(Char)
    BY <2>1
  <2> QED
    BY <2>3, <2>4
<1>4. CASE c # Quote /\ c # Back /\ c # "newline"
  <2>1. Escaped(c, mark) = <<c>>
    BY <1>4 DEF Escaped
  <2> QED
    BY <1>4, <2>1
<1> QED
  BY <1>1, <1>2, <1>3, <1>4

(* p[n] is where the text F, a string between quotes, has spelled the      *)
(* first n characters of cs.                                               *)
Spells(F, cs, p, n) ==
  \/ p[n] = p[n - 1] + 2 /\ F[p[n - 1] + 1] = Back /\ Unescaped(F[p[n - 1] + 2]) = cs[n]
  \/ p[n] = p[n - 1] + 2 /\ F[p[n - 1] + 1] = Quote /\ F[p[n - 1] + 2] = Quote /\ cs[n] = Quote
  \/ p[n] = p[n - 1] + 1 /\ F[p[n - 1] + 1] = cs[n] /\ cs[n] \notin {Quote, Back}

Spelled(F, cs, p) ==
  /\ F \in Seq(Char) /\ p \in [0 .. Len(cs) -> Nat] /\ p[0] = 1 /\ p[Len(cs)] + 1 = Len(F)
  /\ F[1] = Quote /\ F[Len(F)] = Quote
  /\ \A n \in 1 .. Len(cs) : Spells(F, cs, p, n)

(* A quoted field spells its characters between two quotes.                *)
LEMMA TextSpelled ==
  ASSUME NEW cs \in Seq(Char), NEW mark \in {Quote, Back}
  PROVE  \E p : Spelled(Field([kind |-> "text", chars |-> cs], mark), cs, p)
<1> DEFINE parts == [n \in DOMAIN cs |-> Escaped(cs[n], mark)]
           J == Join(parts, <<>>)
           Q == <<Quote>>
           F == Q \o J \o Q
           N == Len(cs)
<1>1. Field([kind |-> "text", chars |-> cs], mark) = F
  BY DEF Field
<1>2. N \in Nat /\ DOMAIN cs = 1 .. N /\ \A n \in 1 .. N : cs[n] \in Char
  OBVIOUS
<1>3. parts \in Seq(Seq(Char)) /\ Len(parts) = N /\ \A n \in 1 .. N : parts[n] = Escaped(cs[n], mark)
  <2>1. \A n \in 1 .. N : Escaped(cs[n], mark) \in Seq(Char)
    BY <1>2, EscapedSays
  <2>2. parts = [n \in 1 .. N |-> Escaped(cs[n], mark)]
    BY <1>2
  <2> HIDE DEF parts, N
  <2> QED
    BY <1>2, <2>1, <2>2
<1> DEFINE E == <<>>
<1>4. E \in Seq(Char) /\ Len(E) = 0
  OBVIOUS
<1> HIDE DEF parts
<1>5. PICK g : Joined(g, parts, E) /\ Join(parts, E) = g[Len(parts)]
  <2> HIDE DEF E
  <2> QED
    BY <1>3, <1>4, JoinSays
<1>6. J = g[N]
  BY <1>3, <1>5
<1>7. g \in [0 .. N -> Seq(Char)] /\ g[0] = <<>>
  BY <1>3, <1>5 DEF Joined
<1>8. J \in Seq(Char)
  BY <1>2, <1>6, <1>7
<1>9. Q \in Seq(Char) /\ Len(Q) = 1 /\ Q[1] = Quote
  BY SignsAreChars
<1> HIDE DEF J, Q
<1> DEFINE L == Len(J)
<1>10. /\ F \in Seq(Char) /\ L \in Nat /\ Len(F) = L + 2 /\ F[1] = Quote /\ F[L + 2] = Quote
       /\ \A i \in 1 .. L : F[1 + i] = J[i]
  <2>1. /\ Q \o J \in Seq(Char) /\ Len(Q \o J) = 1 + L /\ L \in Nat
        /\ \A i \in 1 .. 1 : (Q \o J)[i] = Q[i]
        /\ \A i \in 1 .. L : (Q \o J)[1 + i] = J[i]
    <3> HIDE DEF L
    <3>1. /\ Q \o J \in Seq(Char) /\ Len(Q \o J) = Len(Q) + Len(J) /\ Len(J) \in Nat
          /\ \A i \in 1 .. Len(Q) : (Q \o J)[i] = Q[i]
          /\ \A i \in 1 .. Len(J) : (Q \o J)[Len(Q) + i] = J[i]
      BY <1>8, <1>9, Concat
    <3> QED
      BY <1>9, <3>1 DEF L
  <2> DEFINE A == Q \o J
  <2>2. A \in Seq(Char) /\ Len(A) = 1 + L /\ L \in Nat /\ A[1] = Quote /\ \A i \in 1 .. L : A[1 + i] = J[i]
    BY <1>9, <2>1
  <2> HIDE DEF A
  <2>3. /\ A \o Q \in Seq(Char) /\ Len(A \o Q) = Len(A) + 1
        /\ \A i \in 1 .. Len(A) : (A \o Q)[i] = A[i]
        /\ \A i \in 1 .. 1 : (A \o Q)[Len(A) + i] = Q[i]
    <3> HIDE DEF L
    <3>1. /\ A \o Q \in Seq(Char) /\ Len(A \o Q) = Len(A) + Len(Q)
          /\ \A i \in 1 .. Len(A) : (A \o Q)[i] = A[i]
          /\ \A i \in 1 .. Len(Q) : (A \o Q)[Len(A) + i] = Q[i]
      BY <1>9, <2>2, Concat
    <3> QED
      BY <1>9, <3>1
  <2> DEFINE B == A \o Q
  <2>4. F = B
    BY DEF A
  <2>5. B \in Seq(Char) /\ Len(B) = L + 2
    BY <2>2, <2>3
  <2>6. \A i \in 1 .. L + 1 : B[i] = A[i]
    BY <2>2, <2>3
  <2>7. B[L + 2] = Quote
    <3>1. Len(A) + 1 = L + 2 /\ 1 \in 1 .. 1
      BY <2>2
    <3> QED
      BY <1>9, <2>3, <3>1
  <2> HIDE DEF F, B, L
  <2>8. \A i \in 1 .. L : 1 + i \in 1 .. L + 1
    BY <2>2
  <2>9. 1 \in 1 .. L + 1
    BY <2>2
  <2> QED
    BY <2>2, <2>4, <2>5, <2>6, <2>7, <2>8, <2>9
<1> HIDE DEF F
<1> DEFINE p == [n \in 0 .. N |-> 1 + Len(g[n])]
<1>11. p \in [0 .. N -> Nat] /\ p[0] = 1 /\ p[N] + 1 = Len(F)
  <2>1. \A n \in 0 .. N : Len(g[n]) \in Nat
    <3> SUFFICES ASSUME NEW n \in 0 .. N PROVE Len(g[n]) \in Nat
      OBVIOUS
    <3>1. g[n] \in Seq(Char)
      BY <1>7
    <3> QED
      BY <3>1
  <2>2. p[0] = 1
    BY <1>2, <1>7
  <2>3. p[N] = 1 + L
    BY <1>2, <1>6
  <2>4. p \in [0 .. N -> Nat]
    BY <2>1
  <2> HIDE DEF p, L
  <2> QED
    BY <1>10, <2>2, <2>3, <2>4
<1>12. ASSUME NEW n \in 1 .. N PROVE Spells(F, cs, p, n)
  <2> DEFINE e == parts[n]
             o == Offset(g, n, E)
             q == p[n - 1]
  <2>1. e = Escaped(cs[n], mark) /\ cs[n] \in Char
    BY <1>2, <1>3
  <2>2. Len(e) \in Nat /\ o \in Nat /\ Len(g[n]) = o + Len(e) /\ Len(g[n]) \in Nat
    <3> HIDE DEF E, p
    <3>1. n \in 1 .. Len(parts)
      BY <1>3
    <3>2. /\ Offset(g, n, E) \in Nat /\ Len(parts[n]) \in Nat /\ Len(g[n]) \in Nat
          /\ Len(g[n]) = Offset(g, n, E) + Len(parts[n])
      <4>1. parts \in Seq(Seq(Char)) /\ E \in Seq(Char) /\ Joined(g, parts, E)
        BY <1>3, <1>4, <1>5
      <4> HIDE DEF N, J
      <4> QED
        BY <3>1, <4>1, JoinedStep
    <3> QED
      BY <3>2
  <2>3. Len(g[n]) <= L /\ \A i \in 1 .. Len(e) : J[o + i] = e[i]
    <3> HIDE DEF E
    <3>1. LET s == g[Len(parts)] IN Len(g[n]) <= Len(s) /\ \A i \in 1 .. Len(parts[n]) : s[o + i] = parts[n][i]
      <4>1. n \in 1 .. Len(parts)
        BY <1>3
      <4> QED
        <5>1. parts \in Seq(Seq(Char)) /\ E \in Seq(Char) /\ Joined(g, parts, E)
          BY <1>3, <1>4, <1>5
        <5> HIDE DEF N, J, L
        <5> QED
          BY <4>1, <5>1, JoinPlaces
    <3> QED
      BY <1>3, <1>6, <3>1
  <2>4. Len(g[n - 1]) = o
    <3>1. n - 1 \in 0 .. N
      BY <1>2
    <3>2. g[n - 1] \in Seq(Char)
      BY <1>7, <3>1
    <3>3. Len(g[n - 1]) \in Nat
      BY <3>2
    <3> HIDE DEF E
    <3>4. (IF n = 1 THEN 0 ELSE Len(E)) = 0
      BY <1>4
    <3> DEFINE x == IF n = 1 THEN 0 ELSE Len(E)
               y == Len(g[n - 1])
    <3>5. o = y + x
      BY DEF Offset
    <3>6. x = 0 /\ y \in Nat
      BY <3>3, <3>4
    <3>7. y = o
      <4> HIDE DEF o, x, y
      <4> QED
        BY <3>5, <3>6
    <3> QED
      BY <3>7
  <2>5. q = 1 + o /\ p[n] = q + Len(e) /\ q \in Nat
    <3>1. n - 1 \in 0 .. N /\ n \in 0 .. N
      BY <1>2
    <3>2. p[n - 1] = 1 + Len(g[n - 1]) /\ p[n] = 1 + Len(g[n])
      BY <3>1
    <3> DEFINE x == Len(g[n])
               y == Len(g[n - 1])
               z == Len(e)
    <3>3. y = o /\ x = o + z /\ x \in Nat /\ z \in Nat /\ o \in Nat /\ q = 1 + y /\ p[n] = 1 + x
      BY <2>2, <2>4, <3>2
    <3>4. q = 1 + o /\ p[n] = q + z /\ q \in Nat
      <4> HIDE DEF p, o, x, y, z, q
      <4> QED
        BY <3>3
    <3> QED
      BY <3>4
  <2> HIDE DEF e, o, q, p, E
  <2>6. \A i \in 1 .. Len(e) : F[q + i] = e[i]
    <3> SUFFICES ASSUME NEW i \in 1 .. Len(e) PROVE F[q + i] = e[i]
      OBVIOUS
    <3>1. o + i \in 1 .. L /\ 1 + (o + i) = q + i
      BY <1>10, <2>2, <2>3, <2>5
    <3> HIDE DEF L
    <3> QED
      BY <1>10, <2>3, <3>1
  <2>7. \/ \E x \in Char : e = <<Back, x>> /\ Unescaped(x) = cs[n]
        \/ e = <<Quote, Quote>> /\ cs[n] = Quote
        \/ e = <<cs[n]>> /\ cs[n] \notin {Quote, Back}
    BY <2>1, EscapedSays
  <2>8. ASSUME NEW x \in Char, e = <<Back, x>>, Unescaped(x) = cs[n] PROVE Spells(F, cs, p, n)
    <3>1. Len(e) = 2 /\ e[1] = Back /\ e[2] = x
      BY <2>8
    <3>2. F[q + 1] = Back /\ F[q + 2] = x /\ p[n] = q + 2
      <4>1. 1 \in 1 .. Len(e) /\ 2 \in 1 .. Len(e)
        BY <3>1
      <4> QED
        BY <2>5, <2>6, <3>1, <4>1
    <3> QED
      BY <2>8, <3>2 DEF Spells, q
  <2>9. CASE e = <<Quote, Quote>> /\ cs[n] = Quote
    <3>1. Len(e) = 2 /\ e[1] = Quote /\ e[2] = Quote
      BY <2>9
    <3>2. F[q + 1] = Quote /\ F[q + 2] = Quote /\ p[n] = q + 2
      <4>1. 1 \in 1 .. Len(e) /\ 2 \in 1 .. Len(e)
        BY <3>1
      <4> QED
        BY <2>5, <2>6, <3>1, <4>1
    <3> QED
      BY <2>9, <3>2 DEF Spells, q
  <2>10. CASE e = <<cs[n]>> /\ cs[n] \notin {Quote, Back}
    <3>1. Len(e) = 1 /\ e[1] = cs[n]
      BY <2>10
    <3>2. F[q + 1] = cs[n] /\ p[n] = q + 1
      <4>1. 1 \in 1 .. Len(e)
        BY <3>1
      <4> QED
        BY <2>5, <2>6, <3>1, <4>1
    <3> QED
      BY <2>10, <3>2 DEF Spells, q
  <2> QED
    BY <2>7, <2>8, <2>9, <2>10
<1> HIDE DEF p, N
<1>13. Spelled(F, cs, p)
  BY <1>10, <1>11, <1>12 DEF Spelled, N
<1> QED
  BY <1>1, <1>13

(* The character after the first n, from its place q on. *)
SpellsNext(F, cs, n, q, next) ==
  /\ q \in Nat /\ q >= 2 /\ next \in Nat /\ Len(F) \in Nat /\ q < next /\ next <= Len(F)
  /\ \/ next = q + 2 /\ F[q] = Back /\ Unescaped(F[q + 1]) = cs[n + 1]
     \/ next = q + 2 /\ F[q] = Quote /\ F[q + 1] = Quote /\ cs[n + 1] = Quote
     \/ next = q + 1 /\ F[q] = cs[n + 1] /\ cs[n + 1] \notin {Quote, Back}

(* The next character, from the place behind the first n.                  *)
LEMMA SpelledStep ==
  ASSUME NEW cs \in Seq(Char), NEW F, NEW p, Spelled(F, cs, p), NEW n \in 0 .. Len(cs) - 1
  PROVE  SpellsNext(F, cs, n, p[n] + 1, p[n + 1] + 1)
<1> DEFINE N == Len(cs)
<1>1. N \in Nat /\ Len(F) \in Nat
  BY DEF Spelled
<1>2. /\ p \in [0 .. N -> Nat] /\ p[0] = 1 /\ p[N] + 1 = Len(F)
      /\ \A i \in 1 .. N : Spells(F, cs, p, i)
  BY DEF Spelled
<1> HIDE DEF N
<1>3. \A i \in 0 .. N : p[i] \in Nat
  BY <1>2
<1>4. \A i \in 1 .. N : p[i - 1] < p[i]
  <2> SUFFICES ASSUME NEW i \in 1 .. N PROVE p[i - 1] < p[i]
    OBVIOUS
  <2>1. Spells(F, cs, p, i)
    BY <1>2
  <2>2. i - 1 \in 0 .. N
    BY <1>1
  <2>3. p[i - 1] \in Nat
    BY <1>3, <2>2
  <2>4. p[i] = p[i - 1] + 2 \/ p[i] = p[i - 1] + 1
    BY <2>1 DEF Spells
  <2> QED
    BY <2>3, <2>4
<1> DEFINE T == {k \in Nat : k <= N => 1 <= p[k] /\ (k <= N - n - 1 => p[n + 1] <= p[n + 1 + k])}
<1>5. n \in 0 .. N /\ n + 1 \in 1 .. N /\ n + 1 \in 0 .. N /\ (n + 1) - 1 = n /\ N - n - 1 \in Nat
      /\ n + 1 + (N - n - 1) = N /\ N - n - 1 <= N
  BY <1>1 DEF N
<1>6. 0 \in T
  <2>1. n + 1 + 0 = n + 1 /\ p[n + 1] <= p[n + 1]
    BY <1>3, <1>5
  <2> QED
    BY <1>2, <2>1
<1>7. ASSUME NEW k \in Nat, k \in T PROVE k + 1 \in T
  <2> SUFFICES ASSUME k + 1 <= N
               PROVE  1 <= p[k + 1] /\ (k + 1 <= N - n - 1 => p[n + 1] <= p[n + 1 + (k + 1)])
    OBVIOUS
  <2>1. 1 <= p[k + 1]
    <3>1. k + 1 \in 1 .. N /\ (k + 1) - 1 = k /\ k \in 0 .. N /\ k + 1 \in 0 .. N /\ 1 <= p[k]
      BY <1>1, <1>7
    <3>2. p[k] < p[k + 1] /\ p[k] \in Nat /\ p[k + 1] \in Nat
      BY <1>3, <1>4, <3>1
    <3> QED
      BY <3>1, <3>2
  <2>2. ASSUME k + 1 <= N - n - 1 PROVE p[n + 1] <= p[n + 1 + (k + 1)]
    <3> DEFINE j == n + 1 + (k + 1)
    <3>1. j \in 1 .. N /\ j - 1 = n + 1 + k /\ j \in 0 .. N /\ n + 1 + k \in 0 .. N /\ k <= N - n - 1
      BY <1>1, <1>5, <2>2
    <3>2. p[n + 1] <= p[n + 1 + k]
      BY <1>1, <1>7, <2>2, <3>1
    <3>3. p[j - 1] < p[j] /\ p[j - 1] \in Nat /\ p[j] \in Nat /\ p[n + 1] \in Nat
      BY <1>3, <1>4, <1>5, <3>1
    <3>4. p[n + 1] <= p[j]
      <4> HIDE DEF j
      <4> QED
        BY <3>1, <3>2, <3>3
    <3> QED
      BY <3>4
  <2> QED
    BY <2>1, <2>2
<1> HIDE DEF T
<1>8. Nat \subseteq T
  BY <1>6, <1>7, Counting
<1>9. 1 <= p[n]
  BY <1>5, <1>8 DEF T
<1>10. p[n + 1] <= p[N]
  BY <1>5, <1>8 DEF T
<1>11. p[n] \in Nat /\ p[n + 1] \in Nat /\ p[N] \in Nat /\ p[n] < p[n + 1]
  <2>1. N \in 0 .. N
    BY <1>1
  <2> QED
    BY <1>3, <1>4, <1>5, <2>1
<1> DEFINE q == p[n] + 1
           x == p[n + 1] + 1
<1>12. q \in Nat /\ q >= 2 /\ x \in Nat /\ q < x /\ x <= Len(F)
  <2> DEFINE a == p[n]
             b == p[n + 1]
             c == p[N]
             l == Len(F)
  <2>1. a \in Nat /\ b \in Nat /\ c \in Nat /\ l \in Nat /\ 1 <= a /\ a < b /\ b <= c /\ c + 1 = l
        /\ q = a + 1 /\ x = b + 1
    BY <1>1, <1>2, <1>9, <1>10, <1>11
  <2>2. q \in Nat /\ q >= 2 /\ x \in Nat /\ q < x /\ x <= l
    <3> HIDE DEF a, b, c, l, q, x
    <3> QED
      BY <2>1
  <2> QED
    BY <2>2
<1>13. \/ x = q + 2 /\ F[q] = Back /\ Unescaped(F[q + 1]) = cs[n + 1]
       \/ x = q + 2 /\ F[q] = Quote /\ F[q + 1] = Quote /\ cs[n + 1] = Quote
       \/ x = q + 1 /\ F[q] = cs[n + 1] /\ cs[n + 1] \notin {Quote, Back}
  <2>1. Spells(F, cs, p, n + 1)
    BY <1>2, <1>5
  <2>2. \/ p[n + 1] = p[n] + 2 /\ F[p[n] + 1] = Back /\ Unescaped(F[p[n] + 2]) = cs[n + 1]
        \/ p[n + 1] = p[n] + 2 /\ F[p[n] + 1] = Quote /\ F[p[n] + 2] = Quote /\ cs[n + 1] = Quote
        \/ p[n + 1] = p[n] + 1 /\ F[p[n] + 1] = cs[n + 1] /\ cs[n + 1] \notin {Quote, Back}
    BY <1>5, <2>1 DEF Spells
  <2>3. p[n] + 2 = q + 1 /\ (p[n + 1] = p[n] + 2 => x = q + 2) /\ (p[n + 1] = p[n] + 1 => x = q + 1)
    <3> DEFINE a == p[n]
               b == p[n + 1]
    <3>1. a \in Nat /\ b \in Nat /\ q = a + 1 /\ x = b + 1
      BY <1>11
    <3>2. a + 2 = q + 1 /\ (b = a + 2 => x = q + 2) /\ (b = a + 1 => x = q + 1)
      <4> HIDE DEF a, b, q, x
      <4> QED
        BY <3>1
    <3> QED
      BY <3>2
  <2>4. F[p[n] + 1] = F[q]
    OBVIOUS
  <2> HIDE DEF q, x
  <2> QED
    BY <2>2, <2>3, <2>4
<1> HIDE DEF q, x
<1>14. SpellsNext(F, cs, n, q, x)
  BY <1>1, <1>12, <1>13 DEF SpellsNext
<1> QED
  BY <1>14 DEF q, x

(* The scanner is inside the string until the quote that ends it.          *)
LEMMA TextClean ==
  ASSUME NEW cs \in Seq(Char), NEW F, NEW p, Spelled(F, cs, p)
  PROVE  Clean(F)
<1> DEFINE N == Len(cs)
           In(n) == Scan(F)[p[n] + 1] = "in" /\ \A i \in 2 .. p[n] + 1 : Scan(F)[i] # "out"
           T == {n \in Nat : n <= N => In(n)}
<1>1. /\ F \in Seq(Char) /\ Len(F) \in Nat /\ N \in Nat /\ p[0] = 1 /\ p[N] + 1 = Len(F)
      /\ F[1] = Quote /\ F[Len(F)] = Quote /\ p[N] \in Nat
  BY DEF Spelled
<1>2. Len(F) >= 2
  <2>1. CASE N = 0
    BY <1>1, <2>1
  <2>2. CASE N # 0
    <3>1. 0 \in 0 .. N - 1
      BY <1>1, <2>2
    <3>2. SpellsNext(F, cs, 0, p[0] + 1, p[0 + 1] + 1)
      BY <3>1, SpelledStep
    <3> DEFINE q == p[0] + 1
               x == p[0 + 1] + 1
    <3>3. q >= 2 /\ q < x /\ x <= Len(F) /\ q \in Nat /\ x \in Nat
      BY <3>2 DEF SpellsNext
    <3> HIDE DEF q, x
    <3> QED
      BY <1>1, <3>3
  <2> QED
    BY <2>1, <2>2
<1>3. 0 \in T
  <2>1. 1 \in 1 .. Len(F)
    BY <1>1, <1>2
  <2> DEFINE d == 1 < Len(F) /\ F[1 + 1] = Quote
  <2>2. Scan(F)[1] = "out" /\ Scan(F)[1 + 1] = Moves(Scan(F)[1], F[1], d)
    BY <1>1, <2>1, ScanSays
  <2> HIDE DEF d
  <2>3. Scan(F)[2] = "in"
    BY <1>1, <2>2 DEF Moves
  <2>4. In(0)
    BY <1>1, <2>3
  <2> HIDE DEF In
  <2> QED
    BY <2>4
<1>4. ASSUME NEW n \in Nat, n \in T PROVE n + 1 \in T
  <2> SUFFICES ASSUME n + 1 <= N PROVE In(n + 1)
    OBVIOUS
  <2> DEFINE q == p[n] + 1
             x == p[n + 1] + 1
             d(k) == k < Len(F) /\ F[k + 1] = Quote
  <2>1. n \in 0 .. N - 1 /\ n <= N
    BY <1>1
  <2>2. In(n)
    <3> HIDE DEF In
    <3> QED
      BY <1>4, <2>1
  <2>3. SpellsNext(F, cs, n, q, x)
    BY <2>1, SpelledStep
  <2>4. Scan(F)[q] = "in" /\ \A i \in 2 .. q : Scan(F)[i] # "out"
    BY <2>2
  <2> HIDE DEF q
  <2>5. Scan(F)[x] = "in" /\ \A i \in 2 .. x : Scan(F)[i] # "out"
    <3> HIDE DEF x, In
    <3>1. q \in Nat /\ q >= 2 /\ x \in Nat /\ Len(F) \in Nat /\ q < x /\ x <= Len(F) /\ q \in 1 .. Len(F)
      BY <2>3 DEF SpellsNext
    <3>2. Scan(F)[q + 1] = Moves(Scan(F)[q], F[q], d(q))
      BY <1>1, <3>1, ScanSays
    <3>3. CASE x = q + 2 /\ (F[q] = Back \/ (F[q] = Quote /\ F[q + 1] = Quote))
      <4>1. d(q) \/ F[q] = Back
        BY <3>1, <3>3
      <4>2. q + 1 \in 1 .. Len(F) /\ (q + 1) + 1 = x
        BY <3>1, <3>3
      <4>3. Scan(F)[(q + 1) + 1] = Moves(Scan(F)[q + 1], F[q + 1], d(q + 1))
        BY <1>1, <4>2, ScanSays
      <4> HIDE DEF d
      <4>4. Scan(F)[q + 1] = "skip"
        BY <2>4, <3>2, <3>3, <4>1 DEF Moves
      <4>5. Scan(F)[x] = "in"
        BY <4>2, <4>3, <4>4 DEF Moves
      <4>6. ASSUME NEW i \in 2 .. x PROVE Scan(F)[i] # "out"
        <5>1. i \in 2 .. q \/ i = q + 1 \/ i = x
          BY <3>1, <3>3
        <5> QED
          BY <2>4, <4>4, <4>5, <5>1
      <4> QED
        BY <4>5, <4>6
    <3>4. CASE x = q + 1 /\ F[q] \notin {Quote, Back}
      <4> HIDE DEF d
      <4>1. Scan(F)[x] = "in"
        BY <2>4, <3>2, <3>4 DEF Moves
      <4>2. ASSUME NEW i \in 2 .. x PROVE Scan(F)[i] # "out"
        <5>1. i \in 2 .. q \/ i = x
          BY <3>1, <3>4
        <5> QED
          BY <2>4, <4>1, <5>1
      <4> QED
        BY <4>1, <4>2
    <3> QED
      BY <2>3, <3>3, <3>4 DEF SpellsNext
  <2> QED
    BY <2>5
<1> HIDE DEF T
<1>5. Nat \subseteq T
  BY <1>3, <1>4, Counting
<1>6. Scan(F)[Len(F)] = "in" /\ \A i \in 2 .. Len(F) : Scan(F)[i] # "out"
  BY <1>1, <1>5 DEF T
<1>7. Neat(F)
  <2> DEFINE d == Len(F) < Len(F) /\ F[Len(F) + 1] = Quote
  <2>1. Len(F) \in 1 .. Len(F)
    BY <1>1, <1>2
  <2>2. Scan(F)[Len(F) + 1] = Moves(Scan(F)[Len(F)], F[Len(F)], d)
    BY <1>1, <2>1, ScanSays
  <2>3. ~d
    BY <1>1
  <2> HIDE DEF d
  <2> QED
    BY <1>1, <1>6, <2>2, <2>3, SignsDiffer DEF Moves, Neat
<1>8. ASSUME NEW c \in Specials PROVE Outside(F, c) = {}
  <2>1. c # Quote
    BY SignsDiffer DEF Specials
  <2>2. \A i \in DOMAIN F : i = 1 \/ i \in 2 .. Len(F)
    BY <1>1
  <2> QED
    BY <1>1, <1>6, <2>1, <2>2 DEF Outside
<1> QED
  BY <1>1, <1>7, <1>8 DEF Clean

(* A quoted field is read as the text it was written for.                  *)
LEMMA TextRead ==
  ASSUME NEW cs \in Seq(Char), NEW F, NEW p, Spelled(F, cs, p)
  PROVE  ParseValue(F) = [kind |-> "text", chars |-> cs]
<1> DEFINE N == Len(cs)
           g == CHOOSE f : Rests(f, F)
           Read(n) == g[p[n] + 1] = SubSeq(cs, n + 1, N)
           T == {k \in Nat : k <= N => Read(N - k)}
<1>1. /\ F \in Seq(Char) /\ Len(F) \in Nat /\ N \in Nat /\ p[0] = 1 /\ p[N] + 1 = Len(F)
      /\ F[1] = Quote /\ F[Len(F)] = Quote /\ p[N] \in Nat
  BY DEF Spelled
<1>2. Len(F) >= 2
  <2>1. CASE N = 0
    BY <1>1, <2>1
  <2>2. CASE N # 0
    <3>1. 0 \in 0 .. N - 1
      BY <1>1, <2>2
    <3>2. SpellsNext(F, cs, 0, p[0] + 1, p[0 + 1] + 1)
      BY <3>1, SpelledStep
    <3> DEFINE q == p[0] + 1
               x == p[0 + 1] + 1
    <3>3. q >= 2 /\ q < x /\ x <= Len(F) /\ q \in Nat /\ x \in Nat
      BY <3>2 DEF SpellsNext
    <3> HIDE DEF q, x
    <3> QED
      BY <1>1, <3>3
  <2> QED
    BY <2>1, <2>2
<1>3. \A i \in 2 .. Len(F) + 1 : g[i] = RestOf(g, F, i)
  BY <1>1, RestSays
<1>4. ParseValue(F) = [kind |-> "text", chars |-> g[2]]
  <2>1. F # <<>>
    BY <1>1, <1>2
  <2> HIDE DEF g
  <2> QED
    BY <1>1, <2>1, ValueChosen DEF g
<1> HIDE DEF g
<1>5. 0 \in T
  <2>1. Len(F) \in 2 .. Len(F) + 1
    BY <1>1, <1>2
  <2>2. g[Len(F)] = <<>>
    <3>1. Len(F) >= Len(F)
      BY <1>1
    <3> QED
      BY <1>3, <2>1, <3>1 DEF RestOf
  <2>3. SubSeq(cs, N + 1, N) = <<>>
    BY <1>1, SubSeqEmpty
  <2>4. Read(N)
    <3>1. g[p[N] + 1] = SubSeq(cs, N + 1, N)
      BY <1>1, <2>2, <2>3
    <3> QED
      BY <3>1
  <2>5. N - 0 = N
    BY <1>1
  <2> HIDE DEF Read, N
  <2> QED
    BY <2>4, <2>5
<1>6. ASSUME NEW k \in Nat, k \in T PROVE k + 1 \in T
  <2> SUFFICES ASSUME k + 1 <= N PROVE Read(N - (k + 1))
    OBVIOUS
  <2> DEFINE n == N - (k + 1)
             q == p[n] + 1
             r == SubSeq(cs, n + 2, N)
  <2>1. n \in 0 .. N - 1 /\ N - k = n + 1 /\ n + 1 \in 1 .. N /\ N \in n + 1 .. N /\ (n + 1) + 1 = n + 2 /\ k <= N
    BY <1>1
  <2>2. g[p[n + 1] + 1] = r
    <3>1. Read(N - k)
      <4> HIDE DEF Read
      <4> QED
        BY <1>6, <2>1
    <3> HIDE DEF n
    <3> QED
      BY <2>1, <3>1
  <2> HIDE DEF n
  <2> DEFINE x == p[n + 1] + 1
  <2>3. SpellsNext(F, cs, n, q, x)
    BY <2>1, SpelledStep
  <2>4. g[x] = r
    BY <2>2
  <2>5. SubSeq(cs, n + 1, N) = <<cs[n + 1]>> \o r
    <3>1. SubSeq(cs, n + 1, N) = <<cs[n + 1]>> \o SubSeq(cs, (n + 1) + 1, N)
      BY <2>1, SubSeqRecursiveFirst
    <3> QED
      BY <2>1, <3>1
  <2> HIDE DEF r
  <2>6. g[q] = <<cs[n + 1]>> \o r
    <3> HIDE DEF q, x
    <3>1. q \in Nat /\ q >= 2 /\ x \in Nat /\ Len(F) \in Nat /\ q < x /\ x <= Len(F) /\ q \in 2 .. Len(F) + 1
      BY <2>3 DEF SpellsNext
    <3>2. g[q] = RestOf(g, F, q) /\ ~(q >= Len(F))
      BY <1>3, <3>1
    <3>3. CASE x = q + 2 /\ F[q] = Back /\ Unescaped(F[q + 1]) = cs[n + 1]
      <4>1. q + 1 < Len(F)
        BY <3>1, <3>3
      <4>2. g[q] = <<Unescaped(F[q + 1])>> \o g[q + 2]
        BY <3>2, <3>3, <4>1 DEF RestOf
      <4> QED
        BY <2>4, <3>3, <4>2
    <3>4. CASE x = q + 2 /\ F[q] = Quote /\ F[q + 1] = Quote /\ cs[n + 1] = Quote
      <4>1. g[q] = <<Quote>> \o g[q + 2]
        BY <3>2, <3>4, SignsDiffer DEF RestOf
      <4> QED
        BY <2>4, <3>4, <4>1
    <3>5. CASE x = q + 1 /\ F[q] = cs[n + 1] /\ cs[n + 1] \notin {Quote, Back}
      <4>1. g[q] = <<F[q]>> \o g[q + 1]
        BY <3>2, <3>5 DEF RestOf
      <4> QED
        BY <2>4, <3>5, <4>1
    <3> QED
      BY <2>3, <3>3, <3>4, <3>5 DEF SpellsNext
  <2>7. g[q] = SubSeq(cs, n + 1, N)
    BY <2>5, <2>6
  <2>8. Read(n)
    BY <2>7
  <2> QED
    BY <2>8 DEF n
<1> HIDE DEF T
<1>7. Nat \subseteq T
  BY <1>5, <1>6, Counting
<1>8. Read(0)
  <2>1. N - N = 0 /\ N \in T
    BY <1>1, <1>7
  <2>2. Read(N - N)
    <3> HIDE DEF Read
    <3> QED
      BY <1>1, <2>1 DEF T
  <2> QED
    BY <2>1, <2>2
<1>9. g[2] = SubSeq(cs, 1, N)
  <2>1. p[0] + 1 = 2 /\ 0 + 1 = 1
    BY <1>1
  <2> QED
    BY <1>8, <2>1
<1>10. SubSeq(cs, 1, N) = cs
  BY SubSeqFull
<1> QED
  BY <1>4, <1>9, <1>10

(* A field is clean and is read as its value.                              *)
LEMMA FieldSays ==
  ASSUME NEW v \in Cells(Char), NEW mark \in {Quote, Back}
  PROVE  Clean(Field(v, mark)) /\ ParseValue(Field(v, mark)) = v
<1>1. CASE v \in [kind : {"plain"}, chars : Plain(Char)]
  <2> DEFINE a == v.chars
  <2>1. v = [kind |-> "plain", chars |-> a] /\ a \in Plain(Char) /\ v.kind = "plain"
    BY <1>1
  <2>2. Field(v, mark) = a
    BY <2>1 DEF Field
  <2> HIDE DEF a
  <2>3. Clean(a) /\ \A i \in 1 .. Len(a) : a[i] # Quote
    BY <2>1, PlainClean
  <2>4. ~(a # <<>> /\ a[1] = Quote /\ a[Len(a)] = Quote)
    <3> SUFFICES ASSUME a # <<>> PROVE a[1] # Quote
      OBVIOUS
    <3>1. 1 \in 1 .. Len(a)
      BY <2>1 DEF Plain
    <3> QED
      BY <2>3, <3>1
  <2>5. ParseValue(a) = [kind |-> "plain", chars |-> a]
    BY <2>4, ValueChosen
  <2> QED
    BY <2>1, <2>2, <2>3, <2>5
<1>2. CASE v \in [kind : {"text"}, chars : Seq(Char)]
  <2> DEFINE cs == v.chars
  <2>1. v = [kind |-> "text", chars |-> cs] /\ cs \in Seq(Char)
    BY <1>2
  <2> HIDE DEF cs
  <2>2. PICK p : Spelled(Field([kind |-> "text", chars |-> cs], mark), cs, p)
    BY <2>1, TextSpelled
  <2> DEFINE F == Field(v, mark)
  <2>3. Spelled(F, cs, p)
    BY <2>1, <2>2
  <2> HIDE DEF F
  <2>4. Clean(F)
    BY <2>1, <2>3, TextClean
  <2>5. ParseValue(F) = [kind |-> "text", chars |-> cs]
    BY <2>1, <2>3, TextRead
  <2> QED
    BY <2>1, <2>4, <2>5 DEF F
<1> QED
  BY <1>1, <1>2 DEF Cells

-----------------------------------------------------------------------------
(* Rows                                                                    *)

Rows == Seq(Cells(Char)) \ {<<>>}

IsTuple(t, inner) ==
  /\ t \in Seq(Char) /\ inner \in Seq(Char) /\ Len(t) = Len(inner) + 2
  /\ \A i \in 1 .. Len(inner) : t[1 + i] = inner[i]
  /\ Neat(t) /\ Outside(t, "(") = {1} /\ Outside(t, ")") = {Len(t)} /\ Outside(t, Semicolon) = {}

(* A text without the signs of a tuple, between its parentheses.           *)
LEMMA Parenthesised ==
  ASSUME NEW inner \in Seq(Char), Neat(inner), \A d \in {"(", ")", Semicolon} : Outside(inner, d) = {}
  PROVE  IsTuple(<<"(">> \o inner \o <<")">>, inner)
<1> DEFINE A == <<"(">>
           B == <<")">>
           X == A \o inner
           t == X \o B
           L == Len(inner)
<1>1. /\ A \in Seq(Char) /\ Len(A) = 1 /\ A[1] = "(" /\ Neat(A)
      /\ Outside(A, "(") = {1} /\ \A d : d # "(" => Outside(A, d) = {}
  BY SignsAreChars, SignsDiffer, NeatSign
<1>2. /\ B \in Seq(Char) /\ Len(B) = 1 /\ B[1] = ")" /\ Neat(B)
      /\ Outside(B, ")") = {1} /\ \A d : d # ")" => Outside(B, d) = {}
  BY SignsAreChars, SignsDiffer, NeatSign
<1> HIDE DEF A, B
<1>3. L \in Nat
  OBVIOUS
<1>4. Apart(A, inner)
  BY <1>1, SignsDiffer DEF Apart
<1>5. Neat(X) /\ \A d : Outside(X, d) = Outside(A, d) \cup {Len(A) + i : i \in Outside(inner, d)}
  BY <1>1, <1>4, NeatConcat
<1>6. X \in Seq(Char) /\ Len(X) = 1 + L /\ \A i \in 1 .. L : X[1 + i] = inner[i]
  <2>1. /\ A \o inner \in Seq(Char) /\ Len(A \o inner) = Len(A) + Len(inner)
        /\ \A i \in 1 .. Len(inner) : (A \o inner)[Len(A) + i] = inner[i]
    BY <1>1, Concat
  <2> QED
    BY <1>1, <2>1
<1> HIDE DEF X
<1>7. Apart(X, B)
  BY <1>2, SignsDiffer DEF Apart
<1>8. Neat(t) /\ \A d : Outside(t, d) = Outside(X, d) \cup {Len(X) + i : i \in Outside(B, d)}
  BY <1>2, <1>5, <1>6, <1>7, NeatConcat
<1>9. t \in Seq(Char) /\ Len(t) = L + 2 /\ \A i \in 1 .. L : t[1 + i] = inner[i]
  <2>1. /\ X \o B \in Seq(Char) /\ Len(X \o B) = Len(X) + Len(B)
        /\ \A i \in 1 .. Len(X) : (X \o B)[i] = X[i]
    BY <1>2, <1>6, Concat
  <2>2. \A i \in 1 .. L : 1 + i \in 1 .. Len(X)
    BY <1>3, <1>6
  <2>3. Len(X) + Len(B) = L + 2
    BY <1>2, <1>3, <1>6
  <2> HIDE DEF L
  <2> QED
    BY <1>6, <2>1, <2>2, <2>3
<1> HIDE DEF t
<1>10. ASSUME NEW d \in {"(", ")", Semicolon} PROVE Outside(X, d) = Outside(A, d)
  <2>1. Outside(inner, d) = {}
    OBVIOUS
  <2>2. Outside(X, d) = Outside(A, d) \cup {Len(A) + i : i \in Outside(inner, d)}
    BY <1>5
  <2>3. {Len(A) + i : i \in Outside(inner, d)} = {}
    BY <2>1
  <2> QED
    BY <2>2, <2>3
<1>11. Outside(t, "(") = {1}
  <2>1. Outside(X, "(") = {1} /\ Outside(B, "(") = {}
    BY <1>1, <1>2, <1>10, SignsDiffer
  <2> QED
    BY <1>8, <2>1
<1>12. Outside(t, Semicolon) = {}
  <2>1. Outside(X, Semicolon) = {} /\ Outside(B, Semicolon) = {}
    BY <1>1, <1>2, <1>10, SignsDiffer
  <2> QED
    BY <1>8, <2>1
<1>13. Outside(t, ")") = {Len(t)}
  <2>1. Outside(X, ")") = {} /\ Outside(B, ")") = {1}
    BY <1>1, <1>2, <1>10, SignsDiffer
  <2>2. Outside(t, ")") = {Len(X) + 1}
    BY <1>8, <2>1
  <2>3. Len(X) + 1 = Len(t)
    BY <1>3, <1>6, <1>9
  <2> QED
    BY <2>2, <2>3
<1>14. IsTuple(t, inner)
  <2> HIDE DEF L
  <2> QED
    BY <1>8, <1>9, <1>11, <1>12, <1>13 DEF IsTuple, L
<1> QED
  BY <1>14 DEF t, X, A, B

(* A row is a tuple whose fields are read as its values.                   *)
LEMMA TupleSays ==
  ASSUME NEW r \in Rows, NEW mark \in {Quote, Back}
  PROVE  \E inner : IsTuple(Tuple(r, mark), inner) /\ ParseRow(SplitFields(inner)) = r
<1> DEFINE N == Len(r)
           fields == [f \in DOMAIN r |-> Field(r[f], mark)]
           C == <<Comma>>
           inner == Join(fields, C)
<1>1. /\ r \in Seq(Cells(Char)) /\ N \in Nat \ {0} /\ DOMAIN r = 1 .. N
      /\ \A f \in 1 .. N : r[f] \in Cells(Char)
  BY DEF Rows
<1>2. \A f \in 1 .. N : Clean(Field(r[f], mark)) /\ ParseValue(Field(r[f], mark)) = r[f]
  BY <1>1, FieldSays
<1>3. /\ fields \in Seq(Seq(Char)) /\ Len(fields) = N /\ DOMAIN fields = 1 .. N /\ fields # <<>>
      /\ \A f \in 1 .. N : fields[f] = Field(r[f], mark)
  <2>1. \A f \in 1 .. N : Field(r[f], mark) \in Seq(Char)
    BY <1>2 DEF Clean
  <2>2. fields = [f \in 1 .. N |-> Field(r[f], mark)]
    BY <1>1
  <2> HIDE DEF fields, N
  <2>3. fields \in Seq(Seq(Char)) /\ Len(fields) = N
    BY <1>1, <2>1, <2>2
  <2> QED
    BY <1>1, <2>2, <2>3
<1>4. C \in Seq(Char)
  BY SignsAreChars
<1> HIDE DEF fields, N
<1>5. \A f \in 1 .. N : Neat(fields[f]) /\ \A d \in Specials : Outside(fields[f], d) = {}
  BY <1>2, <1>3 DEF Clean
<1>6. PICK g : Joined(g, fields, C) /\ Join(fields, C) = g[Len(fields)]
  <2> HIDE DEF C
  <2> QED
    BY <1>3, <1>4, JoinSays
<1>7. \A n \in 0 .. N : Neat(g[n]) /\ \A d, x : x \in Outside(g[n], d) <=> SignAt(g, fields, n, d, x)
  BY <1>3, <1>5, <1>6, JoinOutside
<1>8. inner = g[N] /\ N \in 0 .. N
  BY <1>1, <1>3, <1>6
<1>9. inner \in Seq(Char)
  <2>1. g \in [0 .. N -> Seq(Char)]
    BY <1>3, <1>6 DEF Joined
  <2> HIDE DEF inner
  <2> QED
    BY <1>8, <2>1
<1>10. ASSUME NEW d \in {"(", ")", Semicolon} PROVE Outside(inner, d) = {}
  <2>1. d \in Specials /\ d # Comma
    BY SignsDiffer DEF Specials
  <2>2. \A x : ~SignAt(g, fields, N, d, x)
    BY <1>5, <2>1 DEF SignAt
  <2>3. \A x : x \notin Outside(g[N], d)
    BY <1>7, <1>8, <2>2
  <2> QED
    BY <1>8, <2>3
<1>11. SplitFields(inner) = fields
  <2>1. \A n \in 1 .. Len(fields) : Neat(fields[n]) /\ Outside(fields[n], Comma) = {}
    BY <1>3, <1>5 DEF Specials
  <2> QED
    BY <1>3, <2>1, SplitJoined
<1>12. ParseRow(fields) = r
  <2>1. ParseRow(fields) = [f \in 1 .. N |-> r[f]]
    BY <1>2, <1>3 DEF ParseRow
  <2> QED
    BY <1>1, <2>1
<1>13. Tuple(r, mark) = <<"(">> \o inner \o <<")">>
  BY DEF Tuple, fields
<1> HIDE DEF inner
<1>14. Neat(inner)
  BY <1>7, <1>8
<1>15. IsTuple(Tuple(r, mark), inner)
  BY <1>9, <1>10, <1>13, <1>14, Parenthesised
<1> QED
  BY <1>11, <1>12, <1>15

-----------------------------------------------------------------------------
(* Tuples joined by commas                                                 *)

(* The n-th parenthesis opens, closes, and then the next one opens.        *)
Interleaved(o, c, N) ==
  /\ Rising(o, N) /\ Rising(c, N)
  /\ \A n \in 1 .. N : o[n] < c[n]
  /\ \A n \in 1 .. N : n + 1 \in 1 .. N => c[n] < o[n + 1]

Within(s, o, c, N) == [n \in 1 .. N |-> SplitFields(SubSeq(s, o[n] + 1, c[n] - 1))]

(* Of interleaved parentheses the n-th has n - 1 pairs before it.          *)
LEMMA InterleavedSays ==
  ASSUME NEW N \in Nat, NEW o, NEW c, Interleaved(o, c, N), NEW i \in 1 .. N, NEW n \in 1 .. N
  PROVE  /\ o[i] \in Nat /\ c[i] \in Nat
         /\ o[i] < c[n] <=> i <= n
         /\ c[i] < o[n] <=> i <= n - 1
         /\ o[i] < o[n] <=> i <= n - 1
         /\ c[i] < c[n] <=> i <= n - 1
         /\ o[i] = o[n] <=> i = n
<1>1. \A a \in 1 .. N : o[a] \in Nat /\ c[a] \in Nat /\ o[a] < c[a]
  BY DEF Interleaved, Rising
<1>2. \A a, b \in 1 .. N : a < b => o[a] < o[b] /\ c[a] < c[b]
  BY DEF Interleaved, Rising
<1>3. \A a, b \in 1 .. N : a < b => c[a] < o[b]
  <2> SUFFICES ASSUME NEW a \in 1 .. N, NEW b \in 1 .. N, a < b PROVE c[a] < o[b]
    OBVIOUS
  <2>1. a + 1 \in 1 .. N /\ (a + 1 = b \/ a + 1 < b)
    OBVIOUS
  <2>2. c[a] < o[a + 1]
    BY <2>1 DEF Interleaved
  <2>3. o[a + 1] = o[b] \/ o[a + 1] < o[b]
    BY <1>2, <2>1
  <2>4. c[a] \in Nat /\ o[a + 1] \in Nat /\ o[b] \in Nat
    BY <1>1, <2>1
  <2> QED
    BY <2>2, <2>3, <2>4
<1> DEFINE oi == o[i]
           ci == c[i]
           on == o[n]
           cn == c[n]
<1>4. oi \in Nat /\ ci \in Nat /\ on \in Nat /\ cn \in Nat /\ oi < ci /\ on < cn
  BY <1>1
<1>5. (i < n => oi < on /\ ci < cn /\ ci < on) /\ (n < i => on < oi /\ cn < ci /\ cn < oi)
  BY <1>2, <1>3
<1>6. i = n => oi = on /\ ci = cn
  OBVIOUS
<1>7. i \in Nat /\ n \in Nat /\ (i < n <=> i <= n - 1)
  OBVIOUS
<1> HIDE DEF oi, ci, on, cn
<1>8. /\ oi < cn <=> i <= n
      /\ ci < on <=> i <= n - 1
      /\ oi < on <=> i <= n - 1
      /\ ci < cn <=> i <= n - 1
      /\ oi = on <=> i = n
  <2>1. CASE i < n
    BY <1>4, <1>5, <1>7, <2>1
  <2>2. CASE i = n
    BY <1>4, <1>6, <1>7, <2>2
  <2>3. CASE n < i
    BY <1>4, <1>5, <1>7, <2>3
  <2> QED
    BY <1>7, <2>1, <2>2, <2>3
<1> QED
  BY <1>4, <1>8 DEF oi, ci, on, cn

(* Every parenthesis that opens is in no others, and the first that closes *)
(* after it is its own.                                                    *)
LEMMA TuplesAre ==
  ASSUME NEW s, NEW N \in Nat, NEW o, NEW c, Interleaved(o, c, N),
         Outside(s, "(") = Places(o, N), Outside(s, ")") = Places(c, N)
  PROVE  Tuples(s) = Within(s, o, c, N)
<1> DEFINE opens == Outside(s, "(")
           closes == Outside(s, ")")
           depth(i) == Cardinality({x \in opens : x < i}) - Cardinality({x \in closes : x < i})
           ends(x) == {y \in closes : y > x /\ depth(y) = 1}
           first == {x \in opens : depth(x) = 0 /\ ends(x) # {}}
           nth(n) == CHOOSE x \in first : Cardinality({f \in first : f < x}) = n - 1
<1>1. Tuples(s) = [n \in 1 .. Cardinality(first) |-> SplitFields(SubSeq(s, nth(n) + 1, Min(ends(nth(n))) - 1))]
  BY DEF Tuples
<1>2. \A i : depth(i) = Fewer(Places(o, N), i) - Fewer(Places(c, N), i)
  BY DEF Fewer
<1>3. \A x \in Places(o, N) : \E n \in 1 .. N : x = o[n]
  BY DEF Places
<1>4. \A x \in Places(c, N) : \E n \in 1 .. N : x = c[n]
  BY DEF Places
<1>5. \A n \in 1 .. N : o[n] \in Places(o, N) /\ c[n] \in Places(c, N)
  BY DEF Places
<1>6. Rising(o, N) /\ Rising(c, N)
  BY DEF Interleaved
<1> HIDE DEF depth
<1>7. ASSUME NEW n \in 1 .. N PROVE depth(o[n]) = 0 /\ depth(c[n]) = 1
  <2>1. n \in 0 .. N /\ n - 1 \in 0 .. N
    OBVIOUS
  <2>2. \A i \in 1 .. N : /\ o[i] < c[n] <=> i <= n
                          /\ c[i] < o[n] <=> i <= n - 1
                          /\ o[i] < o[n] <=> i <= n - 1
                          /\ c[i] < c[n] <=> i <= n - 1
    BY InterleavedSays
  <2>3. Fewer(Places(o, N), o[n]) = n - 1
    BY <1>6, <2>1, <2>2, CountBelow
  <2>4. Fewer(Places(c, N), o[n]) = n - 1
    BY <1>6, <2>1, <2>2, CountBelow
  <2>5. Fewer(Places(o, N), c[n]) = n
    BY <1>6, <2>1, <2>2, CountBelow
  <2>6. Fewer(Places(c, N), c[n]) = n - 1
    BY <1>6, <2>1, <2>2, CountBelow
  <2>7. (n - 1) - (n - 1) = 0 /\ n - (n - 1) = 1
    OBVIOUS
  <2> QED
    BY <1>2, <2>3, <2>4, <2>5, <2>6, <2>7
<1>8. ASSUME NEW n \in 1 .. N PROVE ends(o[n]) # {} /\ Min(ends(o[n])) = c[n]
  <2>1. \A i \in 1 .. N : o[i] \in Nat /\ c[i] \in Nat
    BY InterleavedSays
  <2>2. c[n] > o[n]
    <3>1. o[n] < c[n] /\ o[n] \in Nat /\ c[n] \in Nat
      BY InterleavedSays
    <3> QED
      BY <3>1
  <2>3. c[n] \in ends(o[n])
    BY <1>5, <1>7, <2>2
  <2>4. ASSUME NEW y \in ends(o[n]) PROVE y \in Nat /\ c[n] <= y
    <3>1. PICK i \in 1 .. N : y = c[i]
      BY <1>4
    <3>2. c[i] > o[n]
      BY <3>1
    <3>3. /\ c[i] \in Nat /\ c[n] \in Nat /\ o[n] \in Nat
          /\ c[i] < c[n] <=> i <= n - 1
          /\ c[i] < o[n] <=> i <= n - 1
      BY InterleavedSays
    <3>4. ~(c[i] < c[n])
      BY <3>2, <3>3
    <3> QED
      BY <3>1, <3>3, <3>4
  <2> DEFINE E == ends(o[n])
  <2>5. E \in SUBSET Nat /\ c[n] \in E /\ \A m \in E : c[n] <= m
    BY <2>3, <2>4
  <2> HIDE DEF E
  <2>6. Min(E) = c[n]
    BY <2>5, LeastIs
  <2> QED
    BY <2>5, <2>6 DEF E
<1> HIDE DEF ends
<1>9. first = Places(o, N)
  BY <1>3, <1>7, <1>8
<1>10. \A n : nth(n) = CHOOSE y \in Places(o, N) : Fewer(Places(o, N), y) = n - 1
  BY <1>9 DEF Fewer
<1>11. Cardinality(first) = N
  BY <1>6, <1>9, CountAll
<1> HIDE DEF first, nth
<1>12. ASSUME NEW n \in 1 .. N PROVE nth(n) = o[n]
  <2>1. (CHOOSE y \in Places(o, N) : Fewer(Places(o, N), y) = n - 1) = o[n]
    BY <1>6, NthIs
  <2> QED
    BY <1>10, <2>1
<1>13. ASSUME NEW n \in 1 .. N
       PROVE  SplitFields(SubSeq(s, nth(n) + 1, Min(ends(nth(n))) - 1)) = SplitFields(SubSeq(s, o[n] + 1, c[n] - 1))
  <2>1. nth(n) = o[n] /\ Min(ends(nth(n))) = c[n]
    BY <1>8, <1>12
  <2> QED
    BY <2>1
<1> QED
  BY <1>1, <1>11, <1>13 DEF Within

-----------------------------------------------------------------------------
(* Statements                                                              *)

Tells(body, rows) == [n \in DOMAIN Tuples(body) |-> ParseRow(Tuples(body)[n])] = rows

(* The tuples between a head and a semicolon are read as the rows.         *)
LEMMA BodySays ==
  ASSUME NEW rows \in Seq(Rows), NEW mark \in {Quote, Back}
  PROVE  LET body == Join([n \in DOMAIN rows |-> Tuple(rows[n], mark)], <<Comma>>)
         IN  body \in Seq(Char) /\ Neat(body) /\ Outside(body, Semicolon) = {} /\ Tells(body, rows)
<1> DEFINE N == Len(rows)
           parts == [n \in DOMAIN rows |-> Tuple(rows[n], mark)]
           C == <<Comma>>
           Is(n, x) == IsTuple(parts[n], x) /\ ParseRow(SplitFields(x)) = rows[n]
           inn == [n \in 1 .. N |-> CHOOSE x : Is(n, x)]
           body == Join(parts, C)
<1>1. N \in Nat /\ DOMAIN rows = 1 .. N /\ \A n \in 1 .. N : rows[n] \in Rows
  OBVIOUS
<1>2. ASSUME NEW n \in 1 .. N PROVE Is(n, inn[n])
  <2>1. \E x : IsTuple(Tuple(rows[n], mark), x) /\ ParseRow(SplitFields(x)) = rows[n]
    BY <1>1, TupleSays
  <2>2. parts[n] = Tuple(rows[n], mark)
    BY <1>1
  <2> HIDE DEF parts
  <2>3. \E x : Is(n, x)
    BY <2>1, <2>2
  <2>4. inn[n] = CHOOSE x : Is(n, x)
    OBVIOUS
  <2> HIDE DEF Is
  <2> QED
    BY <2>3, <2>4
<1> HIDE DEF inn
<1>3. parts \in Seq(Seq(Char)) /\ Len(parts) = N
  <2>1. \A n \in 1 .. N : parts[n] \in Seq(Char)
    BY <1>2 DEF IsTuple
  <2>2. parts = [n \in 1 .. N |-> parts[n]]
    BY <1>1
  <2> HIDE DEF parts, N
  <2> QED
    BY <1>1, <2>1, <2>2
<1>4. C \in Seq(Char) /\ Len(C) = 1
  BY SignsAreChars
<1> HIDE DEF parts, N, C
<1>5. PICK g : Joined(g, parts, C) /\ body = g[Len(parts)]
  BY <1>3, <1>4, JoinSays
<1>6. \A n \in 1 .. N : Neat(parts[n])
  BY <1>2 DEF IsTuple
<1>7. \A n \in 0 .. N : Neat(g[n]) /\ \A d, x : x \in Outside(g[n], d) <=> SignAt(g, parts, n, d, x)
  BY <1>3, <1>5, <1>6, JoinOutside DEF C
<1>8. body = g[N] /\ N \in 0 .. N
  BY <1>1, <1>3, <1>5
<1> HIDE DEF body
<1>9. body \in Seq(Char) /\ Neat(body)
  <2>1. g \in [0 .. N -> Seq(Char)]
    BY <1>3, <1>5 DEF Joined
  <2> QED
    BY <1>7, <1>8, <2>1
<1>10. \A d, x : d # Comma => (x \in Outside(body, d) <=>
                   \E j \in 1 .. N : \E i \in Outside(parts[j], d) : x = Offset(g, j, C) + i)
  BY <1>7, <1>8 DEF SignAt, C
<1>11. Outside(body, Semicolon) = {}
  <2>1. \A j \in 1 .. N : Outside(parts[j], Semicolon) = {}
    BY <1>2 DEF IsTuple
  <2>2. \A x : x \notin Outside(body, Semicolon)
    BY <1>10, <2>1, SignsDiffer
  <2> QED
    BY <2>2
<1> DEFINE o == [n \in 1 .. N |-> Offset(g, n, C) + 1]
           c == [n \in 1 .. N |-> Len(g[n])]
<1>12. ASSUME NEW n \in 1 .. N
       PROVE  /\ Offset(g, n, C) \in Nat /\ Len(g[n]) \in Nat /\ Len(parts[n]) \in Nat
              /\ Len(g[n]) = Offset(g, n, C) + Len(parts[n])
              /\ Len(inn[n]) \in Nat /\ inn[n] \in Seq(Char) /\ Len(parts[n]) = Len(inn[n]) + 2
              /\ o[n] = Offset(g, n, C) + 1 /\ c[n] = Len(g[n])
  <2>1. n \in 1 .. Len(parts)
    BY <1>3
  <2>2. /\ Len(g[n]) \in Nat /\ Len(parts[n]) \in Nat /\ Offset(g, n, C) \in Nat
        /\ Len(g[n]) = Offset(g, n, C) + Len(parts[n])
    <3>1. parts \in Seq(Seq(Char)) /\ C \in Seq(Char) /\ Joined(g, parts, C)
      BY <1>3, <1>4, <1>5
    <3> HIDE DEF parts, N, C, o, c
    <3> QED
      BY <2>1, <3>1, JoinedStep, SMTT(30)
  <2>3. inn[n] \in Seq(Char) /\ Len(parts[n]) = Len(inn[n]) + 2
    BY <1>2 DEF IsTuple
  <2> QED
    BY <2>2, <2>3
<1>13. ASSUME NEW n \in 1 .. N, n + 1 \in 1 .. N PROVE Offset(g, n + 1, C) = Len(g[n]) + 1
  <2>1. n + 1 # 1 /\ (n + 1) - 1 = n
    BY <1>1
  <2> QED
    BY <1>4, <2>1 DEF Offset
<1>14. Interleaved(o, c, N)
  <2>1. ASSUME NEW n \in 1 .. N PROVE o[n] \in Nat /\ c[n] \in Nat /\ o[n] < c[n]
    <3> DEFINE a == Offset(g, n, C)
               b == Len(inn[n])
               d == Len(parts[n])
               e == Len(g[n])
               on == o[n]
               cn == c[n]
    <3>1. a \in Nat /\ b \in Nat /\ e = a + d /\ d = b + 2 /\ on = a + 1 /\ cn = e
      BY <1>12
    <3>2. on \in Nat /\ cn \in Nat /\ on < cn
      <4> HIDE DEF a, b, d, e, on, cn
      <4> QED
        BY <3>1
    <3> QED
      BY <3>2
  <2>2. ASSUME NEW n \in 1 .. N, n + 1 \in 1 .. N PROVE c[n] < o[n + 1]
    <3> DEFINE e == Len(g[n])
               x == c[n]
               y == o[n + 1]
    <3>1. e \in Nat /\ x = e /\ y = (e + 1) + 1
      BY <1>12, <1>13, <2>2
    <3>2. x < y
      <4> HIDE DEF e, x, y
      <4> QED
        BY <3>1
    <3> QED
      BY <3>2
  <2>3. ASSUME NEW i \in 1 .. N, NEW j \in 1 .. N, i < j PROVE c[i] < c[j]
    <3>1. i \in 1 .. Len(parts) /\ j \in i + 1 .. Len(parts)
      BY <1>1, <1>3, <2>3
    <3>2. Len(g[i]) < Len(g[j])
      BY <1>3, <1>4, <1>5, <3>1, JoinedLonger
    <3> QED
      BY <1>12, <3>2
  <2> HIDE DEF o, c
  <2>4. ASSUME NEW i \in 1 .. N, NEW j \in 1 .. N, i < j PROVE o[i] < o[j]
    <3>1. j - 1 \in 1 .. N /\ (j - 1) + 1 = j /\ (i = j - 1 \/ i < j - 1)
      BY <1>1, <2>4
    <3>2. c[i] = c[j - 1] \/ c[i] < c[j - 1]
      BY <2>3, <3>1
    <3>3. c[j - 1] < o[j]
      <4>1. c[j - 1] < o[(j - 1) + 1]
        BY <2>2, <3>1
      <4> QED
        BY <3>1, <4>1
    <3>4. o[i] \in Nat /\ c[i] \in Nat /\ o[i] < c[i] /\ c[j - 1] \in Nat /\ o[j] \in Nat
      BY <2>1, <3>1
    <3> DEFINE a == o[i]
               b == c[i]
               d == c[j - 1]
               e == o[j]
    <3>5. a < e
      <4>1. a \in Nat /\ b \in Nat /\ d \in Nat /\ e \in Nat /\ a < b /\ (b = d \/ b < d) /\ d < e
        BY <3>2, <3>3, <3>4
      <4> HIDE DEF a, b, d, e
      <4> QED
        BY <4>1
    <3> QED
      BY <3>5
  <2>5. o \in [1 .. N -> Nat] /\ c \in [1 .. N -> Nat]
    <3>1. o = [n \in 1 .. N |-> o[n]] /\ c = [n \in 1 .. N |-> c[n]]
      BY DEF o, c
    <3> QED
      BY <2>1, <3>1
  <2> QED
    BY <2>1, <2>2, <2>3, <2>4, <2>5 DEF Interleaved, Rising
<1>15. Outside(body, "(") = Places(o, N)
  <2>1. \A j \in 1 .. N : Outside(parts[j], "(") = {1}
    BY <1>2 DEF IsTuple
  <2> DEFINE P == "("
  <2>a. P # Comma /\ \A j \in 1 .. N : Outside(parts[j], P) = {1}
    BY <2>1, SignsDiffer
  <2>2. \A x : x \in Outside(body, P) <=> \E j \in 1 .. N : x = Offset(g, j, C) + 1
    <3> HIDE DEF P
    <3> SUFFICES ASSUME NEW x
                 PROVE  x \in Outside(body, P) <=> \E j \in 1 .. N : x = Offset(g, j, C) + 1
      OBVIOUS
    <3>1. x \in Outside(body, P) <=> \E j \in 1 .. N : \E i \in Outside(parts[j], P) : x = Offset(g, j, C) + i
      BY <1>10, <2>a
    <3> QED
      BY <2>a, <3>1
  <2>3. \A j \in 1 .. N : o[j] = Offset(g, j, C) + 1
    OBVIOUS
  <2> HIDE DEF o
  <2> QED
    BY <2>2, <2>3 DEF Places
<1>16. Outside(body, ")") = Places(c, N)
  <2>1. \A j \in 1 .. N : Outside(parts[j], ")") = {Len(parts[j])}
    BY <1>2 DEF IsTuple
  <2> DEFINE P == ")"
  <2>a. P # Comma /\ \A j \in 1 .. N : Outside(parts[j], P) = {Len(parts[j])}
    BY <2>1, SignsDiffer
  <2>2. \A x : x \in Outside(body, P) <=> \E j \in 1 .. N : x = Offset(g, j, C) + Len(parts[j])
    <3> HIDE DEF P
    <3> SUFFICES ASSUME NEW x
                 PROVE  x \in Outside(body, P) <=> \E j \in 1 .. N : x = Offset(g, j, C) + Len(parts[j])
      OBVIOUS
    <3>1. x \in Outside(body, P) <=> \E j \in 1 .. N : \E i \in Outside(parts[j], P) : x = Offset(g, j, C) + i
      BY <1>10, <2>a
    <3> QED
      BY <2>a, <3>1
  <2>3. \A j \in 1 .. N : c[j] = Offset(g, j, C) + Len(parts[j])
    BY <1>12
  <2> HIDE DEF c
  <2> QED
    BY <2>2, <2>3 DEF Places
<1>17. Tuples(body) = Within(body, o, c, N)
  <2> HIDE DEF o, c
  <2> QED
    BY <1>1, <1>14, <1>15, <1>16, TuplesAre
<1>18. ASSUME NEW n \in 1 .. N PROVE SubSeq(body, o[n] + 1, c[n] - 1) = inn[n]
  <2> DEFINE q == o[n]
             x == inn[n]
             L == Len(x)
             a == Offset(g, n, C)
             e == Len(g[n])
             d == Len(parts[n])
             cn == c[n]
  <2>1. /\ a \in Nat /\ e \in Nat /\ d \in Nat /\ e = a + d /\ L \in Nat /\ d = L + 2 /\ q = a + 1 /\ cn = e
        /\ x \in Seq(Char)
    BY <1>12
  <2>2. e <= Len(body) /\ \A i \in 1 .. d : body[a + i] = parts[n][i]
    <3>1. n \in 1 .. Len(parts)
      BY <1>3
    <3>2. LET s == g[Len(parts)]
          IN  Len(g[n]) <= Len(s) /\ \A i \in 1 .. Len(parts[n]) : s[Offset(g, n, C) + i] = parts[n][i]
      <4>1. parts \in Seq(Seq(Char)) /\ C \in Seq(Char) /\ Joined(g, parts, C)
        BY <1>3, <1>4, <1>5
      <4> HIDE DEF parts, N, C, o, c, q, x, L, a, e, d, cn
      <4> QED
        BY <3>1, <4>1, JoinPlace
    <3> QED
      BY <1>5, <3>2
  <2>3. \A i \in 1 .. L : parts[n][1 + i] = x[i]
    BY <1>2 DEF IsTuple
  <2> HIDE DEF q, L, x, a, e, d, cn, o, c
  <2>4. q \in Nat /\ q + L = cn - 1 /\ cn - 1 <= e
    BY <2>1
  <2>5. \A i \in 1 .. L : body[q + i] = x[i]
    <3> SUFFICES ASSUME NEW i \in 1 .. L PROVE body[q + i] = x[i]
      OBVIOUS
    <3>1. 1 + i \in 1 .. d /\ a + (1 + i) = q + i
      BY <2>1
    <3>2. body[a + (1 + i)] = parts[n][1 + i]
      BY <2>2, <3>1
    <3> QED
      BY <2>3, <3>1, <3>2
  <2>6. q + Len(x) <= Len(body)
    <3>1. Len(body) \in Nat
      BY <1>9
    <3> QED
      BY <2>1, <2>2, <2>4, <3>1 DEF L
  <2>7. SubSeq(body, q + 1, q + Len(x)) = x
    <3>1. \A i \in 1 .. Len(x) : body[q + i] = x[i]
      BY <2>5 DEF L
    <3> QED
      BY <1>9, <2>1, <2>4, <2>6, <3>1, SubSeqIs
  <2>8. SubSeq(body, q + 1, cn - 1) = x
    BY <2>4, <2>7 DEF L
  <2> QED
    BY <2>8 DEF q, cn, x
<1> HIDE DEF o, c
<1>19. DOMAIN Tuples(body) = 1 .. N /\ \A n \in 1 .. N : Tuples(body)[n] = SplitFields(inn[n])
  BY <1>17, <1>18 DEF Within
<1>20. \A n \in 1 .. N : ParseRow(Tuples(body)[n]) = rows[n]
  BY <1>2, <1>19
<1>21. Tells(body, rows)
  <2>1. rows = [n \in 1 .. N |-> rows[n]]
    BY <1>1 DEF N
  <2> QED
    BY <1>19, <1>20, <2>1 DEF Tells
<1> QED
  BY <1>9, <1>11, <1>21 DEF body, parts, C

(* The end of a statement is found whatever follows it.                    *)
LEMMA EndSays ==
  ASSUME NEW body \in Seq(Char), Neat(body), Outside(body, Semicolon) = {},
         NEW after \in Seq(Char), Len(body) + 1 <= Len(after),
         \A i \in 1 .. Len(body) : after[i] = body[i], after[Len(body) + 1] = Semicolon
  PROVE  StatementEnd(after) = Len(body) + 1 /\ SubSeq(after, 1, (Len(body) + 1) - 1) = body
<1> DEFINE L == Len(body)
           E == <<Semicolon>>
           tail == body \o E
<1>1. L \in Nat /\ Len(after) \in Nat
  OBVIOUS
<1>2. /\ E \in Seq(Char) /\ Len(E) = 1 /\ E[1] = Semicolon /\ Neat(E) /\ Outside(E, Semicolon) = {1}
  BY SignsAreChars, SignsDiffer, NeatSign
<1> HIDE DEF E
<1>3. /\ tail \in Seq(Char) /\ Len(tail) = L + 1 /\ tail[L + 1] = Semicolon
      /\ \A i \in 1 .. L : tail[i] = body[i]
  <2>1. /\ body \o E \in Seq(Char) /\ Len(body \o E) = Len(body) + Len(E)
        /\ \A i \in 1 .. Len(body) : (body \o E)[i] = body[i]
        /\ \A i \in 1 .. Len(E) : (body \o E)[Len(body) + i] = E[i]
    BY <1>2, Concat
  <2>2. 1 \in 1 .. Len(E)
    BY <1>2
  <2> QED
    BY <1>2, <2>1, <2>2
<1>4. Outside(tail, Semicolon) = {L + 1}
  <2>1. Apart(body, E)
    BY <1>2, SignsDiffer DEF Apart
  <2>2. Outside(tail, Semicolon) = Outside(body, Semicolon) \cup {Len(body) + i : i \in Outside(E, Semicolon)}
    BY <1>2, <2>1, NeatConcat
  <2> QED
    BY <1>2, <2>2
<1> HIDE DEF tail
<1>5. \A i \in 1 .. L + 1 : after[i] = tail[i]
  <2> SUFFICES ASSUME NEW i \in 1 .. L + 1 PROVE after[i] = tail[i]
    OBVIOUS
  <2>1. i \in 1 .. L \/ i = L + 1
    BY <1>1
  <2> QED
    BY <1>3, <2>1
<1> HIDE DEF L
<1>6. \A i \in 1 .. L + 1 : Scan(after)[i] = Scan(tail)[i]
  <2>1. \A i \in 1 .. Len(tail) + 1 : Scan(after)[0 + i] = Scan(tail)[i]
    <3>1. 0 \in Nat /\ 0 + Len(tail) <= Len(after)
      BY <1>1, <1>3 DEF L
    <3>2. \A i \in 1 .. Len(tail) : after[0 + i] = tail[i]
      BY <1>3, <1>5
    <3>3. Scan(after)[0 + 1] = "out"
      BY ScanSays
    <3>4. tail[Len(tail)] # Quote
      BY <1>3, SignsDiffer
    <3> QED
      BY <1>3, <3>1, <3>2, <3>3, <3>4, Local
  <2>2. \A i \in 1 .. L + 1 : i \in 1 .. Len(tail) + 1 /\ 0 + i = i
    BY <1>1, <1>3
  <2> QED
    BY <2>1, <2>2
<1>7. DOMAIN tail = 1 .. L + 1 /\ DOMAIN after = 1 .. Len(after)
  BY <1>3
<1>8. ASSUME NEW m \in 1 .. L + 1 PROVE m \in Outside(after, Semicolon) <=> m = L + 1
  <2>1. m \in DOMAIN after /\ m \in DOMAIN tail
    BY <1>1, <1>7 DEF L
  <2>2. m \in Outside(after, Semicolon) <=> m \in Outside(tail, Semicolon)
    BY <1>5, <1>6, <2>1 DEF Outside
  <2> QED
    BY <1>4, <2>2
<1> DEFINE T == Outside(after, Semicolon) \cup {Len(after) + 1}
<1>9. T \in SUBSET Nat
  <2>1. Outside(after, Semicolon) \subseteq DOMAIN after
    BY DEF Outside
  <2>2. DOMAIN after \subseteq Nat /\ Len(after) + 1 \in Nat
    BY <1>1, <1>7
  <2> QED
    BY <2>1, <2>2
<1>10. L + 1 \in T
  <2>1. L + 1 \in 1 .. L + 1
    BY <1>1
  <2> QED
    BY <1>8, <2>1
<1>11. ASSUME NEW m \in T PROVE L + 1 <= m
  <2> SUFFICES ASSUME m < L + 1 PROVE FALSE
    BY <1>1, <1>9
  <2>1. m \in Outside(after, Semicolon)
    <3>1. m # Len(after) + 1
      BY <1>1 DEF L
    <3> QED
      BY <3>1
  <2>2. m \in 1 .. L + 1
    <3>1. m \in 1 .. Len(after)
      BY <1>7, <2>1 DEF Outside
    <3> HIDE DEF T
    <3> QED
      BY <1>1, <3>1
  <2> HIDE DEF T
  <2> QED
    BY <1>1, <1>8, <2>1, <2>2
<1> HIDE DEF T
<1>12. StatementEnd(after) = L + 1
  <2>1. Min(T) = L + 1
    BY <1>9, <1>10, <1>11, LeastIs
  <2> QED
    BY <2>1 DEF T, StatementEnd
<1>13. SubSeq(after, 1, L) = body
  <2>1. 0 + Len(body) <= Len(after) /\ 0 + Len(body) = L /\ 0 + 1 = 1 /\ 0 \in Nat
    BY <1>1 DEF L
  <2>2. \A i \in 1 .. Len(body) : after[0 + i] = body[i]
    OBVIOUS
  <2>3. SubSeq(after, 0 + 1, 0 + Len(body)) = body
    BY <2>1, <2>2, SubSeqIs
  <2> QED
    BY <2>1, <2>3
<1>14. (L + 1) - 1 = L
  BY <1>1
<1> QED
  BY <1>12, <1>13, <1>14 DEF L

(* A statement is its head, its body and a semicolon.                      *)
LEMMA StatementShape ==
  ASSUME NEW rows \in Seq(Rows), NEW mark \in {Quote, Back}
  PROVE  LET body == Join([n \in DOMAIN rows |-> Tuple(rows[n], mark)], <<Comma>>)
             st == Statement(rows, mark)
         IN  /\ body \in Seq(Char) /\ st \in Seq(Char) /\ Len(st) = Len(body) + 2
             /\ st[1] = Insert /\ st[Len(body) + 2] = Semicolon
             /\ \A i \in 1 .. Len(body) : st[1 + i] = body[i]
<1> DEFINE body == Join([n \in DOMAIN rows |-> Tuple(rows[n], mark)], <<Comma>>)
           A == <<Insert>>
           B == <<Semicolon>>
           X == A \o body
           L == Len(body)
<1>1. body \in Seq(Char)
  BY BodySays
<1>2. Statement(rows, mark) = X \o B
  BY DEF Statement
<1> HIDE DEF body
<1>3. A \in Seq(Char) /\ Len(A) = 1 /\ A[1] = Insert /\ B \in Seq(Char) /\ Len(B) = 1 /\ B[1] = Semicolon /\ L \in Nat
  BY <1>1, SignsAreChars
<1> HIDE DEF A, B, L
<1>4. /\ X \in Seq(Char) /\ Len(X) = L + 1 /\ X[1] = Insert /\ \A i \in 1 .. L : X[1 + i] = body[i]
  <2>1. /\ A \o body \in Seq(Char) /\ Len(A \o body) = Len(A) + Len(body)
        /\ \A i \in 1 .. Len(A) : (A \o body)[i] = A[i]
        /\ \A i \in 1 .. Len(body) : (A \o body)[Len(A) + i] = body[i]
    BY <1>1, <1>3, Concat
  <2>2. 1 \in 1 .. Len(A) /\ Len(A) + Len(body) = L + 1
    BY <1>3 DEF L
  <2> QED
    BY <1>3, <2>1, <2>2 DEF L
<1> HIDE DEF X
<1> DEFINE st == X \o B
<1>5. /\ st \in Seq(Char) /\ Len(st) = L + 2 /\ st[L + 2] = Semicolon
      /\ \A i \in 1 .. L + 1 : st[i] = X[i]
  <2>1. /\ X \o B \in Seq(Char) /\ Len(X \o B) = Len(X) + Len(B)
        /\ \A i \in 1 .. Len(X) : (X \o B)[i] = X[i]
        /\ \A i \in 1 .. Len(B) : (X \o B)[Len(X) + i] = B[i]
    BY <1>3, <1>4, Concat
  <2>2. 1 \in 1 .. Len(B) /\ Len(X) + 1 = L + 2 /\ Len(X) + Len(B) = L + 2
    BY <1>3, <1>4
  <2> QED
    BY <1>3, <1>4, <2>1, <2>2
<1> HIDE DEF st
<1>6. st[1] = Insert /\ \A i \in 1 .. L : st[1 + i] = body[i]
  <2>1. 1 \in 1 .. L + 1 /\ \A i \in 1 .. L : 1 + i \in 1 .. L + 1
    BY <1>3
  <2> QED
    BY <1>4, <1>5, <2>1
<1> QED
  BY <1>1, <1>2, <1>5, <1>6 DEF st, L, body

(* st stands in s after the first k characters. *)
StandsIn(st, s, k) == k + Len(st) <= Len(s) /\ \A i \in 1 .. Len(st) : s[k + i] = st[i]

(* Where a statement stands, its rows are read, and what stands behind it. *)
LEMMA StatementRead ==
  ASSUME NEW rows \in Seq(Rows), NEW mark \in {Quote, Back},
         NEW s \in Seq(Char), NEW k \in Nat, StandsIn(Statement(rows, mark), s, k), NEW g
  PROVE  RowsOf(g, s, k + 1) = rows \o g[k + Len(Statement(rows, mark)) + 1]
<1> DEFINE body == Join([n \in DOMAIN rows |-> Tuple(rows[n], mark)], <<Comma>>)
           L == Len(body)
           st == Statement(rows, mark)
           H == Heads(s, k + 1)
           after == After(s, k + 1)
<1>1. body \in Seq(Char) /\ Neat(body) /\ Outside(body, Semicolon) = {} /\ Tells(body, rows)
  BY BodySays
<1>2. /\ Len(st) = L + 2 /\ st[1] = Insert /\ st[L + 2] = Semicolon
      /\ \A i \in 1 .. L : st[1 + i] = body[i]
  BY StatementShape
<1>s. k + Len(st) <= Len(s) /\ \A i \in 1 .. Len(st) : s[k + i] = st[i]
  BY DEF StandsIn
<1> HIDE DEF body, st
<1>3. L \in Nat /\ Len(s) \in Nat /\ DOMAIN s = 1 .. Len(s) /\ \A i \in 1 .. Len(s) : s[i] \in Char
  BY <1>1
<1> HIDE DEF L
<1>4. k + L + 2 <= Len(s) /\ k + 1 \in 1 .. Len(s) /\ s[k + 1] = Insert
  <2>1. 1 \in 1 .. Len(st)
    BY <1>2, <1>3
  <2>2. s[k + 1] = st[1]
    BY <1>s, <2>1
  <2> QED
    BY <1>2, <1>3, <1>s, <2>2
<1>5. H # {} /\ Min(H) = k + 1
  <2>1. k + 1 \in H /\ \A m \in H : m \in Nat /\ k + 1 <= m
    BY <1>3, <1>4 DEF Heads
  <2>2. H \in SUBSET Nat
    BY <2>1
  <2> HIDE DEF H
  <2> QED
    BY <2>1, <2>2, LeastIs
<1>6. /\ after \in Seq(Char) /\ Len(after) = Len(s) - (k + 1)
      /\ \A i \in 1 .. Len(s) - (k + 1) : after[i] = s[(k + 1) + i]
  <2> DEFINE a == SubSeq(s, (k + 1) + 1, Len(s))
  <2>1. (k + 1) + 1 \in Int /\ Len(s) \in Int /\ \A i \in (k + 1) + 1 .. Len(s) : s[i] \in Char
    BY <1>3
  <2>2. /\ a \in Seq(Char)
        /\ Len(a) = (IF (k + 1) + 1 <= Len(s) THEN Len(s) - ((k + 1) + 1) + 1 ELSE 0)
        /\ \A i \in 1 .. Len(s) - ((k + 1) + 1) + 1 : a[i] = s[((k + 1) + 1) + i - 1]
    BY <2>1, SubSeqProperties
  <2>3. after = a
    BY <1>5 DEF After
  <2> HIDE DEF a, after
  <2>4. (k + 1) + 1 <= Len(s) /\ Len(s) - ((k + 1) + 1) + 1 = Len(s) - (k + 1)
    BY <1>3, <1>4
  <2>5. \A i \in 1 .. Len(s) - (k + 1) : ((k + 1) + 1) + i - 1 = (k + 1) + i
    OBVIOUS
  <2> QED
    BY <2>2, <2>3, <2>4, <2>5
<1> HIDE DEF after
<1>7. Len(body) + 1 <= Len(after) /\ after[Len(body) + 1] = Semicolon /\ \A i \in 1 .. Len(body) : after[i] = body[i]
  <2>1. L + 1 \in 1 .. Len(s) - (k + 1) /\ L + 1 <= Len(after)
    BY <1>3, <1>4, <1>6
  <2>2. ASSUME NEW i \in 1 .. L + 1 PROVE after[i] = st[1 + i]
    <3>1. i \in 1 .. Len(s) - (k + 1) /\ 1 + i \in 1 .. Len(st) /\ (k + 1) + i = k + (1 + i)
      BY <1>2, <1>3, <2>1
    <3>2. after[i] = s[k + (1 + i)]
      BY <1>6, <3>1
    <3> QED
      BY <1>s, <3>1, <3>2
  <2>3. after[L + 1] = Semicolon
    <3>1. L + 1 \in 1 .. L + 1 /\ 1 + (L + 1) = L + 2
      BY <1>3
    <3>2. after[L + 1] = st[1 + (L + 1)]
      BY <2>2, <3>1
    <3> QED
      BY <1>2, <3>1, <3>2
  <2>4. ASSUME NEW i \in 1 .. L PROVE after[i] = body[i]
    <3>1. i \in 1 .. L + 1
      BY <1>3
    <3> QED
      BY <1>2, <2>2, <3>1
  <2> QED
    BY <2>1, <2>3, <2>4 DEF L
<1>8. StatementEnd(after) = L + 1 /\ SubSeq(after, 1, StatementEnd(after) - 1) = body
  <2>1. StatementEnd(after) = Len(body) + 1 /\ SubSeq(after, 1, (Len(body) + 1) - 1) = body
    BY <1>1, <1>6, <1>7, EndSays
  <2> QED
    BY <2>1 DEF L
<1>9. RowsAt(s, k + 1) = rows
  <2>1. RowsAt(s, k + 1) = [n \in DOMAIN Tuples(body) |-> ParseRow(Tuples(body)[n])]
    BY <1>8 DEF RowsAt, after
  <2> QED
    BY <1>1, <2>1 DEF Tells
<1>10. Behind(s, k + 1) = k + Len(st) + 1
  <2>1. Behind(s, k + 1) = (k + 1) + (L + 1) + 1
    BY <1>5, <1>8 DEF Behind, after
  <2>2. Len(st) = L + 2
    BY <1>2
  <2> QED
    BY <1>3, <2>1, <2>2
<1>11. RowsOf(g, s, k + 1) = RowsAt(s, k + 1) \o g[Behind(s, k + 1)]
  BY <1>5 DEF RowsOf
<1> QED
  BY <1>9, <1>10, <1>11 DEF st

-----------------------------------------------------------------------------
(* Dumps                                                                   *)

LEMMA ReadFrom ==
  ASSUME NEW s \in Seq(Char)
  PROVE  \E f : /\ ParseDump(s) = f[1] /\ f[Len(s) + 1] = <<>>
                /\ \A i \in 1 .. Len(s) + 1 : f[i] = RowsOf(f, s, i)
<1> DEFINE f == CHOOSE g : ParsesInto(g, s)
<1>1. ParseDump(s) = f[1] /\ \A i \in 1 .. Len(s) + 2 : f[i] = RowsOf(f, s, i)
  BY ReadSays
<1> HIDE DEF f
<1>2. Len(s) \in Nat /\ \A i \in 1 .. Len(s) + 1 : i \in 1 .. Len(s) + 2
  OBVIOUS
<1>3. f[Len(s) + 1] = <<>>
  <2>1. Heads(s, Len(s) + 1) = {}
    BY <1>2 DEF Heads
  <2>2. Len(s) + 1 \in 1 .. Len(s) + 2
    BY <1>2
  <2> QED
    BY <1>1, <2>1, <2>2 DEF RowsOf
<1> QED
  BY <1>1, <1>2, <1>3

(* All the rows in one statement. *)
LEMMA WholeRead ==
  ASSUME NEW rows \in Seq(Rows), NEW mark \in {Quote, Back}
  PROVE  ParseDump(Statement(rows, mark)) = rows
<1> DEFINE s == Statement(rows, mark)
<1>1. s \in Seq(Char) /\ s = Statement(rows, mark)
  BY StatementShape
<1> HIDE DEF s
<1>2. PICK f : /\ ParseDump(s) = f[1] /\ f[Len(s) + 1] = <<>>
               /\ \A i \in 1 .. Len(s) + 1 : f[i] = RowsOf(f, s, i)
  BY <1>1, ReadFrom
<1>3. Len(s) \in Nat /\ 1 \in 1 .. Len(s) + 1
  BY <1>1
<1>4. RowsOf(f, s, 0 + 1) = rows \o f[0 + Len(s) + 1]
  <2>1. 0 + Len(s) <= Len(s) /\ \A i \in 1 .. Len(s) : s[0 + i] = s[i]
    BY <1>3
  <2>2. StandsIn(Statement(rows, mark), s, 0) /\ 0 \in Nat
    BY <1>1, <2>1 DEF StandsIn
  <2>3. RowsOf(f, s, 0 + 1) = rows \o f[0 + Len(Statement(rows, mark)) + 1]
    BY <1>1, <2>2, StatementRead
  <2> QED
    BY <1>1, <2>3
<1>5. f[1] = rows \o <<>>
  <2>1. 0 + 1 = 1 /\ 0 + Len(s) + 1 = Len(s) + 1
    BY <1>3
  <2> QED
    BY <1>2, <1>3, <1>4, <2>1
<1>6. rows \o <<>> = rows
  BY ConcatEmptySeq
<1> QED
  BY <1>2, <1>5, <1>6 DEF s

(* A statement for each row. *)
LEMMA SplitRead ==
  ASSUME NEW rows \in Seq(Rows), NEW mark \in {Quote, Back}
  PROVE  ParseDump(Join([n \in DOMAIN rows |-> Statement(<<rows[n]>>, mark)], <<>>)) = rows
<1> DEFINE N == Len(rows)
           parts == [n \in DOMAIN rows |-> Statement(<<rows[n]>>, mark)]
           E == <<>>
           s == Join(parts, E)
<1>1. N \in Nat /\ DOMAIN rows = 1 .. N /\ \A n \in 1 .. N : rows[n] \in Rows /\ <<rows[n]>> \in Seq(Rows)
  OBVIOUS
<1>2. \A n \in 1 .. N : parts[n] = Statement(<<rows[n]>>, mark) /\ parts[n] \in Seq(Char)
  <2> SUFFICES ASSUME NEW n \in 1 .. N
               PROVE  parts[n] = Statement(<<rows[n]>>, mark) /\ parts[n] \in Seq(Char)
    OBVIOUS
  <2>1. Statement(<<rows[n]>>, mark) \in Seq(Char)
    BY <1>1, StatementShape
  <2>2. parts[n] = Statement(<<rows[n]>>, mark)
    BY <1>1
  <2> QED
    BY <2>1, <2>2
<1>3. parts \in Seq(Seq(Char)) /\ Len(parts) = N
  <2>1. parts = [n \in 1 .. N |-> parts[n]]
    BY <1>1
  <2>2. \A n \in 1 .. N : parts[n] \in Seq(Char)
    BY <1>2
  <2> HIDE DEF parts, N
  <2> QED
    BY <1>1, <2>1, <2>2
<1>4. E \in Seq(Char) /\ Len(E) = 0
  OBVIOUS
<1> HIDE DEF parts, N, E
<1>5. PICK g : Joined(g, parts, E) /\ s = g[Len(parts)]
  BY <1>3, <1>4, JoinSays
<1>6. g \in [0 .. N -> Seq(Char)] /\ g[0] = <<>> /\ s = g[N]
  BY <1>3, <1>5 DEF Joined
<1> HIDE DEF s
<1>7. s \in Seq(Char) /\ Len(s) \in Nat
  <2>1. s \in Seq(Char)
    BY <1>1, <1>6
  <2> QED
    BY <2>1
<1>8. PICK f : /\ ParseDump(s) = f[1] /\ f[Len(s) + 1] = <<>>
               /\ \A i \in 1 .. Len(s) + 1 : f[i] = RowsOf(f, s, i)
  BY <1>7, ReadFrom
<1>9. ASSUME NEW n \in 0 .. N - 1 PROVE f[Len(g[n]) + 1] = <<rows[n + 1]>> \o f[Len(g[n + 1]) + 1]
  <2> DEFINE m == n + 1
             k == Len(g[n])
             st == parts[m]
             l == Len(st)
             e == Len(g[m])
  <2>1. m \in 1 .. N /\ m \in 1 .. Len(parts) /\ m - 1 = n /\ n \in 0 .. N
    BY <1>1, <1>3
  <2>2. k \in Nat
    <3>1. g[n] \in Seq(Char)
      BY <1>6, <2>1
    <3> QED
      BY <3>1
  <2> HIDE DEF m
  <2>3. Offset(g, m, E) = k
    <3> DEFINE x == IF m = 1 THEN 0 ELSE Len(E)
    <3>1. Offset(g, m, E) = k + x
      BY <2>1 DEF Offset
    <3>2. x = 0
      BY <1>4
    <3> HIDE DEF x, k
    <3> QED
      BY <2>2, <3>1, <3>2
  <2>4. l \in Nat /\ e \in Nat /\ e = k + l
    <3>1. Len(g[m]) \in Nat /\ Len(parts[m]) \in Nat /\ Len(g[m]) = Offset(g, m, E) + Len(parts[m])
      <4>1. parts \in Seq(Seq(Char)) /\ E \in Seq(Char) /\ Joined(g, parts, E) /\ m \in 1 .. Len(parts)
        BY <1>3, <1>4, <1>5, <2>1
      <4> HIDE DEF k, l, e, st
      <4> QED
        BY <4>1, JoinedStep
    <3> QED
      BY <2>3, <3>1
  <2>5. e <= Len(s) /\ \A i \in 1 .. l : s[k + i] = st[i]
    <3>1. LET t == g[Len(parts)]
          IN  Len(g[m]) <= Len(t) /\ \A i \in 1 .. Len(parts[m]) : t[Offset(g, m, E) + i] = parts[m][i]
      <4>1. parts \in Seq(Seq(Char)) /\ E \in Seq(Char) /\ Joined(g, parts, E) /\ m \in 1 .. Len(parts)
        BY <1>3, <1>4, <1>5, <2>1
      <4> HIDE DEF k, l, e, st
      <4> QED
        BY <4>1, JoinPlace
    <3> QED
      BY <1>3, <1>6, <2>3, <3>1
  <2>6. st = Statement(<<rows[m]>>, mark) /\ <<rows[m]>> \in Seq(Rows)
    BY <1>1, <1>2, <2>1
  <2> HIDE DEF k, e, st
  <2>7. RowsOf(f, s, k + 1) = <<rows[m]>> \o f[k + Len(st) + 1]
    <3>1. k + Len(st) <= Len(s) /\ k \in Nat /\ \A i \in 1 .. Len(st) : s[k + i] = st[i]
      BY <1>7, <2>2, <2>4, <2>5
    <3>2. s \in Seq(Char)
      BY <1>7
    <3> DEFINE R == <<rows[m]>>
    <3>3. R \in Seq(Rows) /\ st = Statement(R, mark)
      BY <2>6
    <3> HIDE DEF l, R
    <3>4. StandsIn(Statement(R, mark), s, k)
      BY <3>1, <3>3 DEF StandsIn
    <3>5. RowsOf(f, s, k + 1) = R \o f[k + Len(Statement(R, mark)) + 1]
      <4>1. k \in Nat /\ R \in Seq(Rows)
        BY <3>1, <3>3
      <4> QED
        BY <3>2, <3>4, <4>1, StatementRead, ZenonT(30)
    <3> QED
      BY <3>3, <3>5 DEF R
  <2> HIDE DEF l
  <2>8. k + 1 \in 1 .. Len(s) + 1 /\ k + l + 1 = e + 1
    BY <1>7, <2>2, <2>4, <2>5
  <2>9. f[k + 1] = <<rows[m]>> \o f[e + 1]
    BY <1>8, <2>7, <2>8 DEF l
  <2> QED
    BY <2>9 DEF k, e, m
<1> DEFINE Read(n) == f[Len(g[n]) + 1] = SubSeq(rows, n + 1, N)
           T == {k \in Nat : k <= N => Read(N - k)}
<1>10. 0 \in T
  <2>1. SubSeq(rows, N + 1, N) = <<>>
    BY <1>1, SubSeqEmpty
  <2>2. Read(N)
    BY <1>6, <1>8, <2>1
  <2>3. N - 0 = N
    BY <1>1
  <2> HIDE DEF Read
  <2> QED
    BY <2>2, <2>3
<1>11. ASSUME NEW k \in Nat, k \in T PROVE k + 1 \in T
  <2> SUFFICES ASSUME k + 1 <= N PROVE Read(N - (k + 1))
    OBVIOUS
  <2> DEFINE n == N - (k + 1)
             m == n + 1
  <2>1. n \in 0 .. N - 1 /\ N - k = m /\ m \in 1 .. N /\ N \in m .. N /\ k <= N
    BY <1>1
  <2>2. Read(m)
    <3> HIDE DEF Read, n
    <3> QED
      BY <1>11, <2>1
  <2> HIDE DEF n
  <2>3. f[Len(g[n]) + 1] = <<rows[m]>> \o f[Len(g[m]) + 1]
    BY <1>9, <2>1
  <2> HIDE DEF m
  <2>4. SubSeq(rows, m, N) = <<rows[m]>> \o SubSeq(rows, m + 1, N)
    BY <1>1, <2>1, SubSeqRecursiveFirst DEF N
  <2>5. f[Len(g[n]) + 1] = SubSeq(rows, m, N)
    BY <2>2, <2>3, <2>4
  <2>6. Read(n)
    BY <2>5 DEF m
  <2> QED
    BY <2>6 DEF n
<1> HIDE DEF T
<1>12. Nat \subseteq T
  BY <1>10, <1>11, Counting
<1>13. Read(0)
  <2>1. N - N = 0 /\ N \in T /\ N <= N
    BY <1>1, <1>12
  <2>2. Read(N - N)
    <3> HIDE DEF Read
    <3> QED
      BY <2>1 DEF T
  <2> HIDE DEF Read
  <2> QED
    BY <2>1, <2>2
<1>14. f[1] = SubSeq(rows, 1, N)
  <2>1. Len(g[0]) + 1 = 1 /\ 0 + 1 = 1
    BY <1>6
  <2> QED
    BY <1>13, <2>1
<1>15. SubSeq(rows, 1, N) = rows
  BY SubSeqFull DEF N
<1> QED
  BY <1>8, <1>14, <1>15 DEF s, parts, E

(* What is read from a dump is what was written to it.                     *)
LEMMA DumpRead ==
  ASSUME NEW d \in Written(Char)
  PROVE  ParseDump(Dump(d)) = d.rows
<1>1. d.rows \in Seq(Rows) /\ d.split \in BOOLEAN /\ d.mark \in {Quote, Back}
  BY DEF Written, Rows
<1>2. CASE d.split
  <2>1. Dump(d) = Join([n \in DOMAIN d.rows |-> Statement(<<d.rows[n]>>, d.mark)], <<>>)
    BY <1>2 DEF Dump
  <2> QED
    BY <1>1, <2>1, SplitRead
<1>3. CASE ~d.split
  <2>1. Dump(d) = Statement(d.rows, d.mark)
    BY <1>3 DEF Dump
  <2> QED
    BY <1>1, <2>1, WholeRead
<1> QED
  BY <1>1, <1>2, <1>3

-----------------------------------------------------------------------------
(* LegacyMigration: the inductive invariant                                *)

Importers == {"migrate", "import"}

(* A row of a legacy row hangs from rows of the right kinds, and has its   *)
(* name unless the application has changed it.                             *)
RowsHang ==
  \A i \in DOMAIN row : row[i].src # 0 =>
    /\ row[i].onDelete = OnDelete(row[i].src)
    /\ \A u \in row[i].up : u \in DOMAIN row /\ Kind(u) \in Kinds(row[i].src)
    /\ ~row[i].renamed => row[i].name = Source[row[i].src].name

(* Records are finitely many, and their rows are in the table. *)
RecordsPoint == IsFiniteSet(record) /\ \A r \in record : r.id \in DOMAIN row

(* What an import has resolved so far. *)
Resolves ==
  /\ job.op # "none" => job.run \in Run
  /\ \A u \in Legacy : job.ids[u] # 0 =>
       job.ids[u] \in DOMAIN row /\ Kind(job.ids[u]) = Source[u].entity

(* A row just inserted is there, of this run, without a record, and the    *)
(* last that any run has made.                                             *)
Inserted ==
  job.pc = "record" =>
    LET i == job.ids[job.pos]
    IN  /\ job.op \in Importers /\ job.pos \in Legacy
        /\ There(i) /\ row[i].src = job.pos /\ row[i].by = job.run
        /\ \A t \in record : t.id # i
        /\ \A j \in DOMAIN row : j > i => row[j].by = None

(* A rollback has the records of its run, of the entities it knows, before *)
(* it or among its failures.                                               *)
RollsBack ==
  /\ job.pc = "unrecord" => job.op = "rollback"
  /\ job.todo \subseteq record
  /\ \A r \in job.todo : r.run = job.run /\ Listed(r)
  /\ job.op = "rollback" =>
       \A r \in record : r.run = job.run /\ Listed(r) => r \in job.todo \cup job.failures

(* Recorded rows of those entities are there, but for an unfinished        *)
(* deletion.                                                               *)
RecordsStand ==
  \A r \in record : Listed(r) => There(r.id) \/ r \in cut \cup Current

IInv ==
  /\ TypeOK /\ RowsHang /\ RecordsPoint /\ RecordsOwn /\ Resolves /\ Inserted
  /\ ImportedOnce /\ RollsBack /\ RecordsStand

USE RunAssumption, SourceAssumption DEF RunAssumption, SourceAssumption

-----------------------------------------------------------------------------
(* Types                                                                   *)

JobState ==
  [n : 0 .. MaxScript, op : {"none", "migrate", "import", "rollback"}, run : Run \cup {None},
   pc : {"row", "record", "unrecord"}, pos : 1 .. Len(Source) + 1,
   ids : [Legacy -> Nat], made : SUBSET Legacy, todo : SUBSET Record, failures : SUBSET Record]

LEMMA Types ==
  TypeOK <=> /\ dump \in Dumps \cup {<<>>} /\ row \in Seq(TargetRow)
             /\ record \in SUBSET Record /\ cut \in SUBSET Record /\ job \in JobState
             /\ app \in 0 .. MaxApp
BY DEF TypeOK, JobState

LEMMA SourceRows ==
  /\ Len(Source) \in Nat /\ Legacy = 1 .. Len(Source) /\ 0 \notin Legacy
  /\ \A s \in Legacy : /\ Source[s] \in LegacyRow
                       /\ Source[s].up \subseteq Legacy /\ Source[s].entity \in Entity
                       /\ Source[s].name \in Nat
<1>1. /\ Len(Source) \in Nat /\ Legacy = 1 .. Len(Source) /\ 0 \notin Legacy
      /\ \A s \in Legacy : Source[s] \in LegacyRow
  BY DEF Legacy
<1>2. \A s \in Legacy : 1 .. s - 1 \subseteq Legacy
  BY <1>1
<1> QED
  BY <1>1, <1>2 DEF LegacyRow

LEMMA RowTypes ==
  ASSUME TypeOK
  PROVE  /\ Len(row) \in Nat /\ DOMAIN row = 1 .. Len(row)
         /\ \A i \in DOMAIN row : row[i] \in TargetRow
         /\ \A r \in record : r \in Record /\ r.src \in Legacy /\ r.run \in Run
BY Types DEF Record

LEMMA IdleTyped ==
  ASSUME NEW n \in 0 .. MaxScript
  PROVE  /\ [Idle EXCEPT !.n = n] \in JobState
         /\ [Idle EXCEPT !.n = n].op = "none" /\ [Idle EXCEPT !.n = n].pc = "row"
         /\ [Idle EXCEPT !.n = n].ids = [s \in Legacy |-> 0]
         /\ [Idle EXCEPT !.n = n].todo = {} /\ [Idle EXCEPT !.n = n].failures = {}
<1>1. 1 \in 1 .. Len(Source) + 1
  BY SourceRows
<1> QED
  BY <1>1 DEF Idle, JobState

LEMMA StartTyped ==
  ASSUME TypeOK, NEW op \in {"migrate", "import", "rollback"}, NEW k \in Run,
         NEW todo \in SUBSET Record, Begin(op, k, todo)
  PROVE  /\ job' \in JobState /\ job.op = "none"
         /\ job'.op = op /\ job'.run = k /\ job'.pc = "row"
         /\ job'.ids = [s \in Legacy |-> 0] /\ job'.todo = todo /\ job'.failures = {}
<1>1. job.n + 1 \in 0 .. MaxScript /\ 1 \in 1 .. Len(Source) + 1
  BY Types, SourceRows DEF Begin, JobState
<1> QED
  BY <1>1 DEF Idle, JobState, Begin

-----------------------------------------------------------------------------
(* The shapes of a step                                                    *)

(* The script ends, or dies. *)
Stops ==
  /\ job' \in JobState /\ job'.op = "none" /\ job'.pc = "row"
  /\ job'.ids = [s \in Legacy |-> 0] /\ job'.todo = {} /\ job'.failures = {}
  /\ row' = row /\ record' = record /\ cut' = cut \cup Current

Starts ==
  /\ job' \in JobState /\ job'.op # "none" /\ job'.run \in Run /\ job'.pc = "row" /\ job.op = "none"
  /\ job'.ids = [s \in Legacy |-> 0] /\ job'.failures = {}
  /\ job'.todo = IF job'.op = "rollback" THEN {r \in record : r.run = job'.run /\ Listed(r)} ELSE {}
  /\ row' = row /\ record' = record /\ cut' = cut

(* The next legacy row, with the row it is resolved to, if any. *)
SameJob == job'.op = job.op /\ job'.run = job.run /\ job'.todo = job.todo /\ job'.failures = job.failures

Resolving ==
  /\ job' \in JobState /\ SameJob /\ job'.pc = "row" /\ job.pc = "row"
  /\ \/ job'.ids = job.ids
     \/ \E s \in Legacy, i \in DOMAIN row :
          job'.ids = [job.ids EXCEPT ![s] = i] /\ Kind(i) = Source[s].entity
  /\ row' = row /\ record' = record /\ cut' = cut

Inserting(s) ==
  /\ Turn(s) /\ ~Skipped(s) /\ Prior(s) = {} /\ Existing(s, Above(s), job.op) = {}
  /\ \A p \in Above(s) : There(p)
  /\ row' = Append(row, NewRow(s, Above(s), job.op, job.run))
  /\ job' \in JobState /\ SameJob /\ job'.pc = "record" /\ job'.pos = s
  /\ job'.ids = [job.ids EXCEPT ![s] = Len(row) + 1]
  /\ record' = record /\ cut' = cut

Recording ==
  /\ job.pc = "record"
  /\ record' = record \cup {[run |-> job.run, src |-> job.pos, id |-> job.ids[job.pos]]}
  /\ job' \in JobState /\ SameJob /\ job'.pc = "row" /\ job'.ids = job.ids
  /\ row' = row /\ cut' = cut

(* A row is deleted: its record is next, or the answer is lost. *)
Removing(r) ==
  /\ r \in Next1 /\ job.op = "rollback" /\ job.pc = "row" /\ Removable(r.id)
  /\ row' = Without(r.id) /\ record' = record

Deleting(r) ==
  /\ Removing(r)
  /\ job' \in JobState /\ SameJob /\ job'.pc = "unrecord" /\ job'.pos = r.src /\ job'.ids = job.ids
  /\ cut' = cut

Going(q) ==
  /\ job' \in JobState /\ job'.op = job.op /\ job'.run = job.run /\ job'.pc = "row"
  /\ job'.ids = job.ids /\ job'.todo = job.todo \ q

Losing(r) ==
  /\ Removing(r)
  /\ Going({r}) /\ job'.failures = job.failures \cup {r}
  /\ cut' = cut \cup {r}

Failing(r) ==
  /\ r \in Next1 /\ job.op = "rollback" /\ job.pc = "row"
  /\ Going({r}) /\ job'.failures = job.failures \cup {r}
  /\ row' = row /\ record' = record /\ cut' = cut

(* The record is deleted, or it stays and is reported. *)
Unrecording ==
  /\ job.pc = "unrecord"
  /\ Going(Current) /\ job'.failures \in {job.failures, job.failures \cup Current}
  /\ \/ record' = record \ Current /\ cut' = cut
     \/ record' = record /\ cut' = cut \cup Current /\ job'.failures = job.failures \cup Current
  /\ row' = row

(* The application adds a row, below rows that are there. *)
Adding ==
  /\ \E x \in TargetRow :
       /\ row' = Append(row, x) /\ x.by = None
       /\ x.src # 0 => /\ x.onDelete = OnDelete(x.src) /\ x.name = Source[x.src].name
                       /\ \A u \in x.up : u \in DOMAIN row /\ Kind(u) \in Kinds(x.src)
  /\ job' = job /\ record' = record /\ cut' = cut

(* It gives a row another key. *)
Renaming ==
  /\ \E i \in DOMAIN row, n \in Nat, form \in {"none", "migrate", "import"}, p \in SUBSET Nat :
       /\ row' = [row EXCEPT ![i].name = n, ![i].slug = form, ![i].up = p, ![i].renamed = TRUE]
       /\ row[i].src # 0
       /\ \A u \in p : u \in DOMAIN row /\ Kind(u) \in Kinds(row[i].src)
  /\ job' = job /\ record' = record /\ cut' = cut

Idling == job' = job /\ row' = row /\ record' = record /\ cut' = cut

Step ==
  \/ Stops \/ Starts \/ Resolving \/ Recording \/ Unrecording \/ Adding \/ Renaming \/ Idling
  \/ \E s \in Legacy : Inserting(s)
  \/ \E r \in Next1 : Deleting(r) \/ Losing(r) \/ Failing(r)

LEMMA AbortStops ==
  ASSUME TypeOK, Abort, Current = {}, row' = row, record' = record, cut' = cut
  PROVE  Stops
<1>1. job.n \in 0 .. MaxScript
  BY Types DEF JobState
<1> QED
  BY <1>1, IdleTyped DEF Abort, Stops

LEMMA ResolvedShape ==
  ASSUME TypeOK, NEW s \in Legacy, Turn(s), NEW i \in Nat, Resolved(s, i)
  PROVE  /\ job' \in JobState /\ SameJob /\ job'.pc = "row" /\ job.pc = "row"
         /\ job'.ids = [job.ids EXCEPT ![s] = i]
<1> DEFINE ids == [job.ids EXCEPT ![s] = i]
<1>1. job' = [job EXCEPT !.ids = ids, !.pos = s + 1]
  BY DEF Resolved
<1>2. job \in JobState /\ ids \in [Legacy -> Nat] /\ s + 1 \in 1 .. Len(Source) + 1
  BY Types, SourceRows DEF JobState
<1> HIDE DEF ids
<1>3. job' \in JobState /\ job'.ids = ids /\ job'.pc = job.pc /\ SameJob
  BY <1>1, <1>2 DEF JobState, SameJob
<1> QED
  BY <1>3 DEF ids, Turn

LEMMA ImportShapes ==
  ASSUME TypeOK, RecordsPoint, RecordsOwn, Inserted, NEW s \in Legacy,
         Skip(s) \/ TakeOver(s) \/ Duplicate(s) \/ Create(s)
  PROVE  Step
<1>a. /\ job \in JobState /\ s + 1 \in 1 .. Len(Source) + 1 /\ Len(row) \in Nat
      /\ DOMAIN row = 1 .. Len(row)
  BY Types, SourceRows, RowTypes
<1>b. Turn(s) /\ Current = {}
  BY DEF Skip, TakeOver, Duplicate, Create, Turn, Current
<1>1. CASE Skip(s)
  <2>1. job' \in JobState /\ SameJob /\ job'.pc = job.pc /\ job'.ids = job.ids
    BY <1>a, <1>1 DEF Skip, JobState, SameJob
  <2> QED
    BY <1>b, <1>1, <2>1 DEF Skip, Resolving, Turn, Step
<1>2. ASSUME NEW i \in DOMAIN row, Kind(i) = Source[s].entity, Resolved(s, i),
             row' = row, record' = record, cut' = cut
      PROVE  Resolving
  <2>1. /\ job' \in JobState /\ SameJob /\ job'.pc = "row" /\ job.pc = "row"
        /\ job'.ids = [job.ids EXCEPT ![s] = i]
    BY <1>a, <1>b, <1>2, ResolvedShape
  <2> QED
    BY <1>2, <2>1 DEF Resolving
<1>3. CASE TakeOver(s)
  <2>1. PICK p \in Prior(s) : IF Source[s].entity = "User" /\ ~There(p.id) THEN Abort ELSE Resolved(s, p.id)
    BY <1>3 DEF TakeOver
  <2>2. p \in record /\ p.src = s
    BY <2>1 DEF Prior
  <2>3. p.id \in DOMAIN row /\ Kind(p.id) = Source[s].entity
    BY <2>2, SourceRows DEF RecordsPoint, RecordsOwn, Kind
  <2>4. row' = row /\ record' = record /\ cut' = cut
    BY <1>3 DEF TakeOver
  <2>5. CASE Abort
    BY <1>b, <2>4, <2>5, AbortStops DEF Step
  <2>6. CASE Resolved(s, p.id)
    BY <1>2, <2>3, <2>4, <2>6 DEF Step
  <2> QED
    BY <2>1, <2>5, <2>6
<1>4. CASE Duplicate(s)
  <2>1. PICK i \in Existing(s, Above(s), job.op) : Resolved(s, i)
    BY <1>4 DEF Duplicate
  <2>2. i \in DOMAIN row /\ Kind(i) = Source[s].entity
    BY <2>1 DEF Existing
  <2> QED
    BY <1>2, <1>4, <2>1, <2>2 DEF Duplicate, Step
<1>5. CASE Create(s)
  <2>1. CASE \A p \in Above(s) : There(p)
    <3>1. /\ row' = Append(row, NewRow(s, Above(s), job.op, job.run))
          /\ job' = [job EXCEPT !.pc = "record", !.ids[s] = Len(row')]
          /\ record' = record /\ cut' = cut
          /\ ~Skipped(s) /\ Prior(s) = {} /\ Existing(s, Above(s), job.op) = {}
      BY <1>5, <2>1 DEF Create
    <3> DEFINE n == Len(row) + 1
               ids == [job.ids EXCEPT ![s] = n]
    <3>2. row \in Seq(TargetRow)
      BY Types
    <3>3. Len(row') = n
      BY <3>1, <3>2
    <3>4. job' = [job EXCEPT !.pc = "record", !.ids = ids]
      BY <3>1, <3>3
    <3>5. ids \in [Legacy -> Nat]
      BY <1>a DEF JobState
    <3> HIDE DEF ids
    <3>6. job' \in JobState /\ SameJob /\ job'.pc = "record" /\ job'.pos = job.pos /\ job'.ids = ids
      BY <1>a, <3>4, <3>5 DEF JobState, SameJob
    <3>7. Inserting(s)
      BY <1>b, <2>1, <3>1, <3>6 DEF Inserting, ids, Turn
    <3> QED
      BY <3>7 DEF Step
  <2>2. CASE ~\A p \in Above(s) : There(p)
    <3>1. Abort /\ row' = row /\ record' = record /\ cut' = cut
      BY <1>5, <2>2 DEF Create
    <3> QED
      BY <1>b, <3>1, AbortStops DEF Step
  <2> QED
    BY <2>1, <2>2
<1> QED
  BY <1>1, <1>3, <1>4, <1>5

LEMMA RecordShape ==
  ASSUME TypeOK, Inserted, WriteRecord
  PROVE  Step
<1>a. job \in JobState /\ job.pos \in Legacy /\ job.pos + 1 \in 1 .. Len(Source) + 1
  BY Types, SourceRows DEF WriteRecord, Inserted
<1>1. CASE Taken(job.pos)
  <2>1. Abort /\ row' = row /\ record' = record /\ cut' = cut /\ Current = {}
    BY <1>1 DEF WriteRecord, Current
  <2> QED
    BY <2>1, AbortStops DEF Step
<1>2. CASE ~Taken(job.pos)
  <2>1. job' = [job EXCEPT !.made = @ \cup {job.pos}, !.pc = "row", !.pos = job.pos + 1]
    BY <1>2 DEF WriteRecord
  <2>2. job' \in JobState /\ SameJob /\ job'.pc = "row" /\ job'.ids = job.ids
    BY <1>a, <2>1 DEF JobState, SameJob
  <2> QED
    BY <1>2, <2>2 DEF WriteRecord, Recording, Step
<1> QED
  BY <1>1, <1>2

LEMMA ReportedGoing ==
  ASSUME TypeOK, NEW q \in SUBSET Record, Reported(q)
  PROVE  Going(q) /\ job'.failures = job.failures \cup q
<1>1. job' = [job EXCEPT !.pc = "row", !.pos = 1, !.todo = @ \ q, !.failures = @ \cup q]
  BY DEF Reported
<1>2. job \in JobState /\ 1 \in 1 .. Len(Source) + 1
  BY Types, SourceRows
<1> QED
  BY <1>1, <1>2 DEF Going, JobState

LEMMA RollbackShapes ==
  ASSUME TypeOK, RollsBack,
         \/ \E r \in Next1 : Delete(r) \/ Refused(r) \/ DeleteFails(r)
         \/ Unrecord \/ UnrecordFails
  PROVE  Step
<1>a. job \in JobState /\ Current \subseteq Record /\ Next1 \subseteq Record
  BY Types DEF JobState, Current, Next1
<1>1. ASSUME NEW r \in Next1, Delete(r) PROVE Step
  <2>1. r.src \in 1 .. Len(Source) + 1
    BY <1>a, SourceRows DEF Record
  <2>2. job' = [job EXCEPT !.pc = "unrecord", !.pos = r.src]
    BY <1>1 DEF Delete
  <2>3. job' \in JobState /\ SameJob /\ job'.pc = "unrecord" /\ job'.pos = r.src /\ job'.ids = job.ids
    BY <1>a, <2>1, <2>2 DEF JobState, SameJob
  <2> QED
    BY <1>1, <2>3 DEF Delete, Turning, Removing, Deleting, Step
<1>2. ASSUME NEW r \in Next1, Refused(r) \/ DeleteFails(r) PROVE Step
  <2>1. {r} \in SUBSET Record /\ Reported({r}) /\ Turning
    BY <1>a, <1>2 DEF Refused, DeleteFails
  <2>2. Going({r}) /\ job'.failures = job.failures \cup {r}
    BY <2>1, ReportedGoing
  <2>3. \/ row' = row /\ record' = record /\ cut' = cut
        \/ Removable(r.id) /\ row' = Without(r.id) /\ record' = record /\ cut' = cut \cup {r}
    BY <1>2 DEF Refused, DeleteFails
  <2> QED
    BY <2>1, <2>2, <2>3 DEF Turning, Failing, Removing, Losing, Step
<1>3. CASE Unrecord
  <2>1. job' = [job EXCEPT !.pc = "row", !.pos = 1, !.todo = @ \ Current] /\ 1 \in 1 .. Len(Source) + 1
    BY <1>3, SourceRows DEF Unrecord
  <2>2. Going(Current) /\ job'.failures = job.failures
    BY <1>a, <2>1 DEF JobState, Going
  <2> QED
    BY <1>3, <2>2 DEF Unrecord, Unrecording, Step
<1>4. CASE UnrecordFails
  <2>1. Going(Current) /\ job'.failures = job.failures \cup Current
    BY <1>a, <1>4, ReportedGoing DEF UnrecordFails
  <2> QED
    BY <1>4, <2>1 DEF UnrecordFails, Unrecording, Step
<1> QED
  BY <1>1, <1>2, <1>3, <1>4

LEMMA AppShapes ==
  ASSUME TypeOK, RowsHang,
         \/ \E s \in Legacy, form \in Importers : AppCreate(s, form)
         \/ \E i \in DOMAIN row, onDelete \in {"Restrict", "Cascade"} : AppUse(i, onDelete)
         \/ \E i \in DOMAIN row, form \in {"none", "migrate", "import"} :
              \E n \in Names(Kind(i)), p \in {row[i].up} \cup {{k} : k \in DOMAIN row} :
                AppRename(i, n, form, p)
  PROVE  Adding \/ Renaming
<1>a. DOMAIN row \subseteq Nat /\ \A i \in DOMAIN row : row[i] \in TargetRow
  BY RowTypes
<1>1. ASSUME NEW s \in Legacy, NEW form \in Importers, AppCreate(s, form) PROVE Adding
  <2>1. PICK p \in {{}} \cup {{i} : i \in DOMAIN row} :
          {Kind(i) : i \in p} = Kinds(s) /\ row' = Append(row, NewRow(s, p, form, None))
    BY <1>1 DEF AppCreate
  <2>2. \A u \in p : u \in DOMAIN row /\ Kind(u) \in Kinds(s)
    BY <2>1
  <2> DEFINE x == NewRow(s, p, form, None)
  <2>3. /\ x \in TargetRow /\ x.by = None /\ x.src = s /\ x.up = p /\ x.onDelete = OnDelete(s)
        /\ x.name = Source[s].name
    BY <1>a, <2>2, SourceRows DEF NewRow, TargetRow, OnDelete, Importers
  <2> HIDE DEF x
  <2>4. row' = Append(row, x) /\ job' = job /\ record' = record /\ cut' = cut
    BY <1>1, <2>1 DEF AppCreate, x
  <2> QED
    BY <2>2, <2>3, <2>4 DEF Adding
<1>2. ASSUME NEW i \in DOMAIN row, NEW onDelete \in {"Restrict", "Cascade"}, AppUse(i, onDelete)
      PROVE  Adding
  <2> DEFINE x == [src |-> 0, name |-> 0, up |-> {i}, slug |-> "none", by |-> None, with |-> "none",
                   renamed |-> FALSE, onDelete |-> onDelete, there |-> TRUE]
  <2>1. x \in TargetRow /\ x.by = None /\ x.src = 0
    BY <1>a DEF TargetRow
  <2>2. row' = Append(row, x) /\ job' = job /\ record' = record /\ cut' = cut
    BY <1>2 DEF AppUse
  <2> HIDE DEF x
  <2> QED
    BY <2>1, <2>2 DEF Adding
<1>3. ASSUME NEW i \in DOMAIN row, NEW form \in {"none", "migrate", "import"}, NEW n \in Names(Kind(i)),
             NEW p \in {row[i].up} \cup {{k} : k \in DOMAIN row}, AppRename(i, n, form, p)
      PROVE  Renaming
  <2>1. row' = [row EXCEPT ![i].name = n, ![i].slug = form, ![i].up = p, ![i].renamed = TRUE]
    BY <1>3 DEF AppRename
  <2>2. n \in Nat
    BY SourceRows DEF Names
  <2>3. p \subseteq Nat
    BY <1>a DEF TargetRow
  <2>4. row[i].src # 0
    BY <1>3 DEF AppRename, Kind, Checked
  <2>5. \A u \in p : u \in DOMAIN row /\ Kind(u) \in Kinds(row[i].src)
    <3>1. CASE p = row[i].up
      BY <2>4, <3>1 DEF RowsHang
    <3>2. CASE p # row[i].up
      BY <1>3, <3>2 DEF AppRename, There
    <3> QED
      BY <3>1, <3>2
  <2>6. job' = job /\ record' = record /\ cut' = cut
    BY <1>3 DEF AppRename
  <2> QED
    BY <2>1, <2>2, <2>3, <2>4, <2>5, <2>6 DEF Renaming
<1> QED
  BY <1>1, <1>2, <1>3

LEMMA Shapes ==
  ASSUME TypeOK, RowsHang, RecordsPoint, RecordsOwn, Inserted, RollsBack, [Next]_vars
  PROVE  Step
<1>1. CASE ReadDump \/ UNCHANGED vars
  BY <1>1 DEF ReadDump, vars, Idling, Step
<1>2. ASSUME NEW k \in Run, Rollback(k) PROVE Step
  <2>1. {r \in record : r.run = k /\ Listed(r)} \in SUBSET Record
    BY Types
  <2>2. Begin("rollback", k, {r \in record : r.run = k /\ Listed(r)})
    BY <1>2 DEF Rollback
  <2>3. /\ job' \in JobState /\ job.op = "none" /\ job'.op = "rollback" /\ job'.run = k /\ job'.pc = "row"
        /\ job'.ids = [s \in Legacy |-> 0] /\ job'.failures = {}
        /\ job'.todo = {r \in record : r.run = k /\ Listed(r)}
    BY <2>1, <2>2, StartTyped
  <2> QED
    BY <1>2, <2>3 DEF Rollback, Starts, Step
<1>3. ASSUME NEW k \in Run, NEW op \in Importers, StartImport(k, op) PROVE Step
  <2>1. Begin(op, k, {}) /\ op \in {"migrate", "import", "rollback"} /\ op \notin {"rollback", "none"}
    BY <1>3 DEF StartImport, Importers
  <2>2. /\ job' \in JobState /\ job.op = "none" /\ job'.op = op /\ job'.run = k /\ job'.pc = "row"
        /\ job'.ids = [s \in Legacy |-> 0] /\ job'.failures = {} /\ job'.todo = {}
    BY <2>1, StartTyped
  <2> QED
    BY <1>3, <2>1, <2>2 DEF StartImport, Starts, Step
<1>4. ASSUME NEW s \in Legacy, Skip(s) \/ TakeOver(s) \/ Duplicate(s) \/ Create(s) PROVE Step
  BY <1>4, ImportShapes
<1>5. CASE WriteRecord
  BY <1>5, RecordShape
<1>6. CASE ImportEnd \/ RollbackEnd
  <2>1. Abort /\ row' = row /\ record' = record /\ cut' = cut /\ Current = {}
    BY <1>6 DEF ImportEnd, RollbackEnd, Current, RollsBack
  <2> QED
    BY <2>1, AbortStops DEF Step
<1>7. CASE \/ \E r \in Next1 : Delete(r) \/ Refused(r) \/ DeleteFails(r)
           \/ Unrecord \/ UnrecordFails
  BY <1>7, RollbackShapes
<1>8. CASE \/ \E s \in Legacy, form \in Importers : AppCreate(s, form)
           \/ \E i \in DOMAIN row, onDelete \in {"Restrict", "Cascade"} : AppUse(i, onDelete)
           \/ \E i \in DOMAIN row, form \in {"none", "migrate", "import"} :
                \E n \in Names(Kind(i)), p \in {row[i].up} \cup {{k} : k \in DOMAIN row} :
                  AppRename(i, n, form, p)
  BY <1>8, AppShapes DEF Step
<1>9. CASE Crash
  <2>1. job.n \in 0 .. MaxScript
    BY Types DEF JobState
  <2> QED
    BY <1>9, <2>1, IdleTyped DEF Crash, Abort, Stops, Step
<1> QED
  BY <1>1, <1>2, <1>3, <1>4, <1>5, <1>6, <1>7, <1>8, <1>9 DEF Next, Application, Importers

-----------------------------------------------------------------------------
(* Rows                                                                    *)

(* Where a row comes from never changes, its key only when it is renamed. *)
Alike(x, y) ==
  /\ y.src = x.src /\ y.by = x.by /\ y.with = x.with /\ y.onDelete = x.onDelete
  /\ x.renamed => y.renamed
  /\ ~y.renamed => y.name = x.name /\ y.up = x.up /\ y.slug = x.slug

LEMMA InsertedRow ==
  ASSUME TypeOK, Resolves, NEW s \in Legacy, Inserting(s)
  PROVE  /\ row' \in Seq(TargetRow) /\ DOMAIN row' = DOMAIN row \cup {Len(row) + 1}
         /\ \A i \in DOMAIN row : row'[i] = row[i]
         /\ LET x == row'[Len(row) + 1]
            IN  /\ x \in TargetRow /\ x.src = s /\ x.up = Above(s) /\ x.by = job.run /\ x.there
                /\ x.onDelete = OnDelete(s) /\ x.slug \in {"none", job.op}
                /\ x.name = Source[s].name /\ x.with = job.op
<1> DEFINE x == NewRow(s, Above(s), job.op, job.run)
<1>1. Above(s) \subseteq Nat
  BY Types, SourceRows, RowTypes DEF Above, Parent, Existing, JobState
<1>2. job.op \in {"migrate", "import"} /\ job.run \in Run
  BY Types DEF Inserting, Turn, Resolves
<1>3. /\ x \in TargetRow /\ x.src = s /\ x.up = Above(s) /\ x.by = job.run /\ x.there
      /\ x.onDelete = OnDelete(s) /\ x.slug \in {"none", job.op}
      /\ x.name = Source[s].name /\ x.with = job.op
  BY <1>1, <1>2, SourceRows DEF NewRow, TargetRow, OnDelete
<1> HIDE DEF x
<1>4. row' = Append(row, x) /\ row \in Seq(TargetRow)
  BY Types DEF Inserting, x
<1>5. /\ row' \in Seq(TargetRow) /\ DOMAIN row' = DOMAIN row \cup {Len(row) + 1}
      /\ \A i \in DOMAIN row : row'[i] = row[i]
      /\ row'[Len(row) + 1] = x
  BY <1>3, <1>4
<1> QED
  BY <1>3, <1>5

LEMMA DeletedRows ==
  ASSUME TypeOK, NEW r \in Next1, Removing(r)
  PROVE  /\ row' \in Seq(TargetRow) /\ DOMAIN row' = DOMAIN row
         /\ \A i \in DOMAIN row : /\ Alike(row[i], row'[i])
                                  /\ row'[i].there <=> row[i].there /\ i # r.id /\ i \notin Below(r.id, "Cascade")
<1>a. /\ Len(row) \in Nat /\ DOMAIN row = 1 .. Len(row) /\ \A i \in DOMAIN row : row[i] \in TargetRow
  BY RowTypes
<1> DEFINE gone == {r.id} \cup Below(r.id, "Cascade")
           cut1(i) == [row[i] EXCEPT !.there = FALSE]
<1>1. \A i \in DOMAIN row : cut1(i) \in TargetRow /\ Alike(row[i], cut1(i)) /\ ~cut1(i).there
  BY <1>a DEF TargetRow, Alike
<1>2. \A i \in DOMAIN row : Alike(row[i], row[i]) /\ row[i].there \in BOOLEAN
  BY <1>a DEF TargetRow, Alike
<1>3. row' = [i \in DOMAIN row |-> IF i \in gone THEN cut1(i) ELSE row[i]]
  BY DEF Removing, Without
<1> HIDE DEF cut1
<1>4. row' \in [1 .. Len(row) -> TargetRow] /\ DOMAIN row' = DOMAIN row
  BY <1>a, <1>1, <1>3
<1>5. \A i \in DOMAIN row : row'[i] = IF i \in gone THEN cut1(i) ELSE row[i]
  BY <1>3
<1> QED
  BY <1>a, <1>1, <1>2, <1>4, <1>5

LEMMA RenamedRows ==
  ASSUME TypeOK, Renaming
  PROVE  /\ row' \in Seq(TargetRow) /\ DOMAIN row' = DOMAIN row
         /\ \A i \in DOMAIN row : Alike(row[i], row'[i]) /\ row'[i].there = row[i].there
         /\ \E k \in DOMAIN row :
              /\ \A i \in DOMAIN row : i # k => row'[i] = row[i]
              /\ row'[k].renamed /\ row[k].src # 0
              /\ \A u \in row'[k].up : u \in DOMAIN row /\ Kind(u) \in Kinds(row[k].src)
<1>a. /\ Len(row) \in Nat /\ DOMAIN row = 1 .. Len(row) /\ \A i \in DOMAIN row : row[i] \in TargetRow
  BY RowTypes
<1>1. PICK k \in DOMAIN row, n \in Nat, form \in {"none", "migrate", "import"}, p \in SUBSET Nat :
        /\ row' = [row EXCEPT ![k].name = n, ![k].slug = form, ![k].up = p, ![k].renamed = TRUE]
        /\ row[k].src # 0
        /\ \A u \in p : u \in DOMAIN row /\ Kind(u) \in Kinds(row[k].src)
  BY DEF Renaming
<1> DEFINE x == [row[k] EXCEPT !.name = n, !.slug = form, !.up = p, !.renamed = TRUE]
<1>2. x \in TargetRow /\ Alike(row[k], x) /\ x.there = row[k].there /\ x.renamed /\ x.up = p
  BY <1>a DEF TargetRow, Alike
<1>3. row' = [row EXCEPT ![k] = x]
  BY <1>1
<1> HIDE DEF x
<1>4. /\ DOMAIN row' = DOMAIN row /\ row'[k] = x
      /\ \A i \in DOMAIN row : i # k => row'[i] = row[i]
  BY <1>a, <1>3
<1>5. row' \in [1 .. Len(row) -> TargetRow]
  BY <1>a, <1>2, <1>3
<1>6. row' \in Seq(TargetRow)
  BY <1>a, <1>5
<1>7. \A i \in DOMAIN row : Alike(row[i], row'[i]) /\ row'[i].there = row[i].there
  BY <1>2, <1>4 DEF Alike
<1> QED
  BY <1>1, <1>2, <1>4, <1>6, <1>7

LEMMA RowsStep ==
  ASSUME TypeOK, Resolves, Step
  PROVE  /\ row' \in Seq(TargetRow) /\ DOMAIN row \subseteq DOMAIN row'
         /\ \A i \in DOMAIN row : Alike(row[i], row'[i]) /\ (There(i)' => There(i))
         /\ (\E r \in Next1 : Removing(r)) \/ \A i \in DOMAIN row : There(i)' <=> There(i)
<1>a. row \in Seq(TargetRow)
  BY Types
<1>b. UNCHANGED row \/ (\A i \in DOMAIN row : i \in DOMAIN row' /\ row'[i] = row[i])
        => \A i \in DOMAIN row : Alike(row[i], row'[i]) /\ (There(i)' <=> There(i))
  BY DEF Alike, There
<1>1. CASE UNCHANGED row
  BY <1>a, <1>b, <1>1
<1>2. ASSUME NEW s \in Legacy, Inserting(s)
      PROVE  /\ row' \in Seq(TargetRow) /\ DOMAIN row \subseteq DOMAIN row'
             /\ \A i \in DOMAIN row : Alike(row[i], row'[i]) /\ (There(i)' <=> There(i))
  <2>1. /\ row' \in Seq(TargetRow) /\ DOMAIN row \subseteq DOMAIN row'
        /\ \A i \in DOMAIN row : i \in DOMAIN row' /\ row'[i] = row[i]
    BY <1>2, InsertedRow
  <2> QED
    BY <1>b, <2>1
<1>3. CASE Adding
  <2>1. PICK x \in TargetRow : row' = Append(row, x)
    BY <1>3 DEF Adding
  <2>2. /\ row' \in Seq(TargetRow) /\ DOMAIN row \subseteq DOMAIN row'
        /\ \A i \in DOMAIN row : i \in DOMAIN row' /\ row'[i] = row[i]
    BY <1>a, <2>1
  <2> QED
    BY <1>b, <2>2
<1>4. ASSUME NEW r \in Next1, Removing(r)
      PROVE  /\ row' \in Seq(TargetRow) /\ DOMAIN row \subseteq DOMAIN row'
             /\ \A i \in DOMAIN row : Alike(row[i], row'[i]) /\ (There(i)' => There(i))
  <2>1. /\ row' \in Seq(TargetRow) /\ DOMAIN row' = DOMAIN row
        /\ \A i \in DOMAIN row :
             /\ Alike(row[i], row'[i])
             /\ row'[i].there <=> row[i].there /\ i # r.id /\ i \notin Below(r.id, "Cascade")
    BY <1>4, DeletedRows
  <2>2. \A i \in DOMAIN row : row'[i].there => row[i].there
    BY <2>1
  <2> QED
    BY <2>1, <2>2 DEF There
<1>5. CASE Renaming
  <2>1. /\ row' \in Seq(TargetRow) /\ DOMAIN row' = DOMAIN row
        /\ \A i \in DOMAIN row : Alike(row[i], row'[i]) /\ row'[i].there = row[i].there
    BY <1>5, RenamedRows
  <2> QED
    BY <2>1 DEF There
<1>6. \/ \E r \in Next1 : Removing(r)
      \/ (\E s \in Legacy : Inserting(s)) \/ Adding \/ Renaming \/ UNCHANGED row
  BY DEF Step, Stops, Starts, Resolving, Recording, Unrecording, Idling, Failing, Deleting, Losing
<1> QED
  BY <1>1, <1>2, <1>3, <1>4, <1>5, <1>6

(* What is recorded, and dropped. *)
LEMMA RecordsStep ==
  ASSUME TypeOK, Resolves, Inserted, Step
  PROVE  /\ record' \subseteq Record /\ cut' \subseteq Record
         /\ \/ record' \subseteq record
            \/ /\ Recording
               /\ LET x == [run |-> job.run, src |-> job.pos, id |-> job.ids[job.pos]]
                  IN  record' = record \cup {x} /\ x \in Record
<1>a. record \subseteq Record /\ cut \subseteq Record /\ Current \subseteq Record /\ Next1 \subseteq Record
  BY Types DEF Current, Next1, JobState
<1>1. CASE Recording
  <2>1. job.run \in Run /\ job.pos \in Legacy /\ job.ids[job.pos] \in Nat
    BY <1>1, Types DEF Recording, Inserted, Resolves, Importers, JobState
  <2> QED
    BY <1>a, <1>1, <2>1 DEF Recording, Record
<1> QED
  BY <1>a, <1>1 DEF Step, Stops, Starts, Resolving, Unrecording, Adding, Renaming, Idling, Inserting,
                    Removing, Deleting, Losing, Failing

LEMMA TypeStep ==
  ASSUME TypeOK, Resolves, Inserted, Step, dump' \in {dump, <<>>}, app' \in 0 .. MaxApp
  PROVE  TypeOK'
<1>1. job' \in JobState
  BY Types DEF Step, Stops, Starts, Resolving, Recording, Unrecording, Going, Adding, Renaming, Idling,
               Inserting, Deleting, Losing, Failing
<1>2. row' \in Seq(TargetRow) /\ record' \subseteq Record /\ cut' \subseteq Record
  BY RowsStep, RecordsStep
<1>3. dump' \in Dumps \cup {<<>>}
  BY Types
<1> QED
  BY <1>1, <1>2, <1>3 DEF TypeOK, JobState

LEMMA DumpStep ==
  ASSUME TypeOK, [Next]_vars
  PROVE  dump' \in {dump, <<>>} /\ app' \in 0 .. MaxApp
<1> DEFINE Kept == dump' \in {dump, <<>>} /\ app' = app
           Moved == dump' = dump /\ app < MaxApp /\ app' = app + 1
<1>1. CASE ReadDump \/ UNCHANGED vars \/ Crash \/ ImportEnd \/ WriteRecord
  <2>1. Kept
    BY <1>1 DEF ReadDump, vars, Crash, ImportEnd, WriteRecord
  <2> QED
    BY <2>1, Types
<1>2. ASSUME NEW k \in Run, Rollback(k) \/ \E op \in {"migrate", "import"} : StartImport(k, op)
      PROVE  Kept
  BY <1>2 DEF Rollback, StartImport
<1>3. ASSUME NEW s \in Legacy, Skip(s) \/ TakeOver(s) \/ Duplicate(s) \/ Create(s) PROVE Kept
  BY <1>3 DEF Skip, TakeOver, Duplicate, Create
<1>4. ASSUME NEW r \in Next1, Delete(r) \/ Refused(r) \/ DeleteFails(r) PROVE Kept
  BY <1>4 DEF Delete, Refused, DeleteFails
<1>5. Unrecord \/ UnrecordFails \/ RollbackEnd => Kept
  BY DEF Unrecord, UnrecordFails, RollbackEnd
<1>6. ASSUME NEW s \in Legacy, NEW form \in {"migrate", "import"}, AppCreate(s, form) PROVE Moved
  BY <1>6 DEF AppCreate, AppRoom
<1>7. ASSUME NEW i \in DOMAIN row, NEW onDelete \in {"Restrict", "Cascade"}, AppUse(i, onDelete)
      PROVE  Moved
  BY <1>7 DEF AppUse, AppRoom
<1>8. ASSUME NEW i \in DOMAIN row, NEW form \in {"none", "migrate", "import"}, NEW n \in Names(Kind(i)),
             NEW p \in {row[i].up} \cup {{k} : k \in DOMAIN row}, AppRename(i, n, form, p)
      PROVE  Moved
  BY <1>8 DEF AppRename, AppRoom
<1>9. CASE Kept \/ Moved
  BY <1>9, Types
<1> HIDE DEF Kept, Moved
<1> QED
  BY <1>1, <1>2, <1>3, <1>4, <1>5, <1>6, <1>7, <1>8, <1>9 DEF Next, Application

-----------------------------------------------------------------------------
(* Each part of the invariant                                              *)

LEMMA KindsKept ==
  ASSUME TypeOK, Resolves, Step
  PROVE  \A i \in DOMAIN row : i \in DOMAIN row' /\ Kind(i)' = Kind(i)
<1>1. \A i \in DOMAIN row : i \in DOMAIN row' /\ row'[i].src = row[i].src
  BY RowsStep DEF Alike
<1> QED
  BY <1>1 DEF Kind

(* What a row to insert hangs from. *)
LEMMA AboveKinds ==
  ASSUME TypeOK, Resolves, NEW s \in Legacy
  PROVE  \A u \in Above(s) : u \in DOMAIN row /\ Kind(u) \in Kinds(s)
<1> SUFFICES ASSUME NEW v \in Source[s].up, NEW u \in Parent(v)
             PROVE  u \in DOMAIN row /\ Kind(u) = Source[v].entity
  BY DEF Above, Kinds
<1>1. v \in Legacy
  BY SourceRows
<1> QED
  BY <1>1 DEF Parent, Existing, Resolves

LEMMA HangStep ==
  ASSUME TypeOK, Resolves, RowsHang, Step
  PROVE  RowsHang'
<1>a. /\ DOMAIN row \subseteq DOMAIN row'
      /\ \A i \in DOMAIN row : Alike(row[i], row'[i])
      /\ \A i \in DOMAIN row : Kind(i)' = Kind(i)
  BY RowsStep, KindsKept
<1> DEFINE Hangs(x) == x.src # 0 =>
      /\ x.onDelete = OnDelete(x.src)
      /\ \A u \in x.up : u \in DOMAIN row /\ Kind(u) \in Kinds(x.src)
      /\ ~x.renamed => x.name = Source[x.src].name
<1>b. (\A i \in DOMAIN row' : Hangs(row'[i])) => RowsHang'
  BY <1>a DEF RowsHang, OnDelete, Kinds
<1> SUFFICES ASSUME NEW i \in DOMAIN row' PROVE Hangs(row'[i])
  BY <1>b
<1>1. CASE i \in DOMAIN row /\ ~row'[i].renamed
  <2>1. Hangs(row[i]) /\ ~row[i].renamed
    BY <1>a, <1>1, RowTypes DEF RowsHang, Alike, TargetRow
  <2> QED
    BY <1>a, <1>1, <2>1 DEF Alike
<1>2. CASE i \in DOMAIN row /\ row'[i] = row[i]
  BY <1>2 DEF RowsHang
<1>3. ASSUME NEW s \in Legacy, Inserting(s), i \notin DOMAIN row PROVE Hangs(row'[i])
  <2>1. row'[i].src = s /\ row'[i].up = Above(s) /\ row'[i].onDelete = OnDelete(s) /\ row'[i].name = Source[s].name
    BY <1>3, InsertedRow
  <2> QED
    BY <2>1, AboveKinds
<1>4. ASSUME Adding, i \notin DOMAIN row PROVE Hangs(row'[i])
  <2>1. PICK x \in TargetRow :
          /\ row' = Append(row, x)
          /\ x.src # 0 => /\ x.onDelete = OnDelete(x.src) /\ x.name = Source[x.src].name
                          /\ \A u \in x.up : u \in DOMAIN row /\ Kind(u) \in Kinds(x.src)
    BY <1>4 DEF Adding
  <2>2. row \in Seq(TargetRow)
    BY Types
  <2>3. row'[i] = x
    BY <1>4, <2>1, <2>2
  <2> QED
    BY <2>1, <2>3
<1>5. CASE Renaming
  <2>1. PICK k \in DOMAIN row :
          /\ \A j \in DOMAIN row : j # k => row'[j] = row[j]
          /\ row'[k].renamed /\ row[k].src # 0
          /\ \A u \in row'[k].up : u \in DOMAIN row /\ Kind(u) \in Kinds(row[k].src)
    BY <1>5, RenamedRows
  <2>2. DOMAIN row' = DOMAIN row
    BY <1>5, RenamedRows
  <2>3. CASE i = k
    <3>1. row'[k].src = row[k].src /\ row'[k].onDelete = OnDelete(row[k].src)
      BY <1>a, <2>1 DEF Alike, RowsHang
    <3> QED
      BY <2>1, <2>3, <3>1
  <2> QED
    BY <1>2, <2>1, <2>2, <2>3
<1>6. CASE \E r \in Next1 : Removing(r)
  <2>1. PICK r \in Next1 : Removing(r)
    BY <1>6
  <2>2. row' = Without(r.id)
    BY <2>1 DEF Removing
  <2>3. i \in DOMAIN row /\ row[i] \in TargetRow
    BY <2>2, RowTypes DEF Without
  <2>4. row'[i].src = row[i].src /\ row'[i].up = row[i].up /\ row'[i].onDelete = row[i].onDelete
        /\ row'[i].name = row[i].name /\ row'[i].renamed = row[i].renamed
    BY <2>2, <2>3 DEF Without, TargetRow
  <2>5. Hangs(row[i])
    BY <2>3 DEF RowsHang
  <2> QED
    BY <2>4, <2>5
<1>7. CASE UNCHANGED row
  BY <1>2, <1>7
<1>8. (\E s \in Legacy : Inserting(s)) \/ Adding => i \notin DOMAIN row \/ row'[i] = row[i]
  <2>1. ASSUME NEW s \in Legacy, Inserting(s) PROVE i \notin DOMAIN row \/ row'[i] = row[i]
    BY <2>1, InsertedRow
  <2>2. ASSUME Adding PROVE i \notin DOMAIN row \/ row'[i] = row[i]
    <3>1. row \in Seq(TargetRow) /\ \E x \in TargetRow : row' = Append(row, x)
      BY <2>2, Types DEF Adding
    <3> QED
      BY <3>1
  <2> QED
    BY <2>1, <2>2
<1>9. \/ \E s \in Legacy : Inserting(s)
      \/ Adding \/ Renaming \/ (\E r \in Next1 : Removing(r)) \/ UNCHANGED row
  BY DEF Step, Stops, Starts, Resolving, Recording, Unrecording, Idling, Failing, Deleting, Losing
<1> QED
  BY <1>2, <1>3, <1>4, <1>5, <1>6, <1>7, <1>8, <1>9

LEMMA PointStep ==
  ASSUME TypeOK, Resolves, Inserted, RecordsPoint, Step
  PROVE  RecordsPoint'
<1>1. CASE record' \subseteq record
  BY <1>1, RowsStep, FS_Subset DEF RecordsPoint
<1>2. CASE Recording
  <2>1. job.ids[job.pos] \in DOMAIN row
    BY <1>2 DEF Recording, Inserted, There
  <2> QED
    <3>1. IsFiniteSet(record')
      BY <1>2, FS_AddElement DEF Recording, RecordsPoint
    <3>2. \A r \in record' : r.id \in DOMAIN row'
      BY <1>2, <2>1 DEF Recording, RecordsPoint
    <3> QED
      BY <3>1, <3>2 DEF RecordsPoint
<1> QED
  BY <1>1, <1>2, RecordsStep

LEMMA OwnStep ==
  ASSUME TypeOK, Resolves, Inserted, RecordsPoint, RecordsOwn, Step
  PROVE  RecordsOwn'
<1>a. \A r \in record : r.id \in DOMAIN row /\ row'[r.id].by = row[r.id].by /\ row'[r.id].src = row[r.id].src
  BY RowsStep DEF RecordsPoint, Alike
<1>1. CASE record' \subseteq record
  BY <1>a, <1>1 DEF RecordsOwn
<1>2. CASE Recording
  <2> DEFINE x == [run |-> job.run, src |-> job.pos, id |-> job.ids[job.pos]]
  <2>1. record' = record \cup {x} /\ row' = row
    BY <1>2 DEF Recording
  <2>2. /\ row[x.id].by = x.run /\ row[x.id].src = x.src
        /\ \A t \in record : t.id # x.id
    BY <1>2 DEF Recording, Inserted
  <2> HIDE DEF x
  <2> QED
    BY <2>1, <2>2 DEF RecordsOwn
<1> QED
  BY <1>1, <1>2, RecordsStep

LEMMA ResolvesStep ==
  ASSUME TypeOK, Resolves, Step
  PROVE  Resolves'
<1>a. \A i \in DOMAIN row : i \in DOMAIN row' /\ Kind(i)' = Kind(i)
  BY KindsKept
<1>b. job.ids \in [Legacy -> Nat] /\ DOMAIN row = 1 .. Len(row) /\ Len(row) \in Nat
  BY Types, RowTypes DEF JobState
<1>1. job'.op # "none" => job'.run \in Run
  BY DEF Resolves, Step, Stops, Starts, Resolving, Recording, Unrecording, Adding, Renaming, Idling,
         Inserting, Deleting, Losing, Failing, Going, SameJob
<1> SUFFICES ASSUME NEW u \in Legacy, NEW v, v = job'.ids[u], v # 0
             PROVE  v \in DOMAIN row' /\ Kind(v)' = Source[u].entity
  BY <1>1 DEF Resolves, Kind
<1>2. v = job.ids[u] => v \in DOMAIN row' /\ Kind(v)' = Source[u].entity
  BY <1>a DEF Resolves
<1>3. CASE job'.ids = job.ids
  BY <1>2, <1>3
<1>4. CASE job'.ids = [s \in Legacy |-> 0]
  BY <1>4
<1>5. ASSUME NEW s \in Legacy, NEW i \in DOMAIN row', job'.ids = [job.ids EXCEPT ![s] = i],
             Kind(i)' = Source[s].entity
      PROVE  v \in DOMAIN row' /\ Kind(v)' = Source[u].entity
  <2>1. CASE u = s
    <3>1. v = i
      BY <1>b, <1>5, <2>1
    <3> QED
      BY <1>5, <2>1, <3>1
  <2>2. CASE u # s
    <3>1. v = job.ids[u]
      BY <1>b, <1>5, <2>2
    <3> QED
      BY <1>2, <3>1
  <2> QED
    BY <2>1, <2>2
<1>6. CASE Resolving
  <2>1. CASE job'.ids # job.ids
    <3>1. PICK s \in Legacy, i \in DOMAIN row :
            job'.ids = [job.ids EXCEPT ![s] = i] /\ Kind(i) = Source[s].entity
      BY <1>6, <2>1 DEF Resolving
    <3>2. i \in DOMAIN row' /\ Kind(i)' = Source[s].entity
      BY <1>a, <3>1
    <3> QED
      BY <1>5, <3>1, <3>2
  <2> QED
    BY <1>3, <2>1
<1>7. ASSUME NEW s \in Legacy, Inserting(s)
      PROVE  v \in DOMAIN row' /\ Kind(v)' = Source[u].entity
  <2>1. PICK i \in DOMAIN row' : i = Len(row) + 1 /\ row'[i].src = s
    BY <1>7, InsertedRow
  <2>2. job'.ids = [job.ids EXCEPT ![s] = i]
    BY <1>7, <2>1 DEF Inserting
  <2>3. Kind(i)' = Source[s].entity
    BY <2>1, SourceRows DEF Kind
  <2> QED
    BY <1>5, <2>2, <2>3
<1>8. \/ job'.ids = job.ids \/ job'.ids = [s \in Legacy |-> 0] \/ Resolving
      \/ \E s \in Legacy : Inserting(s)
  BY DEF Step, Stops, Starts, Recording, Unrecording, Adding, Renaming, Idling, Deleting, Losing, Failing,
         Going
<1> QED
  BY <1>3, <1>4, <1>6, <1>7, <1>8

LEMMA InsertedStep ==
  ASSUME TypeOK, Resolves, RecordsPoint, RecordsOwn, Inserted, Step
  PROVE  Inserted'
<1>a. /\ DOMAIN row = 1 .. Len(row) /\ Len(row) \in Nat
      /\ \A t \in record : t.id \in DOMAIN row
      /\ job.ids \in [Legacy -> Nat]
  BY Types, RowTypes DEF RecordsPoint, JobState
<1>1. ASSUME NEW s \in Legacy, Inserting(s) PROVE Inserted'
  <2> DEFINE i == Len(row) + 1
  <2>1. /\ job'.op \in Importers /\ job'.pos = s /\ job'.ids[s] = i /\ job'.run = job.run
        /\ record' = record
    BY <1>a, <1>1 DEF Inserting, Turn, SameJob, Importers
  <2>2. /\ i \in DOMAIN row' /\ row'[i].there /\ row'[i].by = job.run /\ row'[i].src = s
        /\ DOMAIN row' = DOMAIN row \cup {i}
    BY <1>1, InsertedRow
  <2>3. (\A t \in record : t.id # i) /\ \A j \in DOMAIN row' : ~(j > i)
    BY <1>a, <2>2
  <2> QED
    BY <2>1, <2>2, <2>3 DEF Inserted, There
<1>2. CASE job'.pc = "record" /\ (Adding \/ Renaming \/ Idling)
  <2>1. job.pc = "record" /\ job' = job /\ record' = record
    BY <1>2 DEF Adding, Renaming, Idling
  <2> SUFFICES ASSUME NEW i, i = job.ids[job.pos] PROVE Inserted'
    OBVIOUS
  <2>2. /\ job.op \in Importers /\ job.pos \in Legacy
        /\ There(i) /\ row[i].src = job.pos /\ row[i].by = job.run
        /\ \A t \in record : t.id # i
        /\ \A j \in DOMAIN row : j > i => row[j].by = None
    BY <2>1 DEF Inserted
  <2>3. i \in DOMAIN row
    BY <2>2 DEF There
  <2>4. /\ \A j \in DOMAIN row : row'[j].src = row[j].src /\ row'[j].by = row[j].by
        /\ There(i) => There(i)'
    <3>1. \A j \in DOMAIN row : Alike(row[j], row'[j])
      BY RowsStep
    <3>2. (\E r \in Next1 : Removing(r)) \/ \A j \in DOMAIN row : There(j)' <=> There(j)
      BY RowsStep
    <3>3. ~\E r \in Next1 : Removing(r)
      BY <2>1 DEF Removing
    <3> QED
      BY <2>3, <3>1, <3>2, <3>3 DEF Alike
  <2>5. \A j \in DOMAIN row' : j \in DOMAIN row \/ row'[j].by = None
    <3>1. CASE Adding
      <4>1. PICK x \in TargetRow : row' = Append(row, x) /\ x.by = None
        BY <3>1 DEF Adding
      <4>2. row \in Seq(TargetRow)
        BY Types
      <4> QED
        BY <4>1, <4>2
    <3>2. CASE Renaming
      BY <3>2, RenamedRows
    <3>3. CASE Idling
      BY <3>3 DEF Idling
    <3> QED
      BY <1>2, <3>1, <3>2, <3>3
  <2>6. \A j \in DOMAIN row' : j > i => row'[j].by = None
    BY <2>2, <2>4, <2>5
  <2>7. There(i)' /\ row'[i].src = job.pos /\ row'[i].by = job.run
    BY <2>2, <2>3, <2>4
  <2> QED
    BY <2>1, <2>2, <2>6, <2>7 DEF Inserted
<1>3. CASE job'.pc # "record"
  BY <1>3 DEF Inserted
<1> QED
  BY <1>1, <1>2, <1>3
     DEF Step, Stops, Starts, Resolving, Recording, Unrecording, Deleting, Losing, Failing, Going

(* A row is inserted past both of the checks: neither the look-up nor the  *)
(* records have shown an earlier one.                                      *)
LEMMA InsertedPast ==
  ASSUME TypeOK, Resolves, RowsHang, RecordsOwn, NEW s \in Legacy, Inserting(s),
         NEW i \in DOMAIN row, There(i), row[i].src = s, NEW j, j = Len(row) + 1
  PROVE  Missed(i, j)' /\ Forgotten(i, j)'
<1>1. /\ row'[j].up = Above(s) /\ row'[j].slug \in {"none", job.op} /\ row'[j].with = job.op
      /\ row'[i] = row[i] /\ record' = record
  BY InsertedRow DEF Inserting
<1>2. s # 0 /\ Kind(i) = Source[s].entity
  BY SourceRows DEF Kind
<1>3. i \notin Existing(s, Above(s), job.op)
  BY DEF Inserting
<1>4. ~row[i].renamed => row[i].name = Source[s].name
  BY <1>2 DEF RowsHang
<1>5. Missed(i, j)'
  BY <1>1, <1>2, <1>3, <1>4 DEF Missed, Existing
<1>6. job.op = "import" \/ job.op = "migrate"
  BY DEF Inserting, Turn
<1>7. CASE job.op = "import" /\ Source[s].remembered
  <2>1. \A r \in record : r.src # s
    BY <1>7 DEF Inserting, Prior
  <2>2. \A r \in record : r.id # i
    BY <2>1 DEF RecordsOwn
  <2> QED
    BY <1>1, <1>5, <2>2 DEF Forgotten
<1> QED
  BY <1>1, <1>5, <1>6, <1>7 DEF Forgotten

LEMMA OnceStep ==
  ASSUME TypeOK, Resolves, RowsHang, RecordsPoint, RecordsOwn, Inserted, ImportedOnce, Step
  PROVE  ImportedOnce'
<1>a. /\ DOMAIN row = 1 .. Len(row) /\ Len(row) \in Nat
      /\ \A i \in DOMAIN row : i \in DOMAIN row' /\ Alike(row[i], row'[i]) /\ (There(i)' => There(i))
  BY RowTypes, RowsStep
<1> SUFFICES ASSUME NEW i \in DOMAIN row', NEW j \in DOMAIN row', i < j, There(i)', There(j)',
                    row'[i].src = row'[j].src, row'[i].by # None, row'[j].by # None
             PROVE  Missed(i, j)' /\ Forgotten(i, j)'
  BY DEF ImportedOnce
<1>1. CASE i \in DOMAIN row /\ j \in DOMAIN row
  <2>1. Missed(i, j) /\ Forgotten(i, j)
    BY <1>a, <1>1 DEF Alike, ImportedOnce
  <2>2. Missed(i, j)'
    BY <1>a, <1>1, <2>1 DEF Alike, Missed
  <2>3. CASE record' \subseteq record
    <3>1. row'[j].with = row[j].with /\ row'[i].src = row[i].src
      BY <1>a, <1>1 DEF Alike
    <3>2. (\E r \in record' : r.id = i) => \E r \in record : r.id = i
      BY <2>3
    <3> QED
      BY <2>1, <2>2, <3>1, <3>2 DEF Forgotten
  <2>4. CASE Recording
    <3> DEFINE x == [run |-> job.run, src |-> job.pos, id |-> job.ids[job.pos]]
    <3>1. record' = record \cup {x} /\ row' = row
      BY <2>4 DEF Recording
    <3>2. \A k \in DOMAIN row : k > x.id => row[k].by = None
      BY <2>4 DEF Recording, Inserted
    <3>3. x.id # i
      BY <1>1, <3>1, <3>2
    <3> HIDE DEF x
    <3> QED
      BY <2>1, <2>2, <3>1, <3>3 DEF Forgotten
  <2> QED
    BY <2>2, <2>3, <2>4, RecordsStep
<1>2. ASSUME NEW s \in Legacy, Inserting(s), ~(i \in DOMAIN row /\ j \in DOMAIN row)
      PROVE  Missed(i, j)' /\ Forgotten(i, j)'
  <2>1. DOMAIN row' = DOMAIN row \cup {Len(row) + 1} /\ row'[Len(row) + 1].src = s
    BY <1>2, InsertedRow
  <2>2. j = Len(row) + 1 /\ i \in DOMAIN row
    BY <1>a, <1>2, <2>1
  <2>3. There(i) /\ row[i].src = s
    BY <1>a, <2>1, <2>2 DEF Alike
  <2> QED
    BY <1>2, <2>2, <2>3, InsertedPast
<1>3. CASE Adding
  <2>1. PICK x \in TargetRow : row' = Append(row, x) /\ x.by = None
    BY <1>3 DEF Adding
  <2>2. row \in Seq(TargetRow)
    BY Types
  <2>3. i \in DOMAIN row /\ j \in DOMAIN row
    BY <2>1, <2>2
  <2> QED
    BY <1>1, <2>3
<1>4. CASE DOMAIN row' = DOMAIN row
  BY <1>1, <1>4
<1>5. Adding \/ (\E s \in Legacy : Inserting(s)) \/ DOMAIN row' = DOMAIN row
  <2>1. Renaming => DOMAIN row' = DOMAIN row
    BY RenamedRows
  <2>2. \A r \in Next1 : Removing(r) => DOMAIN row' = DOMAIN row
    BY DEF Removing, Without
  <2> QED
    BY <2>1, <2>2 DEF Step, Stops, Starts, Resolving, Recording, Unrecording, Idling, Deleting, Losing, Failing
<1> QED
  BY <1>1, <1>2, <1>3, <1>4, <1>5

-----------------------------------------------------------------------------
(* Rollbacks                                                               *)

LEMMA RollsBackStep ==
  ASSUME TypeOK, Resolves, Inserted, RollsBack, Step
  PROVE  RollsBack'
<1>1. CASE Stops
  BY <1>1 DEF Stops, RollsBack
<1>2. CASE Starts
  BY <1>2 DEF Starts, RollsBack
<1>3. CASE Resolving \/ Adding \/ Renaming \/ Idling \/ \E s \in Legacy : Inserting(s)
  BY <1>3 DEF Resolving, Adding, Renaming, Idling, Inserting, SameJob, RollsBack
<1>4. CASE Recording
  BY <1>4 DEF Recording, SameJob, RollsBack, Inserted, Importers
<1>5. CASE Unrecording
  <2>1. Current \subseteq job.todo
    BY DEF Current
  <2> QED
    BY <1>5, <2>1 DEF Unrecording, Going, RollsBack
<1>6. ASSUME NEW r \in Next1, Deleting(r) \/ Losing(r) \/ Failing(r) PROVE RollsBack'
  <2>1. record' = record /\ job'.op = job.op /\ job'.run = job.run /\ job.op = "rollback"
    BY <1>6 DEF Deleting, Losing, Failing, Removing, Going, SameJob
  <2>2. \/ job'.todo = job.todo /\ job'.failures = job.failures
        \/ job'.todo = job.todo \ {r} /\ job'.failures = job.failures \cup {r}
    BY <1>6 DEF Deleting, Losing, Failing, Going, SameJob
  <2> QED
    BY <2>1, <2>2 DEF RollsBack
<1> QED
  BY <1>1, <1>2, <1>3, <1>4, <1>5, <1>6 DEF Step

(* The entities a rollback knows. *)
LEMMA ListedEntities ==
  ASSUME NEW r
  PROVE  /\ Listed(r) <=> Source[r.src].entity \in {"Season", "Drama", "SubscriptionPlan", "User"}
         /\ Listed(r) => Rank(r) \in Nat
         /\ Source[r.src].entity = "Season" => Rank(r) = 1
         /\ Source[r.src].entity = "Drama" => Rank(r) = 2
<1> DEFINE e == Source[r.src].entity
<1>1. /\ DOMAIN Order = 1 .. 4 /\ Order[1] = "Season" /\ Order[2] = "Drama"
      /\ Order[3] = "SubscriptionPlan" /\ Order[4] = "User"
  BY DEF Order
<1> HIDE DEF e
<1>2. (\E n \in DOMAIN Order : Order[n] = e) <=> e \in {"Season", "Drama", "SubscriptionPlan", "User"}
  <2>1. \A n \in DOMAIN Order : n = 1 \/ n = 2 \/ n = 3 \/ n = 4
    BY <1>1
  <2>2. 1 \in DOMAIN Order /\ 2 \in DOMAIN Order /\ 3 \in DOMAIN Order /\ 4 \in DOMAIN Order
    BY <1>1
  <2> QED
    BY <1>1, <2>1, <2>2
<1>3. Listed(r) <=> e \in {"Season", "Drama", "SubscriptionPlan", "User"}
  BY <1>2 DEF Listed, e
<1>4. Rank(r) = CHOOSE n \in DOMAIN Order : Order[n] = e
  BY DEF Rank, e
<1>5. (\E n \in DOMAIN Order : Order[n] = e) => Rank(r) \in DOMAIN Order /\ Order[Rank(r)] = e
  BY <1>4
<1>6. Listed(r) => Rank(r) \in 1 .. 4 /\ Order[Rank(r)] = e
  BY <1>1, <1>2, <1>3, <1>5
<1>7. e = "Season" => Rank(r) = 1
  BY <1>1, <1>3, <1>6
<1>8. e = "Drama" => Rank(r) = 2
  BY <1>1, <1>3, <1>6
<1> QED
  BY <1>3, <1>6, <1>7, <1>8 DEF e

LEMMA ListedRestrict ==
  ASSUME TypeOK, RowsHang, RecordsOwn, RecordsPoint, NEW r \in record, Listed(r)
  PROVE  row[r.id].onDelete = "Restrict"
<1>1. r.id \in DOMAIN row /\ row[r.id].src = r.src /\ r.src # 0
  BY RowTypes, SourceRows DEF RecordsPoint, RecordsOwn
<1>2. Source[r.src].entity \notin {"UserMessage", "VideoView"}
  BY ListedEntities
<1> QED
  BY <1>1, <1>2 DEF RowsHang, OnDelete

(* A deletion takes no other recorded row of a rollback's entities along.  *)
LEMMA DeletesOne ==
  ASSUME TypeOK, RowsHang, RecordsOwn, RecordsPoint, RollsBack, NEW r \in Next1, Removing(r),
         NEW t \in record, Listed(t), t # r
  PROVE  There(t.id)' <=> There(t.id)
<1>1. r \in record /\ t.id # r.id
  BY DEF Next1, RollsBack, RecordsOwn
<1>2. t.id \in DOMAIN row /\ t.id \notin Below(r.id, "Cascade")
  BY ListedRestrict DEF RecordsPoint, Below
<1>3. /\ DOMAIN row' = DOMAIN row
      /\ row'[t.id].there <=> row[t.id].there /\ t.id # r.id /\ t.id \notin Below(r.id, "Cascade")
  BY <1>2, DeletedRows
<1> QED
  BY <1>1, <1>2, <1>3 DEF There

LEMMA StandStep ==
  ASSUME TypeOK, Resolves, RowsHang, RecordsPoint, RecordsOwn, Inserted, RollsBack, RecordsStand, Step
  PROVE  RecordsStand'
<1>b. job.pc # "unrecord" => Current = {}
  BY DEF Current
<1>1. CASE Stops
  BY <1>1 DEF Stops, RecordsStand, There
<1>2. CASE Starts
  BY <1>b, <1>2 DEF Starts, RecordsStand, There, RollsBack
<1>3. CASE Resolving
  BY <1>b, <1>3 DEF Resolving, RecordsStand, There
<1>4. ASSUME NEW s \in Legacy, Inserting(s) PROVE RecordsStand'
  <2>1. \A i \in DOMAIN row : There(i) => There(i)'
    BY <1>4, InsertedRow DEF There
  <2> QED
    BY <1>b, <1>4, <2>1 DEF Inserting, Turn, RecordsStand, RecordsPoint
<1>5. CASE Recording
  BY <1>b, <1>5 DEF Recording, Inserted, RecordsStand, There
<1>6. CASE Unrecording
  <2>1. /\ \A i : There(i)' <=> There(i)
        /\ \/ record' = record \ Current /\ cut' = cut
           \/ record' = record /\ cut' = cut \cup Current
    BY <1>6 DEF Unrecording, There
  <2> QED
    BY <2>1 DEF RecordsStand, Listed
<1>7. CASE Idling
  BY <1>7 DEF Idling, RecordsStand, There, Current
<1>8. CASE Adding \/ Renaming
  <2>1. \A i \in DOMAIN row : There(i) => There(i)'
    <3>1. CASE Adding
      <4>1. row \in Seq(TargetRow) /\ \E x \in TargetRow : row' = Append(row, x)
        BY <3>1, Types DEF Adding
      <4> QED
        BY <4>1 DEF There
    <3>2. CASE Renaming
      BY <3>2, RenamedRows DEF There
    <3> QED
      BY <1>8, <3>1, <3>2
  <2> QED
    BY <1>8, <2>1 DEF Adding, Renaming, RecordsStand, RecordsPoint, Current
<1>9. ASSUME NEW r \in Next1, Deleting(r) PROVE RecordsStand'
  <2>1. Current = {} /\ r \in Current'
    BY <1>9 DEF Deleting, Removing, Current, Next1, SameJob
  <2>2. \A t \in record : Listed(t) /\ t # r => (There(t.id)' <=> There(t.id))
    BY <1>9, DeletesOne DEF Deleting
  <2> QED
    BY <1>9, <2>1, <2>2 DEF Deleting, Removing, RecordsStand, Listed
<1>10. ASSUME NEW r \in Next1, Losing(r) PROVE RecordsStand'
  <2>1. Current = {} /\ record' = record /\ cut' = cut \cup {r}
    BY <1>10 DEF Losing, Removing, Current
  <2>2. \A t \in record : Listed(t) /\ t # r => (There(t.id)' <=> There(t.id))
    BY <1>10, DeletesOne DEF Losing
  <2> QED
    BY <2>1, <2>2 DEF RecordsStand, Listed
<1>11. ASSUME NEW r \in Next1, Failing(r) PROVE RecordsStand'
  BY <1>b, <1>11 DEF Failing, RecordsStand, There
<1> QED
  BY <1>1, <1>2, <1>3, <1>4, <1>5, <1>6, <1>7, <1>8, <1>9, <1>10, <1>11 DEF Step

(* What the database refuses to delete is gone, its record left by an      *)
(* earlier deletion, or is needed by a row that is not to go later: below  *)
(* a row of these entities only seasons stand, and they go first.          *)
LEMMA RefusedExplained ==
  ASSUME TypeOK, RowsHang, RecordsPoint, RecordsOwn, RollsBack, RecordsStand,
         NEW r \in Next1, Refused(r)
  PROVE  Explained(r)
<1>1. r \in job.todo /\ r \in record /\ r.run = job.run /\ Listed(r) /\ Current = {}
  BY DEF Refused, Turning, Next1, RollsBack, Current
<1>2. CASE ~There(r.id)
  BY <1>1, <1>2 DEF RecordsStand, Explained
<1>3. ASSUME NEW t \in job.todo, t.id \in Below(r.id, "Restrict") PROVE FALSE
  <2>1. t \in record /\ Listed(t)
    BY DEF RollsBack
  <2>2. /\ t.src \in Legacy /\ row[t.id].src = t.src /\ row[r.id].src = r.src
        /\ t.src # 0 /\ r.src # 0 /\ t.id \in DOMAIN row
    BY <1>1, <2>1, RowTypes, SourceRows DEF RecordsOwn, RecordsPoint
  <2>3. r.id \in row[t.id].up
    BY <1>3 DEF Below
  <2>4. Kind(r.id) \in Kinds(t.src)
    BY <2>2, <2>3 DEF RowsHang
  <2>5. PICK u \in Source[t.src].up : Source[r.src].entity = Source[u].entity
    BY <2>2, <2>4 DEF Kind, Kinds
  <2>6. Source[t.src].entity = "Season"
    BY <2>1, <2>2, <2>5, ListedEntities
  <2>7. Source[r.src].entity = "Drama"
    BY <2>2, <2>5, <2>6
  <2>8. Rank(t) = 1 /\ Rank(r) = 2
    BY <2>6, <2>7, ListedEntities
  <2> QED
    BY <1>3, <2>8 DEF Next1
<1> QED
  BY <1>2, <1>3 DEF Explained

LEMMA InvInit == Init => IInv
<1> SUFFICES ASSUME Init PROVE IInv
  OBVIOUS
<1>1. /\ dump \in Dumps /\ row = <<>> /\ record = {} /\ cut = {} /\ job = Idle
      /\ app \in 0 .. MaxApp
  BY DEF Init
<1>2. /\ job \in JobState /\ job.op = "none" /\ job.pc = "row"
      /\ job.ids = [s \in Legacy |-> 0] /\ job.todo = {} /\ job.failures = {}
  <2>1. 0 \in 0 .. MaxScript /\ 1 \in 1 .. Len(Source) + 1
    BY SourceRows
  <2> QED
    BY <1>1, <2>1 DEF Idle, JobState
<1>3. TypeOK
  BY <1>1, <1>2, Types
<1>4. RowsHang /\ RecordsPoint /\ RecordsOwn /\ Inserted /\ ImportedOnce /\ RecordsStand
  BY <1>1, <1>2, FS_EmptySet DEF RowsHang, RecordsPoint, RecordsOwn, Inserted, ImportedOnce, RecordsStand
<1>5. Resolves /\ RollsBack
  BY <1>1, <1>2 DEF Resolves, RollsBack
<1> QED
  BY <1>3, <1>4, <1>5 DEF IInv

LEMMA Inductive == Spec => []IInv
<1>1. IInv /\ [Next]_vars => IInv'
  <2> SUFFICES ASSUME IInv, [Next]_vars PROVE IInv'
    OBVIOUS
  <2>1. Step
    BY Shapes DEF IInv
  <2>2. TypeOK' /\ RowsHang' /\ RecordsPoint' /\ RecordsOwn' /\ Resolves'
    BY <2>1, TypeStep, DumpStep, HangStep, PointStep, OwnStep, ResolvesStep DEF IInv
  <2>3. Inserted' /\ ImportedOnce' /\ RollsBack' /\ RecordsStand'
    BY <2>1, InsertedStep, OnceStep, RollsBackStep, StandStep DEF IInv
  <2> QED
    BY <2>2, <2>3 DEF IInv
<1> QED
  BY <1>1, InvInit, PTL DEF Spec

-----------------------------------------------------------------------------
(* LegacyMigration: the theorems                                           *)

(* Rows, records and the state of a script keep their types: an import     *)
(* never runs past its rows, a rollback holds records only.                *)
THEOREM TypeCorrect == Spec => []TypeOK
<1>1. IInv => TypeOK
  BY DEF IInv
<1> QED
  BY <1>1, Inductive, PTL

(* A rollback deletes, by its own deletions, nothing that the application  *)
(* or another run has made.                                                *)
THEOREM RecordsOwnAlways == Spec => []RecordsOwn
<1>1. IInv => RecordsOwn
  BY DEF IInv
<1> QED
  BY <1>1, Inductive, PTL

(* A legacy row is imported twice only past both of the checks, by however *)
(* many runs and importers, cut off wherever, and whatever the application *)
(* renames.                                                                *)
THEOREM ImportedOnceAlways == Spec => []ImportedOnce
<1>1. IInv => ImportedOnce
  BY DEF IInv
<1> QED
  BY <1>1, Inductive, PTL

(* A dump is read as it was written, whatever stands in its strings.       *)
THEOREM DumpAlways == Spec => []DumpRoundTrip
<1>1. TypeOK => DumpRoundTrip
  BY DumpAssumption, DumpRead DEF DumpAssumption, TypeOK, DumpRoundTrip
<1> QED
  BY <1>1, TypeCorrect, PTL

(* verify.ts counts the rows of a run's records right: they are distinct,  *)
(* and there.                                                              *)
LEMMA VerifyCounts ==
  ASSUME TypeOK, RecordsPoint, RecordsOwn, RecordsStand, NEW k \in Run, NEW e \in Checked,
         Records(k, e) \cap (cut \cup Current) = {}
  PROVE  Found(k, e) = Cardinality(Records(k, e))
<1> DEFINE S == Records(k, e)
           T == {r.id : r \in S}
           f == [r \in S |-> r.id]
<1>1. S \subseteq record /\ IsFiniteSet(S)
  BY FS_Subset DEF Records, RecordsPoint
<1>2. \A r \in S : There(r.id)
  BY ListedEntities DEF RecordsStand, Records, Checked
<1>3. {t \in S : There(t.id)} = S
  BY <1>2
<1>4. Found(k, e) = Cardinality(T)
  BY <1>3 DEF Found
<1>5. \A r, t \in S : r.id = t.id => r = t
  BY <1>1 DEF RecordsOwn
<1> HIDE DEF S
<1>6. f \in Surjection(S, T)
  BY DEF Surjection
<1>7. f \in Injection(S, T)
  BY <1>5 DEF Injection, IsInjective
<1>8. Cardinality(T) = Cardinality(S)
  BY <1>1, <1>6, <1>7, FS_Surjection
<1> QED
  BY <1>4, <1>8 DEF S

(* Verification agrees with the records unless a rollback has deleted a    *)
(* row and not its record.                                                 *)
THEOREM VerifyAlways == Spec => []VerifyAgrees
<1>1. IInv => VerifyAgrees
  BY VerifyCounts DEF IInv, VerifyAgrees
<1> QED
  BY <1>1, Inductive, PTL

(* A rollback removes what it knows or reports it, its order never stands  *)
(* in its way, and what it finds gone was left so by a deletion before it. *)
THEOREM RollbackAlways == Spec => RollbackAccounts
<1>1. ASSUME IInv, RollbackEnd
      PROVE  \A r \in record : r.run = job.run /\ Listed(r) => r \in job.failures
  BY <1>1 DEF IInv, RollsBack, RollbackEnd
<1>2. ASSUME IInv, NEW r \in Next1, Refused(r)
      PROVE  Explained(r)
  BY <1>2, RefusedExplained DEF IInv
<1>3. IInv => (/\ RollbackEnd => \A r \in record : r.run = job.run /\ Listed(r) => r \in job.failures
               /\ \A r \in Next1 : Refused(r) => Explained(r))
  BY <1>1, <1>2
<1> QED
  BY <1>3, Inductive, PTL DEF Spec, RollbackAccounts

-----------------------------------------------------------------------------
(* Deployment: the inductive invariant                                     *)

HIDE DEF RunAssumption, SourceAssumption

(* Ids and links in hand name rows that are there; beyond the migration    *)
(* the migrations are applied.  Nobody deletes a role, so what a seed has  *)
(* done of the roles is there also when it was disturbed.                  *)
Sound(i) ==
  /\ inst[i].ids \subseteq code
  /\ \A l \in inst[i].links : l[1] \in role
  /\ At(i, "seed") => Role \ inst[i].roles \subseteq role
  /\ At(i, "owner") => role = Role
  /\ inst[i].pc \in {"seed", "owner", "api"} => migrated

(* What the seed of an undisturbed instance has got to. *)
Reached(i) ==
  i \in calm =>
    /\ At(i, "seed") =>
         /\ Permission \ inst[i].perms \subseteq code
         /\ \A r \in Role \ inst[i].roles :
              {r} \X RolePermissions[r] \subseteq link \cup inst[i].links
    /\ At(i, "owner") => Catalogued /\ account[Owner] = "ACTIVE"
    /\ At(i, "api") => Seeded

SeedInv == DeployTypeOK /\ \A i \in Instance : Sound(i) /\ Reached(i)

USE SeedAssumption DEF SeedAssumption

-----------------------------------------------------------------------------
(* Deployment: types                                                       *)

LEMMA DownTyped == Down \in InstanceState
<1>1. 1 \in 1 .. Retries
  OBVIOUS
<1> QED
  BY <1>1 DEF Down, InstanceState

LEMMA TypeInit == DeployInit => DeployTypeOK
  BY DownTyped DEF DeployInit, DeployTypeOK

(* The local state of an instance keeps its type whatever the instance does. *)
LEMMA InstanceTyped ==
  ASSUME DeployTypeOK, NEW i \in Instance, Start(i) \/ Proceed(i) \/ Kill(i)
  PROVE  inst' \in [Instance -> InstanceState]
<1> DEFINE Steps(q) == q \in InstanceState /\ inst' = [inst EXCEPT ![i] = q]
<1>a. inst \in [Instance -> InstanceState] /\ inst[i] \in InstanceState
  BY DEF DeployTypeOK
<1> SUFFICES \E q : Steps(q)
  BY <1>a
<1>1. CASE Start(i)
  <2>1. Steps([inst[i] EXCEPT !.pc = "migrate"])
    BY <1>a, <1>1 DEF Start, InstanceState
  <2> QED
    BY <2>1
<1>2. CASE Migrate(i)
  <2>1. Steps([inst[i] EXCEPT !.pc = "migrating"])
    BY <1>a, <1>2 DEF Migrate, InstanceState
  <2> QED
    BY <2>1
<1>3. CASE MigrateBusy(i)
  <2>1. CASE inst[i].attempt = Retries
    BY <1>a, <1>3, <2>1, DownTyped DEF MigrateBusy
  <2>2. CASE inst[i].attempt # Retries
    <3>1. inst[i].attempt \in 1 .. Retries
      BY <1>a DEF InstanceState
    <3>2. inst[i].attempt + 1 \in 1 .. Retries
      BY <2>2, <3>1
    <3>3. [inst[i] EXCEPT !.attempt = @ + 1] \in InstanceState
      BY <1>a, <3>2 DEF InstanceState
    <3>4. inst' = [inst EXCEPT ![i] = [inst[i] EXCEPT !.attempt = @ + 1]]
      BY <1>a, <1>3, <2>2 DEF MigrateBusy
    <3> QED
      BY <3>3, <3>4
  <2> QED
    BY <2>1, <2>2
<1>4. CASE MigrateDone(i)
  <2>1. [Down EXCEPT !.pc = "seed", !.perms = Permission, !.roles = Role] \in InstanceState
    BY DownTyped DEF InstanceState
  <2> QED
    BY <1>4, <2>1 DEF MigrateDone
<1>5. CASE MigrateFail(i) \/ SeedFail(i) \/ Kill(i)
  BY <1>5, DownTyped DEF MigrateFail, SeedFail, Kill, Exit
<1>6. ASSUME NEW p \in Permission, SeedPermission(i, p) PROVE \E q : Steps(q)
  <2>1. Steps([inst[i] EXCEPT !.perms = @ \ {p}, !.ids = @ \cup {p}])
    <3>1. inst[i].perms \ {p} \in SUBSET Permission /\ inst[i].ids \cup {p} \in SUBSET Permission
      BY <1>a DEF InstanceState
    <3>2. [inst[i] EXCEPT !.perms = @ \ {p}, !.ids = @ \cup {p}] \in InstanceState
      BY <1>a, <3>1 DEF InstanceState
    <3> QED
      BY <1>a, <1>6, <3>2 DEF SeedPermission
  <2> QED
    BY <2>1
<1>7. ASSUME NEW r \in Role, SeedRole(i, r) PROVE \E q : Steps(q)
  <2>1. {r} \X RolePermissions[r] \in SUBSET (Role \X Permission)
    OBVIOUS
  <2>2. [inst[i] EXCEPT !.roles = @ \ {r}, !.links = {r} \X RolePermissions[r]] \in InstanceState
    BY <1>a, <2>1 DEF InstanceState
  <2> QED
    BY <1>a, <1>7, <2>2 DEF SeedRole
<1>8. ASSUME NEW r \in Role, NEW p \in Permission, SeedLink(i, r, p) PROVE \E q : Steps(q)
  <2>1. [inst[i] EXCEPT !.links = @ \ {<<r, p>>}] \in InstanceState
    BY <1>a DEF InstanceState
  <2> QED
    BY <1>a, <1>8, <2>1 DEF SeedLink
<1>9. CASE SeedOwner(i)
  <2>1. [Down EXCEPT !.pc = "owner"] \in InstanceState
    BY DownTyped DEF InstanceState
  <2> QED
    BY <1>9, <2>1 DEF SeedOwner
<1>10. CASE SeedOwnerRole(i)
  <2>1. [Down EXCEPT !.pc = "api"] \in InstanceState
    BY DownTyped DEF InstanceState
  <2> QED
    BY <1>10, <2>1 DEF SeedOwnerRole
<1> QED
  BY <1>1, <1>2, <1>3, <1>4, <1>5, <1>6, <1>7, <1>8, <1>9, <1>10 DEF Proceed

(* What a start, a step of it or its end does keeps the types. *)
LEMMA TypeStart ==
  ASSUME DeployTypeOK, NEW i \in Instance, Sound(i), Start(i) \/ Proceed(i) \/ Kill(i)
  PROVE  DeployTypeOK'
<1>a. inst' \in [Instance -> InstanceState]
  BY InstanceTyped
<1>1. CASE Start(i)
  BY <1>a, <1>1 DEF Start, DeployTypeOK, database
<1>2. CASE Migrate(i)
  BY <1>a, <1>2 DEF Migrate, DeployTypeOK, database
<1>3. CASE MigrateBusy(i)
  BY <1>a, <1>3 DEF MigrateBusy, DeployTypeOK, database
<1>4. CASE MigrateDone(i)
  BY <1>a, <1>4 DEF MigrateDone, DeployTypeOK, database
<1>5. CASE MigrateFail(i) \/ SeedFail(i) \/ Kill(i)
  BY <1>a, <1>5 DEF MigrateFail, SeedFail, Kill, Exit, DeployTypeOK, database
<1>6. ASSUME NEW p \in Permission, SeedPermission(i, p) PROVE DeployTypeOK'
  BY <1>a, <1>6 DEF SeedPermission, DeployTypeOK
<1>7. ASSUME NEW r \in Role, SeedRole(i, r) PROVE DeployTypeOK'
  BY <1>a, <1>7 DEF SeedRole, DeployTypeOK
<1>8. ASSUME NEW r \in Role, NEW p \in Permission, SeedLink(i, r, p) PROVE DeployTypeOK'
  <2>1. p \in code /\ <<r, p>>[1] \in role
    BY <1>8 DEF SeedLink, Sound
  <2>2. <<r, p>> \in role \X code
    BY <2>1
  <2>3. link' \in SUBSET (role \X code)
    BY <1>8, <2>2 DEF SeedLink, DeployTypeOK
  <2>4. UNCHANGED <<lock, migrated, code, role, account, has, granted, calm>>
    BY <1>8 DEF SeedLink
  <2> QED
    BY <1>a, <2>3, <2>4 DEF DeployTypeOK
<1>9. CASE SeedOwner(i)
  BY <1>a, <1>9 DEF SeedOwner, DeployTypeOK
<1>10. CASE SeedOwnerRole(i)
  <2>1. has[Owner] \cup {"SUPER_ADMIN"} \in SUBSET role
    BY <1>10 DEF SeedOwnerRole, Sound, DeployTypeOK
  <2> QED
    BY <1>a, <1>10, <2>1 DEF SeedOwnerRole, DeployTypeOK
<1> QED
  BY <1>1, <1>2, <1>3, <1>4, <1>5, <1>6, <1>7, <1>8, <1>9, <1>10 DEF Proceed

(* So does what staff does. *)
LEMMA TypeStaff ==
  ASSUME DeployTypeOK, StaffChange
  PROVE  DeployTypeOK'
<1>1. ASSUME NEW u \in User, NEW p \in Permission, CreatePermission(u, p) PROVE DeployTypeOK'
  <2>1. link \in SUBSET (role \X code') /\ granted \in [User -> SUBSET code']
    <3>1. code \subseteq code'
      BY <1>1 DEF CreatePermission
    <3> QED
      BY <3>1 DEF DeployTypeOK
  <2> QED
    BY <1>1, <2>1 DEF CreatePermission, DeployTypeOK
<1>2. ASSUME NEW u \in User, NEW p \in Permission, DeletePermission(u, p) PROVE DeployTypeOK'
  <2>1. inst' \in [Instance -> InstanceState]
    <3>1. ASSUME NEW i \in Instance
          PROVE  [inst[i] EXCEPT !.ids = @ \ {p}] \in InstanceState
      <4>1. inst[i] \in InstanceState
        BY DEF DeployTypeOK
      <4>2. inst[i].ids \ {p} \in SUBSET Permission
        BY <4>1 DEF InstanceState
      <4> QED
        BY <4>1, <4>2 DEF InstanceState
    <3>2. inst' = [i \in Instance |-> [inst[i] EXCEPT !.ids = @ \ {p}]]
      BY <1>2 DEF DeletePermission
    <3> QED
      BY <3>1, <3>2
  <2>2. code' \in SUBSET Permission /\ calm' \in SUBSET Instance
    BY <1>2 DEF DeletePermission, DeployTypeOK
  <2>3. link' \in SUBSET (role \X code')
    BY <1>2 DEF DeletePermission, DeployTypeOK
  <2>4. granted' \in [User -> SUBSET code']
    <3>1. ASSUME NEW v \in User PROVE granted[v] \ {p} \in SUBSET code'
      BY <1>2 DEF DeletePermission, DeployTypeOK
    <3>2. granted' = [v \in User |-> granted[v] \ {p}]
      BY <1>2 DEF DeletePermission
    <3> QED
      BY <3>1, <3>2
  <2>5. UNCHANGED <<lock, migrated, role, account, has>>
    BY <1>2 DEF DeletePermission
  <2> QED
    BY <2>1, <2>2, <2>3, <2>4, <2>5 DEF DeployTypeOK
<1>3. ASSUME NEW u \in User, NEW v \in User, NEW r \in Role, AssignRole(u, v, r) PROVE DeployTypeOK'
  <2>1. has[v] \cup {r} \in SUBSET role
    BY <1>3 DEF AssignRole, DeployTypeOK
  <2> QED
    BY <1>3, <2>1 DEF AssignRole, DeployTypeOK
<1>4. ASSUME NEW u \in User, NEW v \in User, NEW r \in Role, RemoveRole(u, v, r) PROVE DeployTypeOK'
  <2>1. has[v] \ {r} \in SUBSET role
    BY DEF DeployTypeOK
  <2> QED
    BY <1>4, <2>1 DEF RemoveRole, DeployTypeOK
<1>5. ASSUME NEW u \in User, NEW r \in Role, NEW p \in Permission,
             AssignRolePermission(u, r, p) \/ RemoveRolePermission(u, r, p)
      PROVE  DeployTypeOK'
  <2>1. link' \in SUBSET (role \X code)
    BY <1>5 DEF AssignRolePermission, RemoveRolePermission, DeployTypeOK
  <2>2. calm' \in SUBSET Instance
    BY <1>5 DEF AssignRolePermission, RemoveRolePermission, DeployTypeOK
  <2>3. UNCHANGED <<inst, lock, migrated, code, role, account, has, granted>>
    BY <1>5 DEF AssignRolePermission, RemoveRolePermission
  <2> QED
    BY <2>1, <2>2, <2>3 DEF DeployTypeOK
<1>6. ASSUME NEW u \in User, NEW v \in User, NEW p \in Permission,
             \/ \E g \in BOOLEAN : AssignUserPermission(u, v, p, g)
             \/ RemoveUserPermission(u, v, p)
      PROVE  DeployTypeOK'
  <2>1. granted' \in [User -> SUBSET code]
    <3>1. granted[v] \ {p} \in SUBSET code
      BY DEF DeployTypeOK
    <3>2. ASSUME NEW g \in BOOLEAN, AssignUserPermission(u, v, p, g)
          PROVE  granted' \in [User -> SUBSET code]
      <4>1. granted[v] \cup {p} \in SUBSET code
        BY <3>2 DEF AssignUserPermission, DeployTypeOK
      <4> QED
        BY <3>1, <3>2, <4>1 DEF AssignUserPermission, DeployTypeOK
    <3> QED
      BY <1>6, <3>1, <3>2 DEF RemoveUserPermission, DeployTypeOK
  <2>2. UNCHANGED <<inst, lock, migrated, code, role, link, account, has, calm>>
    BY <1>6 DEF AssignUserPermission, RemoveUserPermission
  <2> QED
    BY <2>1, <2>2 DEF DeployTypeOK
<1>7. ASSUME NEW u \in User, NEW v \in User, NEW r \in Role, CreateAdmin(u, v, r) PROVE DeployTypeOK'
  <2>1. {r} \in SUBSET role
    BY <1>7 DEF CreateAdmin
  <2> QED
    BY <1>7, <2>1 DEF CreateAdmin, DeployTypeOK
<1>8. ASSUME NEW u \in User, NEW v \in User,
             \/ \E st \in {"ACTIVE", "SUSPENDED"} : UpdateStatus(u, v, st)
             \/ Remove(u, v)
      PROVE  DeployTypeOK'
  <2>1. account' \in [User -> {"absent", "ACTIVE", "SUSPENDED", "DELETED"}]
    BY <1>8 DEF UpdateStatus, Remove, DeployTypeOK
  <2>2. calm' \in SUBSET Instance
    BY <1>8 DEF UpdateStatus, Remove, DeployTypeOK
  <2>3. UNCHANGED <<inst, lock, migrated, code, role, link, has, granted>>
    BY <1>8 DEF UpdateStatus, Remove
  <2> QED
    BY <2>1, <2>2, <2>3 DEF DeployTypeOK
<1> QED
  BY <1>1, <1>2, <1>3, <1>4, <1>5, <1>6, <1>7, <1>8 DEF StaffChange

-----------------------------------------------------------------------------
(* Deployment: what a seed has reached stays reached                       *)

(* The database only grows, and the super admin keeps what he has. *)
Grows ==
  /\ code \subseteq code' /\ role \subseteq role' /\ link \subseteq link'
  /\ migrated => migrated'
  /\ account[Owner] = "ACTIVE" =>
       /\ account'[Owner] = "ACTIVE"
       /\ "SUPER_ADMIN" \in has[Owner] => "SUPER_ADMIN" \in has'[Owner]

(* While the database grows, an instance that rests stays sound and keeps  *)
(* what it has reached.                                                    *)
LEMMA GrowthKeeps ==
  ASSUME DeployTypeOK, DeployTypeOK', Grows, NEW j \in Instance,
         inst'[j] = inst[j], j \in calm' => j \in calm,
         Sound(j), Reached(j)
  PROVE  Sound(j)' /\ Reached(j)'
<1>1. Sound(j)'
  BY DEF DeployTypeOK, Grows, Sound, At
<1>2. Reached(j)'
  <2> SUFFICES ASSUME j \in calm' PROVE Reached(j)'
    BY DEF Reached
  <2>1. Catalogued => Catalogued'
    BY DEF DeployTypeOK, Grows, Catalogued
  <2>2. Seeded => Seeded'
    BY <2>1 DEF Grows, Seeded
  <2>3. ASSUME At(j, "seed")'
        PROVE  /\ Permission \ inst'[j].perms \subseteq code'
               /\ \A r \in Role \ inst'[j].roles :
                    {r} \X RolePermissions[r] \subseteq link' \cup inst'[j].links
    BY <2>3 DEF Grows, Reached, At
  <2> QED
    BY <2>1, <2>2, <2>3 DEF Grows, Reached, At
<1> QED
  BY <1>1, <1>2

(* Whatever an instance does, killed or not, the database grows and the    *)
(* other instances are left alone.                                         *)
LEMMA InstanceGrows ==
  ASSUME DeployTypeOK, NEW i \in Instance, Start(i) \/ Proceed(i) \/ Kill(i)
  PROVE  /\ Grows
         /\ \A j \in Instance \ {i} : inst'[j] = inst[j] /\ (j \in calm' => j \in calm)
<1>1. CASE Start(i)
  BY <1>1 DEF Start, DeployTypeOK, Grows, database
<1>2. CASE Migrate(i)
  BY <1>2 DEF Migrate, DeployTypeOK, Grows, database
<1>3. CASE MigrateBusy(i)
  BY <1>3 DEF MigrateBusy, DeployTypeOK, Grows, database
<1>4. CASE MigrateDone(i)
  BY <1>4 DEF MigrateDone, DeployTypeOK, Grows, database
<1>5. CASE MigrateFail(i) \/ SeedFail(i) \/ Kill(i)
  BY <1>5 DEF MigrateFail, SeedFail, Kill, Exit, DeployTypeOK, Grows, database
<1>6. CASE \E p \in Permission : SeedPermission(i, p)
  BY <1>6 DEF SeedPermission, DeployTypeOK, Grows
<1>7. CASE \E r \in Role : SeedRole(i, r)
  BY <1>7 DEF SeedRole, DeployTypeOK, Grows
<1>8. CASE \E r \in Role, p \in Permission : SeedLink(i, r, p)
  BY <1>8 DEF SeedLink, DeployTypeOK, Grows
<1>9. CASE SeedOwner(i)
  BY <1>9 DEF SeedOwner, DeployTypeOK, Grows
<1>10. CASE SeedOwnerRole(i)
  BY <1>10 DEF SeedOwnerRole, DeployTypeOK, Grows
<1> QED
  BY <1>1, <1>2, <1>3, <1>4, <1>5, <1>6, <1>7, <1>8, <1>9, <1>10 DEF Proceed

(* The instance that steps is sound afterwards and has reached what its    *)
(* place in the script says.                                               *)
LEMMA SeedOwnStep ==
  ASSUME DeployTypeOK, DeployTypeOK', NEW i \in Instance, Sound(i), Reached(i),
         Start(i) \/ Proceed(i) \/ Kill(i)
  PROVE  Sound(i)' /\ Reached(i)'
<1>a. inst \in [Instance -> InstanceState] /\ inst[i] \in InstanceState
  BY DEF DeployTypeOK
<1>1. CASE Start(i)
  BY <1>a, <1>1 DEF Start, Sound, Reached, At, InstanceState, database
<1>2. CASE Migrate(i)
  BY <1>a, <1>2 DEF Migrate, Sound, Reached, At, InstanceState, database
<1>3. CASE MigrateBusy(i)
  <2>1. At(i, "migrate")' \/ At(i, "down")'
    BY <1>a, <1>3 DEF MigrateBusy, At, Down, InstanceState
  <2>2. inst'[i].ids \subseteq inst[i].ids /\ inst'[i].links \subseteq inst[i].links
    BY <1>a, <1>3 DEF MigrateBusy, Down, InstanceState
  <2> QED
    BY <1>3, <2>1, <2>2 DEF MigrateBusy, Sound, Reached, At, database
<1>4. CASE MigrateDone(i)
  BY <1>a, <1>4 DEF MigrateDone, Sound, Reached, At, Down, database
<1>5. CASE MigrateFail(i) \/ SeedFail(i) \/ Kill(i)
  BY <1>a, <1>5 DEF MigrateFail, SeedFail, Kill, Exit, Sound, Reached, At, Down, database
<1>6. ASSUME NEW p \in Permission, SeedPermission(i, p) PROVE Sound(i)' /\ Reached(i)'
  BY <1>a, <1>6 DEF SeedPermission, Sound, Reached, At, InstanceState
<1>7. ASSUME NEW r \in Role, SeedRole(i, r) PROVE Sound(i)' /\ Reached(i)'
  BY <1>a, <1>7 DEF SeedRole, Sound, Reached, At, InstanceState
<1>8. ASSUME NEW r \in Role, NEW p \in Permission, SeedLink(i, r, p)
      PROVE  Sound(i)' /\ Reached(i)'
  <2>1. /\ inst'[i].pc = inst[i].pc /\ inst'[i].roles = inst[i].roles
        /\ inst'[i].links = inst[i].links \ {<<r, p>>}
        /\ inst'[i].perms = inst[i].perms /\ inst'[i].ids = inst[i].ids
    BY <1>a, <1>8 DEF SeedLink, InstanceState
  <2>2. link' = link \cup {<<r, p>>} /\ UNCHANGED <<migrated, code, role, account, has, calm>>
    BY <1>8 DEF SeedLink
  <2>3. (Catalogued => Catalogued') /\ (Seeded => Seeded')
    BY <2>2 DEF Catalogued, Seeded
  <2>4. Sound(i)'
    BY <2>1, <2>2 DEF Sound, At
  <2>5. Reached(i)'
    BY <2>1, <2>2, <2>3 DEF Reached, At
  <2> QED
    BY <2>4, <2>5
<1>9. CASE SeedOwner(i)
  BY <1>a, <1>9 DEF SeedOwner, Sound, Reached, At, Down, Catalogued, DeployTypeOK
<1>10. CASE SeedOwnerRole(i)
  BY <1>a, <1>10 DEF SeedOwnerRole, Sound, Reached, At, Down, Catalogued, Seeded, DeployTypeOK
<1> QED
  BY <1>1, <1>2, <1>3, <1>4, <1>5, <1>6, <1>7, <1>8, <1>9, <1>10 DEF Proceed

(* Staff either lets the database grow, or no seed counts as undisturbed   *)
(* any more.                                                               *)
LEMMA StaffStep ==
  ASSUME DeployTypeOK, DeployTypeOK', StaffChange, NEW j \in Instance, Sound(j), Reached(j)
  PROVE  Sound(j)' /\ Reached(j)'
<1>1. ASSUME Grows, inst' = inst, calm' = calm PROVE Sound(j)' /\ Reached(j)'
  BY <1>1, GrowthKeeps
<1>2. ASSUME inst' = inst, calm' = {}, UNCHANGED <<migrated, code, role>>
      PROVE  Sound(j)' /\ Reached(j)'
  BY <1>2 DEF Sound, Reached, At
<1>3. ASSUME NEW u \in User, NEW p \in Permission, CreatePermission(u, p)
      PROVE  Sound(j)' /\ Reached(j)'
  BY <1>1, <1>3 DEF CreatePermission, Grows
<1>4. ASSUME NEW u \in User, NEW p \in Permission, DeletePermission(u, p)
      PROVE  Sound(j)' /\ Reached(j)'
  <2>1. inst' = [i \in Instance |-> [inst[i] EXCEPT !.ids = @ \ {p}]]
    BY <1>4 DEF DeletePermission
  <2>2. /\ inst'[j].pc = inst[j].pc /\ inst'[j].ids = inst[j].ids \ {p}
        /\ inst'[j].roles = inst[j].roles /\ inst'[j].links = inst[j].links
    <3>1. inst[j] \in InstanceState
      BY DEF DeployTypeOK
    <3>2. inst'[j] = [inst[j] EXCEPT !.ids = inst[j].ids \ {p}]
      BY <2>1
    <3> QED
      BY <3>1, <3>2 DEF InstanceState
  <2>3. code' = code \ {p} /\ calm' = {} /\ UNCHANGED <<migrated, role>>
    BY <1>4 DEF DeletePermission
  <2> QED
    BY <2>2, <2>3 DEF Sound, Reached, At
<1>5. ASSUME NEW u \in User, NEW r \in Role, NEW p \in Permission,
             AssignRolePermission(u, r, p) \/ RemoveRolePermission(u, r, p)
      PROVE  Sound(j)' /\ Reached(j)'
  BY <1>1, <1>2, <1>5 DEF AssignRolePermission, RemoveRolePermission, Grows
<1>6. ASSUME NEW u \in User, NEW v \in User, NEW r \in Role,
             AssignRole(u, v, r) \/ RemoveRole(u, v, r) \/ CreateAdmin(u, v, r)
      PROVE  Sound(j)' /\ Reached(j)'
  <2>1. CASE AssignRole(u, v, r)
    BY <1>1, <2>1 DEF AssignRole, Grows, DeployTypeOK
  <2>2. CASE RemoveRole(u, v, r)
    BY <1>2, <2>2 DEF RemoveRole
  <2>3. CASE CreateAdmin(u, v, r)
    <3>1. account[Owner] = "ACTIVE" => v # Owner
      BY <2>3 DEF CreateAdmin
    <3>2. Grows
      BY <2>3, <3>1 DEF CreateAdmin, Grows, DeployTypeOK
    <3> QED
      BY <1>1, <2>3, <3>2 DEF CreateAdmin
  <2> QED
    BY <1>6, <2>1, <2>2, <2>3
<1>7. ASSUME NEW u \in User, NEW v \in User, NEW p \in Permission,
             \/ \E g \in BOOLEAN : AssignUserPermission(u, v, p, g)
             \/ RemoveUserPermission(u, v, p)
      PROVE  Sound(j)' /\ Reached(j)'
  BY <1>1, <1>7 DEF AssignUserPermission, RemoveUserPermission, Grows
<1>8. ASSUME NEW u \in User, NEW v \in User, NEW st \in {"ACTIVE", "SUSPENDED"},
             UpdateStatus(u, v, st)
      PROVE  Sound(j)' /\ Reached(j)'
  <2>1. CASE st = "ACTIVE"
    <3>1. Grows
      BY <1>8, <2>1 DEF UpdateStatus, Grows, DeployTypeOK
    <3> QED
      BY <1>1, <1>8, <2>1, <3>1 DEF UpdateStatus
  <2>2. CASE st # "ACTIVE"
    BY <1>2, <1>8, <2>2 DEF UpdateStatus
  <2> QED
    BY <2>1, <2>2
<1>9. ASSUME NEW u \in User, NEW v \in User, Remove(u, v)
      PROVE  Sound(j)' /\ Reached(j)'
  BY <1>2, <1>9 DEF Remove
<1> QED
  BY <1>3, <1>4, <1>5, <1>6, <1>7, <1>8, <1>9 DEF StaffChange

-----------------------------------------------------------------------------
(* Deployment: the invariant is inductive, the theorems                    *)

LEMMA SeedInitially == DeployInit => SeedInv
<1> SUFFICES ASSUME DeployInit PROVE SeedInv
  OBVIOUS
<1>1. DeployTypeOK
  BY TypeInit
<1>2. ASSUME NEW i \in Instance PROVE Sound(i) /\ Reached(i)
  BY <1>2 DEF DeployInit, Sound, Reached, At, Down
<1> QED
  BY <1>1, <1>2 DEF SeedInv

LEMMA SeedInductive == SeedInv /\ [DeployNext]_deployVars => SeedInv'
<1> SUFFICES ASSUME SeedInv, [DeployNext]_deployVars PROVE SeedInv'
  OBVIOUS
<1>a. DeployTypeOK
  BY DEF SeedInv
<1>1. ASSUME NEW i \in Instance, Start(i) \/ Proceed(i) \/ Kill(i) PROVE SeedInv'
  <2>1. Sound(i) /\ Reached(i)
    BY DEF SeedInv
  <2>2. DeployTypeOK'
    BY <1>a, <1>1, <2>1, TypeStart
  <2>3. Sound(i)' /\ Reached(i)'
    BY <1>a, <1>1, <2>1, <2>2, SeedOwnStep
  <2>4. ASSUME NEW j \in Instance \ {i} PROVE Sound(j)' /\ Reached(j)'
    <3>1. Grows /\ inst'[j] = inst[j] /\ (j \in calm' => j \in calm)
      BY <1>a, <1>1, InstanceGrows
    <3>2. Sound(j) /\ Reached(j)
      BY DEF SeedInv
    <3> QED
      BY <1>a, <2>2, <3>1, <3>2, GrowthKeeps
  <2> QED
    BY <2>2, <2>3, <2>4 DEF SeedInv
<1>2. CASE LockDropped
  <2>1. DeployTypeOK'
    BY <1>2 DEF LockDropped, database, SeedInv, DeployTypeOK
  <2>2. ASSUME NEW j \in Instance PROVE Sound(j)' /\ Reached(j)'
    BY <1>2 DEF LockDropped, database, SeedInv, Sound, Reached, At, Catalogued, Seeded
  <2> QED
    BY <2>1, <2>2 DEF SeedInv
<1>3. CASE StaffChange
  <2>1. DeployTypeOK'
    BY <1>a, <1>3, TypeStaff
  <2>2. ASSUME NEW j \in Instance PROVE Sound(j)' /\ Reached(j)'
    BY <1>a, <1>3, <2>1, StaffStep DEF SeedInv
  <2> QED
    BY <2>1, <2>2 DEF SeedInv
<1>4. CASE UNCHANGED deployVars
  <2>1. DeployTypeOK'
    BY <1>4 DEF deployVars, database, SeedInv, DeployTypeOK
  <2>2. ASSUME NEW j \in Instance PROVE Sound(j)' /\ Reached(j)'
    BY <1>4 DEF deployVars, database, SeedInv, Sound, Reached, At, Catalogued, Seeded
  <2> QED
    BY <2>1, <2>2 DEF SeedInv
<1> QED
  BY <1>1, <1>2, <1>3, <1>4 DEF DeployNext

(* Everything in the database refers to what is there - links to roles and *)
(* permissions, roles and grants of users too - whoever seeds, restarts or *)
(* deletes at the same time.                                               *)
THEOREM DeployTypeCorrect == DeploySpec => []DeployTypeOK
<1>1. SeedInv => DeployTypeOK
  BY DEF SeedInv
<1> QED
  BY <1>1, SeedInitially, SeedInductive, PTL DEF DeploySpec

(* An instance serves only behind a complete seed, unless staff has taken  *)
(* something away since it began: render-start.mjs and seed.ts, run by any *)
(* number of instances at once.                                            *)
THEOREM ServesSeededAlways == DeploySpec => []ServesSeeded
<1>1. SeedInv => ServesSeeded
  BY DEF SeedInv, Sound, Reached, ServesSeeded, At
<1> QED
  BY <1>1, SeedInitially, SeedInductive, PTL DEF DeploySpec
=============================================================================
