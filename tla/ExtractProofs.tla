----------------------------- MODULE ExtractProofs -----------------------------
(***************************************************************************)
(* A proof about the parser, for texts of any pieces, of any length and cut    *)
(* off anywhere: Extract finds every command of the text, once and in order.   *)
(*                                                                           *)
(* The scanner of extractObject is a machine that reads one character at a     *)
(* time; what it should find is described without it, by counting quotes and   *)
(* braces.  The proof follows the machine against that description, then joins  *)
(* the pieces of the text one behind the other.                              *)
(***************************************************************************)
EXTENDS ReadersProofs, FiniteSetTheorems

-------------------------------------------------------------------------------
(* The scanner of Extract.                                                    *)

Began == [at |-> 0, depth |-> 0, inStr |-> FALSE, escape |-> FALSE, end |-> 0]
Scans == [at: Nat, depth: Int, inStr: BOOLEAN, escape: BOOLEAN, end: Nat]

\* What one character does to a scan that has not found the end.
Moves(s, c, t) ==
  LET outside == ~ s.escape /\ ~ s.inStr IN
    /\ t.at = s.at + 1
    /\ t.escape = (~ s.escape /\ s.inStr /\ c = "backslash")
    /\ t.inStr = IF ~ s.escape /\ c = "quote" THEN ~ s.inStr ELSE s.inStr
    /\ t.depth = IF outside /\ c = "{" THEN s.depth + 1
                 ELSE IF outside /\ c = "}" THEN s.depth - 1 ELSE s.depth
    /\ t.end = IF outside /\ c = "}" /\ s.depth = 1 THEN s.at + 1 ELSE 0

LEMMA StepMoves ==
  ASSUME NEW s \in Scans, s.end = 0, NEW c
  PROVE  Step(s, c) \in Scans /\ Moves(s, c, Step(s, c))
<1>1. PICK r : r = [s EXCEPT !.at = @ + 1]
  OBVIOUS
<1>2. /\ r \in Scans /\ r.at = s.at + 1 /\ r.depth = s.depth /\ r.inStr = s.inStr
      /\ r.escape = s.escape /\ r.end = 0
  BY <1>1 DEF Scans
<1>3. Step(s, c) =
        CASE r.escape -> [r EXCEPT !.escape = FALSE]
          [] ~ r.escape /\ c = "backslash" /\ r.inStr -> [r EXCEPT !.escape = TRUE]
          [] ~ r.escape /\ c = "quote" -> [r EXCEPT !.inStr = ~ @]
          [] ~ r.escape /\ c = "{" /\ ~ r.inStr -> [r EXCEPT !.depth = @ + 1]
          [] ~ r.escape /\ c = "}" /\ ~ r.inStr ->
               [r EXCEPT !.depth = @ - 1, !.end = IF r.depth = 1 THEN r.at ELSE 0]
          [] OTHER -> r
  BY <1>1 DEF Step
<1>4. CASE r.escape
  <2>1. Step(s, c) = [r EXCEPT !.escape = FALSE]
    BY <1>3, <1>4
  <2> QED BY <1>2, <1>4, <2>1 DEF Scans, Moves
<1>5. CASE ~ r.escape /\ c = "backslash" /\ r.inStr
  <2>1. Step(s, c) = [r EXCEPT !.escape = TRUE]
    BY <1>3, <1>5
  <2> QED BY <1>2, <1>5, <2>1 DEF Scans, Moves
<1>6. CASE ~ r.escape /\ c = "quote"
  <2>1. Step(s, c) = [r EXCEPT !.inStr = ~ @]
    BY <1>3, <1>6
  <2> QED BY <1>2, <1>6, <2>1 DEF Scans, Moves
<1>7. CASE ~ r.escape /\ c = "{" /\ ~ r.inStr
  <2>1. Step(s, c) = [r EXCEPT !.depth = @ + 1]
    BY <1>3, <1>7
  <2>2. Step(s, c) \in Scans
    BY <1>2, <2>1 DEF Scans
  <2>3. /\ Step(s, c).at = s.at + 1 /\ Step(s, c).escape = s.escape
        /\ Step(s, c).inStr = s.inStr /\ Step(s, c).depth = s.depth + 1
        /\ Step(s, c).end = 0
    BY <1>2, <2>1 DEF Scans
  <2>4. c = "{" /\ ~ s.escape /\ ~ s.inStr /\ c # "quote" /\ c # "}" /\ c # "backslash"
    BY <1>2, <1>7
  <2>5. s.escape = FALSE /\ s.inStr = FALSE
    BY <2>4 DEF Scans
  <2> QED BY <2>2, <2>3, <2>4, <2>5 DEF Moves
<1>8. CASE ~ r.escape /\ c = "}" /\ ~ r.inStr
  <2>1. Step(s, c) = [r EXCEPT !.depth = @ - 1, !.end = IF r.depth = 1 THEN r.at ELSE 0]
    BY <1>3, <1>8
  <2>e. PICK e \in Nat, d \in Int :
          (e = IF s.depth = 1 THEN s.at + 1 ELSE 0) /\ d = s.depth - 1
    BY DEF Scans
  <2>f. Step(s, c) = [r EXCEPT !.depth = d, !.end = e]
    BY <1>2, <2>1, <2>e
  <2>2. Step(s, c) \in Scans
    BY <1>2, <2>f DEF Scans
  <2>3. /\ Step(s, c).at = s.at + 1 /\ Step(s, c).escape = s.escape
        /\ Step(s, c).inStr = s.inStr /\ Step(s, c).depth = s.depth - 1
        /\ Step(s, c).end = IF s.depth = 1 THEN s.at + 1 ELSE 0
    BY <1>2, <2>e, <2>f DEF Scans
  <2>4. c = "}" /\ ~ s.escape /\ ~ s.inStr /\ c # "quote" /\ c # "{" /\ c # "backslash"
    BY <1>2, <1>8
  <2>5. s.escape = FALSE /\ s.inStr = FALSE
    BY <2>4 DEF Scans
  <2> QED BY <2>2, <2>3, <2>4, <2>5 DEF Moves
<1>9. CASE /\ ~ r.escape /\ ~ (c = "backslash" /\ r.inStr) /\ c # "quote"
           /\ ~ (c = "{" /\ ~ r.inStr) /\ ~ (c = "}" /\ ~ r.inStr)
  <2>1. Step(s, c) = r
    BY <1>3, <1>9
  <2> QED BY <1>2, <1>9, <2>1 DEF Scans, Moves
<1> QED BY <1>4, <1>5, <1>6, <1>7, <1>8, <1>9

LEMMA StepType ==
  ASSUME NEW s \in Scans, NEW c
  PROVE  Step(s, c) \in Scans
<1>1. CASE s.end = 0
  BY <1>1, StepMoves
<1>2. CASE s.end # 0
  BY <1>2 DEF Step
<1> QED BY <1>1, <1>2

\* The loop of extractObject.
ScanLoop(text, f) ==
  /\ f[0] = Began /\ Closing(text) = f[Len(text)].end
  /\ \A i \in 1..Len(text) : f[i] = Step(f[i - 1], text[i])

LEMMA ScanUnfolds ==
  ASSUME NEW S, NEW text \in Seq(S)
  PROVE  \E f \in [0..Len(text) -> Scans] : ScanLoop(text, f)
<1>1. PICK n \in Nat : n = Len(text)
  OBVIOUS
<1>2. PICK g : g = [p \in Scans \X (1..n) |-> Step(p[1], text[p[2]])]
  OBVIOUS
<1>3. g \in [Scans \X (1..n) -> Scans]
  BY <1>2, StepType
<1>4. PICK T, none : T = Scans /\ none = Began /\ none \in T
  <2>1. Began \in Scans
    BY DEF Began, Scans
  <2> QED BY <2>1
<1>5. g \in Steps(1..n, T)
  BY <1>3, <1>4 DEF Steps
<1>6. PICK f \in [0..n -> T] : f[0] = none /\ \A i \in 1..n : f[i] = g[<<f[i - 1], i>>]
  <2>1. none \in T
    BY <1>4
  <2> QED BY <1>5, <2>1, IndexRecursion
<1>7. \A i \in 1..n : i - 1 \in 0..n /\ f[i - 1] \in Scans
  BY <1>4, <1>6
<1>8. \A i \in 1..n : f[i] = Step(f[i - 1], text[i])
  BY <1>2, <1>6, <1>7
<1>9. f = [i \in 0..n |-> IF i = 0 THEN Began ELSE Step(f[i - 1], text[i])]
  <2>1. \A i \in 0..n : i # 0 => i \in 1..n
    OBVIOUS
  <2> QED BY <1>4, <1>6, <1>8, <2>1
<1> DEFINE Scan == CHOOSE scan : scan = [i \in 0..Len(text) |->
                     IF i = 0 THEN Began ELSE Step(scan[i - 1], text[i])]
<1>10. Scan = [i \in 0..n |-> IF i = 0 THEN Began ELSE Step(Scan[i - 1], text[i])]
  BY <1>1, <1>9
<1>11. Closing(text) = Scan[n].end
  BY <1>1 DEF Closing, Began
<1> HIDE DEF Scan
<1>12. PICK k : k = Scan
  OBVIOUS
<1>13. k[0] = Began /\ \A i \in 1..n : k[i] = Step(k[i - 1], text[i])
  <2>1. k = [i \in 0..n |-> IF i = 0 THEN Began ELSE Step(k[i - 1], text[i])]
    BY <1>10, <1>12
  <2>2. 0 \in 0..n /\ \A i \in 1..n : i \in 0..n /\ i # 0
    OBVIOUS
  <2>3. \A i \in 0..n : k[i] = IF i = 0 THEN Began ELSE Step(k[i - 1], text[i])
    BY <2>1
  <2> QED BY <2>2, <2>3
<1>14. \A i \in 0..n : k[i] \in Scans
  <2>1. PICK A : A = {i \in Nat : i <= n => k[i] \in Scans}
    OBVIOUS
  <2>2. 0 \in A
    BY <1>4, <1>13, <2>1
  <2>3. ASSUME NEW i \in A PROVE i + 1 \in A
    <3>1. i \in Nat /\ (i + 1) - 1 = i
      BY <2>1
    <3>2. ASSUME i + 1 <= n PROVE k[i + 1] \in Scans
      <4>1. i + 1 \in 1..n /\ k[i] \in Scans
        BY <2>1, <3>1, <3>2
      <4>2. k[i + 1] = Step(k[i], text[i + 1])
        BY <1>13, <3>1, <4>1
      <4> QED BY <4>1, <4>2, StepType
    <3> QED BY <2>1, <3>1, <3>2
  <2>4. A \in SUBSET Nat
    BY <2>1
  <2>5. A = Nat
    BY <2>2, <2>3, <2>4, NatInduct
  <2> QED BY <2>1, <2>5
<1>15. k \in [0..n -> Scans]
  BY <1>10, <1>12, <1>14
<1> QED BY <1>1, <1>11, <1>12, <1>13, <1>15 DEF ScanLoop

-------------------------------------------------------------------------------
(* Strings and braces, as the texts are described.                            *)

LEMMA CountLonger ==
  ASSUME NEW A, NEW i \in Nat
  PROVE  /\ Cardinality(A \cap 1..i) \in Nat
         /\ Cardinality(A \cap 1..0) = 0
         /\ Cardinality(A \cap 1..(i + 1)) =
              Cardinality(A \cap 1..i) + IF i + 1 \in A THEN 1 ELSE 0
<1>1. IsFiniteSet(A \cap 1..i)
  <2>1. IsFiniteSet(1..i)
    BY FS_Interval
  <2>2. A \cap 1..i \in SUBSET (1..i)
    OBVIOUS
  <2> QED BY <2>1, <2>2, FS_Subset
<1>2. Cardinality(A \cap 1..i) \in Nat
  BY <1>1, FS_CardinalityType
<1>3. Cardinality(A \cap 1..0) = 0
  <2>1. A \cap 1..0 = {}
    OBVIOUS
  <2> QED BY <2>1, FS_EmptySet
<1>4. CASE i + 1 \in A
  <2>1. A \cap 1..(i + 1) = (A \cap 1..i) \cup {i + 1}
    BY <1>4
  <2>2. ~ i + 1 \in A \cap 1..i
    OBVIOUS
  <2>3. Cardinality((A \cap 1..i) \cup {i + 1}) = Cardinality(A \cap 1..i) + 1
    BY <1>1, <2>2, FS_AddElement
  <2> QED BY <1>2, <1>3, <1>4, <2>1, <2>3
<1>5. CASE ~ i + 1 \in A
  <2>1. A \cap 1..(i + 1) = A \cap 1..i
    BY <1>5
  <2> QED BY <1>2, <1>3, <1>5, <2>1
<1> QED BY <1>4, <1>5

LEMMA LastMark ==
  ASSUME NEW u, u[1] # "backslash", NEW k \in Nat, k >= 1
  PROVE  \E m \in 1..k : u[m] # "backslash" /\ \A j \in m + 1..k : u[j] = "backslash"
<1>1. PICK A : A = {n \in Nat : n >= 1 =>
                \E m \in 1..n : u[m] # "backslash" /\ \A j \in m + 1..n : u[j] = "backslash"}
  OBVIOUS
<1>2. 0 \in A
  BY <1>1
<1>3. ASSUME NEW n \in A PROVE n + 1 \in A
  <2>0. n \in Nat
    BY <1>1
  <2>1. CASE u[n + 1] # "backslash"
    <3>1. n + 1 \in 1..(n + 1) /\ \A j \in (n + 1) + 1..(n + 1) : u[j] = "backslash"
      BY <2>0
    <3> QED BY <1>1, <2>0, <2>1, <3>1
  <2>2. CASE u[n + 1] = "backslash"
    <3>1. n >= 1
      BY <2>0, <2>2
    <3>2. PICK m \in 1..n : u[m] # "backslash" /\ \A j \in m + 1..n : u[j] = "backslash"
      BY <1>1, <3>1
    <3>3. m \in 1..(n + 1) /\ \A j \in m + 1..(n + 1) : u[j] = "backslash"
      BY <2>0, <2>2, <3>2
    <3> QED BY <1>1, <2>0, <3>2, <3>3
  <2> QED BY <2>1, <2>2
<1>4. A \in SUBSET Nat
  BY <1>1
<1>5. A = Nat
  BY <1>2, <1>3, <1>4, NatInduct
<1> QED BY <1>1, <1>5

LEMMA EscapedLonger ==
  ASSUME NEW u, u[1] # "backslash", NEW i \in Nat, i >= 1
  PROVE  Escaped(u, i + 1) <=> u[i] = "backslash" /\ ~ Escaped(u, i)
<1>1. ASSUME Escaped(u, i + 1)
      PROVE  u[i] = "backslash" /\ ~ Escaped(u, i)
  <2>1. PICK m \in 1..(i + 1) - 1 :
          /\ ((i + 1) - m) % 2 = 0 /\ u[m] # "backslash"
          /\ \A j \in m + 1..(i + 1) - 1 : u[j] = "backslash"
    BY <1>1 DEF Escaped
  <2>2. m # i
    BY <2>1
  <2>3. u[i] = "backslash"
    BY <2>1, <2>2
  <2>4. ASSUME Escaped(u, i) PROVE FALSE
    <3>1. PICK l \in 1..i - 1 : /\ (i - l) % 2 = 0 /\ u[l] # "backslash"
                                /\ \A j \in l + 1..i - 1 : u[j] = "backslash"
      BY <2>4 DEF Escaped
    <3>2. ~ l < m
      BY <2>1, <2>2, <3>1
    <3>3. ~ m < l
      BY <2>1, <3>1
    <3>4. l = m
      BY <3>2, <3>3
    <3> QED BY <2>1, <3>1, <3>4
  <2> QED BY <2>3, <2>4
<1>2. ASSUME u[i] = "backslash", ~ Escaped(u, i)
      PROVE  Escaped(u, i + 1)
  <2>1. i - 1 \in Nat /\ i - 1 >= 1
    BY <1>2
  <2>2. PICK m \in 1..(i - 1) :
          u[m] # "backslash" /\ \A j \in m + 1..(i - 1) : u[j] = "backslash"
    BY <2>1, LastMark
  <2>3. (i - m) % 2 # 0
    BY <1>2, <2>2 DEF Escaped
  <2>4. ((i + 1) - m) % 2 = 0
    BY <2>3
  <2>5. m \in 1..(i + 1) - 1 /\ \A j \in m + 1..(i + 1) - 1 : u[j] = "backslash"
    BY <1>2, <2>2
  <2> QED BY <2>2, <2>4, <2>5 DEF Escaped
<1> QED BY <1>1, <1>2

LEMMA UnclosedType ==
  ASSUME NEW u, NEW i \in Nat
  PROVE  Unclosed(u, i) \in Int
<1>1. PICK A, B : A = Braces(u, "{") /\ B = Braces(u, "}")
  OBVIOUS
<1>2. Cardinality(A \cap 1..i) \in Nat /\ Cardinality(B \cap 1..i) \in Nat
  BY CountLonger
<1>3. PICK a \in Nat, b \in Nat :
        a = Cardinality(A \cap 1..i) /\ b = Cardinality(B \cap 1..i)
  BY <1>2
<1>4. Unclosed(u, i) = a - b
  BY <1>1, <1>3 DEF Unclosed
<1> QED BY <1>4

\* One mark more.
LEMMA MarkMore ==
  ASSUME NEW S, NEW u \in Seq(S), NEW i \in Nat, i < Len(u)
  PROVE  /\ InString(u, i + 1) <=>
              (IF u[i + 1] = "quote" /\ ~ Escaped(u, i + 1) THEN ~ InString(u, i) ELSE InString(u, i))
         /\ Unclosed(u, i) \in Int
         /\ Unclosed(u, i + 1) =
              IF u[i + 1] = "{" /\ ~ InString(u, i) THEN Unclosed(u, i) + 1
              ELSE IF u[i + 1] = "}" /\ ~ InString(u, i) THEN Unclosed(u, i) - 1
              ELSE Unclosed(u, i)
<1>0. i + 1 \in 1..Len(u)
  OBVIOUS
<1>1. InString(u, i + 1) <=>
        (IF u[i + 1] = "quote" /\ ~ Escaped(u, i + 1) THEN ~ InString(u, i) ELSE InString(u, i))
  <2>0. PICK A : A = Quotes(u)
    OBVIOUS
  <2>1. PICK c \in Nat, d \in Nat :
          c = Cardinality(A \cap 1..i) /\ d = Cardinality(A \cap 1..(i + 1))
    <3>1. Cardinality(A \cap 1..i) \in Nat /\ Cardinality(A \cap 1..(i + 1)) \in Nat
      <4>1. i \in Nat /\ i + 1 \in Nat
        OBVIOUS
      <4> QED BY <4>1, CountLonger
    <3> QED BY <3>1
  <2>2. d = c + IF i + 1 \in A THEN 1 ELSE 0
    BY <2>1, CountLonger
  <2>3. i + 1 \in A <=> u[i + 1] = "quote" /\ ~ Escaped(u, i + 1)
    BY <1>0, <2>0 DEF Quotes
  <2>4. (InString(u, i) <=> c % 2 = 1) /\ (InString(u, i + 1) <=> d % 2 = 1)
    BY <2>0, <2>1 DEF InString
  <2>5. (c + 1) % 2 = 1 <=> ~ c % 2 = 1
    OBVIOUS
  <2>6. CASE i + 1 \in A
    <3>1. d = c + 1
      BY <2>2, <2>6
    <3> QED BY <2>3, <2>4, <2>5, <2>6, <3>1
  <2>7. CASE ~ i + 1 \in A
    <3>1. d = c
      BY <2>2, <2>7
    <3> QED BY <2>3, <2>4, <2>7, <3>1
  <2> QED BY <2>6, <2>7
<1>2. ASSUME NEW brace, brace # "quote"
      PROVE  i + 1 \in Braces(u, brace) <=> u[i + 1] = brace /\ ~ InString(u, i)
  BY <1>0, <1>1, <1>2 DEF Braces
<1>b. PICK A, B : A = Braces(u, "{") /\ B = Braces(u, "}")
  OBVIOUS
<1>3. PICK a \in Nat, b \in Nat :
        /\ a = Cardinality(A \cap 1..i) /\ b = Cardinality(B \cap 1..i)
  BY CountLonger
<1>x. PICK x \in Nat, y \in Nat :
        x = (IF i + 1 \in A THEN 1 ELSE 0) /\ y = (IF i + 1 \in B THEN 1 ELSE 0)
  OBVIOUS
<1>4. /\ Cardinality(A \cap 1..(i + 1)) = a + x
      /\ Cardinality(B \cap 1..(i + 1)) = b + y
  BY <1>3, <1>x, CountLonger
<1>5. Unclosed(u, i) = a - b
  BY <1>b, <1>3 DEF Unclosed
<1>6. Unclosed(u, i + 1) = (a + x) - (b + y)
  BY <1>b, <1>3, <1>4 DEF Unclosed
<1>7. /\ i + 1 \in A <=> u[i + 1] = "{" /\ ~ InString(u, i)
      /\ i + 1 \in B <=> u[i + 1] = "}" /\ ~ InString(u, i)
  BY <1>2, <1>b
<1>8. Unclosed(u, i + 1) =
        IF u[i + 1] = "{" /\ ~ InString(u, i) THEN Unclosed(u, i) + 1
        ELSE IF u[i + 1] = "}" /\ ~ InString(u, i) THEN Unclosed(u, i) - 1
        ELSE Unclosed(u, i)
  <2>1. CASE u[i + 1] = "{" /\ ~ InString(u, i)
    <3>1. x = 1 /\ y = 0
      BY <1>7, <1>x, <2>1
    <3>2. Unclosed(u, i + 1) = Unclosed(u, i) + 1
      BY <1>5, <1>6, <3>1
    <3> QED BY <2>1, <3>2
  <2>2. CASE u[i + 1] = "}" /\ ~ InString(u, i)
    <3>1. x = 0 /\ y = 1
      BY <1>7, <1>x, <2>2
    <3>2. Unclosed(u, i + 1) = Unclosed(u, i) - 1
      BY <1>5, <1>6, <3>1
    <3> QED BY <2>2, <3>2
  <2>3. CASE ~ (u[i + 1] = "{" /\ ~ InString(u, i)) /\ ~ (u[i + 1] = "}" /\ ~ InString(u, i))
    <3>1. x = 0 /\ y = 0
      BY <1>7, <1>x, <2>3
    <3>2. Unclosed(u, i + 1) = Unclosed(u, i)
      BY <1>5, <1>6, <3>1
    <3> QED BY <2>3, <3>2
  <2> QED BY <2>1, <2>2, <2>3
<1>9. Unclosed(u, i) \in Int
  BY <1>5
<1> QED BY <1>1, <1>8, <1>9

\* The scan of the object u has come to its mark i.
Tracks(u, s, i) ==
  /\ s.at = i /\ s.end = 0 /\ s.depth = Unclosed(u, i)
  /\ s.inStr <=> InString(u, i)
  /\ s.escape <=> Escaped(u, i + 1)

LEMMA ScanBegins ==
  ASSUME NEW u
  PROVE  Tracks(u, Began, 0) /\ ~ InString(u, 0) /\ Unclosed(u, 0) = 0 /\ ~ Escaped(u, 0 + 1)
<1>1. \A A : Cardinality(A \cap 1..0) = 0
  <2>1. 0 \in Nat
    OBVIOUS
  <2> QED BY <2>1, CountLonger
<1>2. ~ InString(u, 0)
  BY <1>1 DEF InString
<1>3. Unclosed(u, 0) = 0
  BY <1>1 DEF Unclosed
<1>4. ~ Escaped(u, 0 + 1)
  BY DEF Escaped
<1> QED BY <1>2, <1>3, <1>4 DEF Tracks, Began

LEMMA ObjectLength ==
  ASSUME NEW S, NEW u \in Seq(S), IsObject(u)
  PROVE  Len(u) \in Nat /\ Len(u) > 0
<1>1. u # <<>>
  BY DEF IsObject
<1>2. Len(u) \in Nat /\ Len(u) # 0
  BY <1>1, EmptySeq
<1> QED BY <1>2

LEMMA ScanStep ==
  ASSUME NEW S, NEW u \in Seq(S), IsObject(u), NEW i \in Nat, i < Len(u),
         NEW s \in Scans, Tracks(u, s, i)
  PROVE  /\ i + 1 < Len(u) => Tracks(u, Step(s, u[i + 1]), i + 1)
         /\ i + 1 = Len(u) => Step(s, u[i + 1]).end = Len(u)
<1>0. PICK c, t : c = u[i + 1] /\ t = Step(s, u[i + 1])
  OBVIOUS
<1>l. Len(u) \in Nat
  OBVIOUS
<1>n. u[1] = "{" /\ u[1] # "backslash"
  <2>1. u[1] = "{"
    BY DEF IsObject
  <2>2. "{" # "backslash"
    OBVIOUS
  <2> QED BY <2>1, <2>2
<1>1. t \in Scans /\ Moves(s, c, t)
  BY <1>0, StepMoves DEF Tracks
<1>2. /\ InString(u, i + 1) <=>
            (IF c = "quote" /\ ~ Escaped(u, i + 1) THEN ~ InString(u, i) ELSE InString(u, i))
      /\ Unclosed(u, i) \in Int
      /\ Unclosed(u, i + 1) =
            IF c = "{" /\ ~ InString(u, i) THEN Unclosed(u, i) + 1
            ELSE IF c = "}" /\ ~ InString(u, i) THEN Unclosed(u, i) - 1
            ELSE Unclosed(u, i)
  BY <1>0, MarkMore
<1>3. /\ u[1] = "{" /\ Unclosed(u, Len(u)) = 0
      /\ \A k \in 1..Len(u) - 1 : Unclosed(u, k) > 0
      /\ \A k \in 1..Len(u) : u[k] = "backslash" => InString(u, k)
  BY DEF IsObject
<1>4. /\ s.at = i /\ s.end = 0 /\ s.depth = Unclosed(u, i)
      /\ s.inStr <=> InString(u, i)
      /\ s.escape <=> Escaped(u, i + 1)
  BY DEF Tracks
<1>5. s.escape => s.inStr
  <2>1. CASE i = 0
    BY <1>4, <2>1, ScanBegins
  <2>2. CASE i # 0
    <3>1. i >= 1 /\ i \in 1..Len(u)
      BY <1>l, <2>2
    <3>2. Escaped(u, i + 1) => u[i] = "backslash"
      BY <1>n, <3>1, EscapedLonger
    <3> QED BY <1>3, <1>4, <3>1, <3>2
  <2> QED BY <2>1, <2>2
<1>6. Escaped(u, (i + 1) + 1) <=> c = "backslash" /\ ~ Escaped(u, i + 1)
  <2>1. i + 1 \in Nat /\ i + 1 >= 1
    OBVIOUS
  <2>2. Escaped(u, (i + 1) + 1) <=> u[i + 1] = "backslash" /\ ~ Escaped(u, i + 1)
    BY <1>n, <2>1, EscapedLonger
  <2> QED BY <1>0, <2>2
<1>7. c = "backslash" => InString(u, i)
  <2>1. i + 1 \in 1..Len(u)
    OBVIOUS
  <2>2. c = "backslash" => InString(u, i + 1) /\ c # "quote"
    BY <1>0, <1>3, <2>1
  <2> QED BY <1>2, <2>2
<1>8. t.at = i + 1
  BY <1>1, <1>4 DEF Moves
<1>9. t.escape <=> Escaped(u, (i + 1) + 1)
  <2>1. t.escape <=> ~ s.escape /\ s.inStr /\ c = "backslash"
    BY <1>1 DEF Moves, Scans
  <2> QED BY <1>4, <1>6, <1>7, <2>1
<1>10. t.inStr <=> InString(u, i + 1)
  <2>1. CASE ~ s.escape /\ c = "quote"
    <3>1. t.inStr <=> ~ s.inStr
      BY <1>1, <2>1 DEF Moves, Scans
    <3>2. InString(u, i + 1) <=> ~ InString(u, i)
      BY <1>2, <1>4, <2>1
    <3> QED BY <1>4, <3>1, <3>2
  <2>2. CASE ~ (~ s.escape /\ c = "quote")
    <3>1. t.inStr <=> s.inStr
      BY <1>1, <2>2 DEF Moves, Scans
    <3>2. InString(u, i + 1) <=> InString(u, i)
      BY <1>2, <1>4, <2>2
    <3> QED BY <1>4, <3>1, <3>2
  <2> QED BY <2>1, <2>2
<1>11. PICK a \in Int, b \in Int : a = Unclosed(u, i) /\ b = Unclosed(u, i + 1)
  <2>1. i + 1 \in Nat
    OBVIOUS
  <2>2. Unclosed(u, i) \in Int /\ Unclosed(u, i + 1) \in Int
    BY <2>1, UnclosedType
  <2> QED BY <2>2
<1>12. \/ b = a + 1 /\ t.depth = b /\ t.end = 0
       \/ b = a - 1 /\ t.depth = b /\ t.end = IF a = 1 THEN i + 1 ELSE 0
       \/ b = a /\ t.depth = b /\ t.end = 0
  <2>1. CASE c = "{" /\ ~ s.inStr
    <3>1. ~ s.escape /\ ~ s.inStr /\ c = "{" /\ c # "}"
      BY <1>5, <2>1
    <3>2. t.depth = s.depth + 1 /\ t.end = 0
      BY <1>1, <3>1 DEF Moves
    <3>3. b = a + 1
      BY <1>2, <1>4, <1>11, <3>1
    <3> QED BY <1>4, <1>11, <3>2, <3>3
  <2>2. CASE c = "}" /\ ~ s.inStr
    <3>1. ~ s.escape /\ ~ s.inStr /\ c = "}" /\ c # "{"
      BY <1>5, <2>2
    <3>2. t.depth = s.depth - 1 /\ t.end = IF s.depth = 1 THEN s.at + 1 ELSE 0
      BY <1>1, <3>1 DEF Moves
    <3>3. b = a - 1
      BY <1>2, <1>4, <1>11, <3>1
    <3> QED BY <1>4, <1>11, <3>2, <3>3
  <2>3. CASE ~ (c = "{" /\ ~ s.inStr) /\ ~ (c = "}" /\ ~ s.inStr)
    <3>2. t.depth = s.depth /\ t.end = 0
      BY <1>1, <2>3 DEF Moves
    <3>3. b = a
      BY <1>2, <1>4, <1>11, <2>3
    <3> QED BY <1>4, <1>11, <3>2, <3>3
  <2> QED BY <2>1, <2>2, <2>3
<1>13. t.depth = b
  BY <1>12
<1>14. ASSUME i + 1 < Len(u) PROVE t.end = 0
  <2>1. b > 0
    <3>1. i + 1 \in 1..Len(u) - 1
      BY <1>l, <1>14
    <3> QED BY <1>3, <1>11, <3>1
  <2> QED BY <1>12, <2>1
<1>15. ASSUME i + 1 = Len(u) PROVE t.end = Len(u)
  <2>1. b = 0
    BY <1>3, <1>11, <1>15
  <2>2. CASE i = 0
    <3>0. i + 1 = 1
      BY <2>2
    <3>1. c = "{" /\ a = 0 /\ ~ InString(u, i)
      BY <1>0, <1>n, <1>11, <2>2, <3>0, ScanBegins
    <3>2. b = a + 1
      BY <1>2, <1>11, <3>1
    <3>3. a = 0
      BY <3>1
    <3>4. FALSE
      BY <2>1, <3>2, <3>3
    <3> QED BY <3>4
  <2>3. CASE i # 0
    <3>1. i \in 1..Len(u) - 1
      BY <1>l, <1>15, <2>3
    <3>2. a > 0
      BY <1>3, <1>11, <3>1
    <3>3. a = 1 /\ t.end = i + 1
      BY <1>12, <2>1, <3>2
    <3> QED BY <1>15, <3>3
  <2> QED BY <2>2, <2>3
<1> QED BY <1>0, <1>8, <1>9, <1>10, <1>11, <1>13, <1>14, <1>15 DEF Tracks

\* The end of an object is found where it is, whatever follows; in a part of it no end is.
LEMMA ObjectScanned ==
  ASSUME NEW S, NEW u \in Seq(S), IsObject(u), NEW text \in Seq(S), NEW m \in Nat,
         m <= Len(u), m <= Len(text), \A j \in 1..m : text[j] = u[j],
         NEW f \in [0..Len(text) -> Scans], ScanLoop(text, f)
  PROVE  /\ m < Len(u) => f[m].end = 0
         /\ m = Len(u) => f[m].end = Len(u)
<1>1. PICK A : A = {i \in Nat : i <= m =>
                      /\ i < Len(u) => Tracks(u, f[i], i)
                      /\ i = Len(u) => f[i].end = Len(u)}
  OBVIOUS
<1>2. Len(u) \in Nat /\ Len(u) > 0 /\ Len(text) \in Nat
  BY ObjectLength
<1>3. 0 \in A
  <2>1. f[0] = Began
    BY DEF ScanLoop
  <2>2. Tracks(u, f[0], 0)
    BY <2>1, ScanBegins
  <2> QED BY <1>1, <1>2, <2>2
<1>4. ASSUME NEW i \in A PROVE i + 1 \in A
  <2>1. i \in Nat
    BY <1>1
  <2>2. ASSUME i + 1 <= m
        PROVE  /\ i + 1 < Len(u) => Tracks(u, f[i + 1], i + 1)
               /\ i + 1 = Len(u) => f[i + 1].end = Len(u)
    <3>1. /\ i < Len(u) /\ i <= m /\ i + 1 \in 1..Len(text) /\ i + 1 \in 1..m
          /\ i \in 0..Len(text) /\ (i + 1) - 1 = i
      BY <1>2, <2>1, <2>2
    <3>2. Tracks(u, f[i], i) /\ f[i] \in Scans
      BY <1>1, <3>1
    <3>3. f[i + 1] = Step(f[i], u[i + 1])
      BY <3>1 DEF ScanLoop
    <3>4. /\ i + 1 < Len(u) => Tracks(u, Step(f[i], u[i + 1]), i + 1)
          /\ i + 1 = Len(u) => Step(f[i], u[i + 1]).end = Len(u)
      BY <2>1, <3>1, <3>2, ScanStep
    <3> QED BY <3>3, <3>4
  <2>3. i + 1 \in Nat
    BY <2>1
  <2> QED BY <1>1, <2>2, <2>3
<1>5. A \in SUBSET Nat
  BY <1>1
<1>6. A = Nat
  BY <1>3, <1>4, <1>5, NatInduct
<1>7. /\ m < Len(u) => Tracks(u, f[m], m)
      /\ m = Len(u) => f[m].end = Len(u)
  BY <1>1, <1>6
<1> QED BY <1>7 DEF Tracks

LEMMA ClosingPart ==
  ASSUME NEW S, NEW u \in Seq(S), IsObject(u), NEW text \in Seq(S),
         Len(text) < Len(u), \A j \in 1..Len(text) : text[j] = u[j]
  PROVE  Closing(text) = 0
<1>1. PICK f \in [0..Len(text) -> Scans] : ScanLoop(text, f)
  BY ScanUnfolds
<1>2. PICK m \in Nat : m = Len(text)
  OBVIOUS
<1>3. f[m].end = 0
  <2>1. m <= Len(u) /\ m <= Len(text) /\ m < Len(u) /\ \A j \in 1..m : text[j] = u[j]
    BY <1>2
  <2> QED BY <1>1, <2>1, ObjectScanned
<1> QED BY <1>1, <1>2, <1>3 DEF ScanLoop

LEMMA ClosingWhole ==
  ASSUME NEW S, NEW u \in Seq(S), IsObject(u), NEW text \in Seq(S),
         Len(u) <= Len(text), \A j \in 1..Len(u) : text[j] = u[j]
  PROVE  Closing(text) = Len(u)
<1>1. PICK f \in [0..Len(text) -> Scans] : ScanLoop(text, f)
  BY ScanUnfolds
<1>2. PICK m \in Nat : m = Len(u) /\ m > 0
  BY ObjectLength
<1>3. f[m].end = m
  <2>1. m <= Len(u) /\ m <= Len(text) /\ m = Len(u) /\ \A j \in 1..m : text[j] = u[j]
    BY <1>2
  <2> QED BY <1>1, <1>2, <2>1, ObjectScanned
<1>4. PICK A : A = {k \in Nat : m + k <= Len(text) => f[m + k].end = m}
  OBVIOUS
<1>5. 0 \in A
  BY <1>2, <1>3, <1>4
<1>6. ASSUME NEW k \in A PROVE k + 1 \in A
  <2>1. k \in Nat /\ k + 1 \in Nat
    BY <1>4
  <2>2. ASSUME m + (k + 1) <= Len(text) PROVE f[m + (k + 1)].end = m
    <3>1. m + k <= Len(text) /\ m + (k + 1) \in 1..Len(text) /\ (m + (k + 1)) - 1 = m + k
      BY <1>2, <2>1, <2>2
    <3>2. f[m + k].end = m
      BY <1>4, <3>1
    <3>3. f[m + (k + 1)] = Step(f[m + k], text[m + (k + 1)])
      BY <1>1, <3>1 DEF ScanLoop
    <3>4. Step(f[m + k], text[m + (k + 1)]) = f[m + k]
      <4>1. f[m + k].end # 0
        BY <1>2, <3>2
      <4> QED BY <4>1 DEF Step
    <3> QED BY <3>2, <3>3, <3>4
  <2> QED BY <1>4, <2>1, <2>2
<1>7. A \in SUBSET Nat
  BY <1>4
<1>8. A = Nat
  BY <1>5, <1>6, <1>7, NatInduct
<1>9. PICK k \in Nat : m + k = Len(text)
  <2>1. Len(text) - m \in Nat /\ m + (Len(text) - m) = Len(text)
    BY <1>2
  <2> QED BY <2>1
<1>10. f[m + k].end = m
  <2>1. m + k <= Len(text) /\ k \in A
    BY <1>8, <1>9
  <2> QED BY <1>4, <2>1
<1> QED BY <1>1, <1>2, <1>9, <1>10 DEF ScanLoop

-------------------------------------------------------------------------------
(* A recursion that goes on with a shorter sequence.                          *)

Maps(T) == [T -> T]

LEMMA NatRecursion ==
  ASSUME NEW T, NEW b \in T, NEW g \in Maps(T)
  PROVE  \E h \in [Nat -> T] : h[0] = b /\ \A k \in Nat : h[k + 1] = g[h[k]]
<1>1. PICK step : step = [p \in T \X {0} |-> g[p[1]]]
  OBVIOUS
<1>2. step \in Steps({0}, T) /\ \A x \in T : step[<<x, 0>>] = g[x]
  BY <1>1 DEF Steps, Maps
<1>3. PICK F \in [Seq({0}) -> T] :
        \A s \in Seq({0}) : F[s] = IF s = <<>> THEN b ELSE step[<<F[Front(s)], Last(s)>>]
  <2>1. PICK Elems : Elems = {0}
    OBVIOUS
  <2>2. step \in Steps(Elems, T)
    BY <1>2, <2>1
  <2>3. \E f \in [Seq(Elems) -> T] :
          \A s \in Seq(Elems) : f[s] = IF s = <<>> THEN b ELSE step[<<f[Front(s)], Last(s)>>]
    BY <2>2, Recursion
  <2> QED BY <2>1, <2>3
<1>4. PICK I : I = [k \in Nat |-> [j \in 1..k |-> 0]]
  OBVIOUS
<1>5. ASSUME NEW k \in Nat
      PROVE  I[k] \in Seq({0}) /\ Len(I[k]) = k /\ \A j \in 1..k : I[k][j] = 0
  <2>1. PICK u : u = [j \in 1..k |-> 0]
    OBVIOUS
  <2>2. u \in Seq({0}) /\ Len(u) = k /\ \A j \in 1..k : u[j] = 0
    BY <2>1
  <2> QED BY <1>4, <2>1, <2>2
<1>6. I[0] = <<>>
  BY <1>5
<1>7. ASSUME NEW k \in Nat
      PROVE  I[k + 1] # <<>> /\ Front(I[k + 1]) = I[k] /\ Last(I[k + 1]) = 0
  <2>1. k + 1 \in Nat
    OBVIOUS
  <2>2. PICK u \in Seq({0}), v \in Seq({0}) : u = I[k + 1] /\ v = I[k]
    BY <1>5, <2>1
  <2>3. /\ Len(u) = k + 1 /\ (\A j \in 1..(k + 1) : u[j] = 0)
        /\ Len(v) = k /\ (\A j \in 1..k : v[j] = 0)
    BY <1>5, <2>1, <2>2
  <2>4. PICK t : t = Append(v, 0)
    OBVIOUS
  <2>5. t \in Seq({0}) /\ Len(t) = k + 1 /\ \A j \in 1..(k + 1) : t[j] = 0
    <3>1. t \in Seq({0}) /\ Len(t) = Len(v) + 1 /\ t[Len(v) + 1] = 0
          /\ \A j \in 1..Len(v) : t[j] = v[j]
      BY <2>4, AppendProperties
    <3> QED BY <2>3, <3>1
  <2>6. u = t
    BY <2>3, <2>5, SeqEqual
  <2>7. Append(v, 0) # <<>> /\ Front(Append(v, 0)) = v /\ Last(Append(v, 0)) = 0
    <3>1. 0 \in {0}
      OBVIOUS
    <3> QED BY <3>1, FrontAppend
  <2> QED BY <2>2, <2>4, <2>6, <2>7
<1>8. PICK h : h = [k \in Nat |-> F[I[k]]]
  OBVIOUS
<1>9. h \in [Nat -> T]
  BY <1>3, <1>5, <1>8
<1>10. h[0] = b
  <2>1. I[0] \in Seq({0})
    BY <1>5
  <2>2. F[I[0]] = b
    BY <1>3, <1>6, <2>1
  <2> QED BY <1>8, <2>2
<1>11. ASSUME NEW k \in Nat PROVE h[k + 1] = g[h[k]]
  <2>1. k + 1 \in Nat
    OBVIOUS
  <2>2. I[k + 1] \in Seq({0})
    BY <1>5, <2>1
  <2>3. F[I[k + 1]] = step[<<F[I[k]], 0>>]
    BY <1>3, <1>7, <2>2
  <2>4. F[I[k]] \in T
    BY <1>3, <1>5
  <2> QED BY <1>2, <1>8, <2>1, <2>3, <2>4
<1> QED BY <1>9, <1>10, <1>11

Shrinks(S, V, own, next) ==
  /\ own \in [Seq(S) -> Seq(V)] /\ next \in [Seq(S) -> Seq(S)]
  /\ \A s \in Seq(S) : s # <<>> => Len(next[s]) < Len(s)

LEMMA Shrinking ==
  ASSUME NEW S, NEW V, NEW own, NEW next, Shrinks(S, V, own, next)
  PROVE  \E f \in [Seq(S) -> Seq(V)] :
           \A s \in Seq(S) : f[s] = IF s = <<>> THEN <<>> ELSE own[s] \o f[next[s]]
<1>1. PICK D, T, b : D = Seq(S) /\ T = [Seq(S) -> Seq(V)] /\ b = [s \in Seq(S) |-> <<>>]
  OBVIOUS
<1>2. b \in T /\ \A s \in D : b[s] = <<>>
  <2>1. <<>> \in Seq(V)
    OBVIOUS
  <2> QED BY <1>1, <2>1
<1>3. PICK g : g = [h \in T |-> [s \in D |-> IF s = <<>> THEN <<>> ELSE own[s] \o h[next[s]]]]
  OBVIOUS
<1>4. ASSUME NEW h \in T
      PROVE  /\ g[h] \in T
             /\ \A s \in D : g[h][s] = IF s = <<>> THEN <<>> ELSE own[s] \o h[next[s]]
  <2>1. PICK k : k = [s \in D |-> IF s = <<>> THEN <<>> ELSE own[s] \o h[next[s]]]
    OBVIOUS
  <2>2. g[h] = k
    BY <1>3, <2>1
  <2>3. \A s \in D : k[s] = IF s = <<>> THEN <<>> ELSE own[s] \o h[next[s]]
    BY <2>1
  <2>4. ASSUME NEW s \in D
        PROVE (IF s = <<>> THEN <<>> ELSE own[s] \o h[next[s]]) \in Seq(V)
    <3>1. <<>> \in Seq(V)
      OBVIOUS
    <3>2. own[s] \in Seq(V) /\ h[next[s]] \in Seq(V)
      BY <1>1 DEF Shrinks
    <3>3. own[s] \o h[next[s]] \in Seq(V)
      BY <3>2
    <3> QED BY <3>1, <3>3
  <2>5. k \in T
    BY <1>1, <2>1, <2>4
  <2> QED BY <2>2, <2>3, <2>5
<1>5. PICK h \in [Nat -> T] : h[0] = b /\ \A k \in Nat : h[k + 1] = g[h[k]]
  <2>1. g \in Maps(T)
    BY <1>3, <1>4 DEF Maps
  <2>2. b \in T
    BY <1>2
  <2> QED BY <2>1, <2>2, NatRecursion
<1>6. \A s \in D : Len(s) \in Nat /\ next[s] \in D /\ (s # <<>> => Len(next[s]) < Len(s))
  BY <1>1 DEF Shrinks
<1>7. \A k \in Nat : h[k] \in T /\ h[k + 1] \in T
             /\ \A s \in D : h[k + 1][s] = IF s = <<>> THEN <<>> ELSE own[s] \o h[k][next[s]]
  <2> TAKE k \in Nat
  <2>1. h[k] \in T /\ h[k + 1] = g[h[k]]
    BY <1>5
  <2> QED BY <1>4, <2>1
<1>8. PICK A : A = {k \in Nat : \A s \in D : Len(s) <= k => h[k + 1][s] = h[k][s]}
  OBVIOUS
<1>9. 0 \in A
  <2>1. ASSUME NEW s \in D, Len(s) <= 0 PROVE h[0 + 1][s] = h[0][s]
    <3>1. s \in Seq(S) /\ Len(s) = 0
      BY <1>1, <1>6, <2>1
    <3>2. s = <<>>
      BY <3>1, EmptySeq
    <3>3. 0 \in Nat
      OBVIOUS
    <3>4. h[0 + 1][s] = <<>>
      BY <1>7, <3>2, <3>3
    <3> QED BY <1>2, <1>5, <3>4
  <2> QED BY <1>8, <2>1
<1>10. ASSUME NEW k \in A PROVE k + 1 \in A
  <2>1. k \in Nat /\ k + 1 \in Nat
    BY <1>8
  <2>2. ASSUME NEW s \in D, Len(s) <= k + 1 PROVE h[(k + 1) + 1][s] = h[k + 1][s]
    <3>1. CASE s = <<>>
      BY <1>7, <2>1, <3>1
    <3>2. CASE s # <<>>
      <4>1. next[s] \in D /\ Len(next[s]) <= k
        BY <1>6, <2>1, <2>2, <3>2
      <4>2. h[k + 1][next[s]] = h[k][next[s]]
        BY <1>8, <4>1
      <4>3. /\ h[(k + 1) + 1][s] = own[s] \o h[k + 1][next[s]]
            /\ h[k + 1][s] = own[s] \o h[k][next[s]]
        BY <1>7, <2>1, <3>2
      <4> QED BY <4>2, <4>3
    <3> QED BY <3>1, <3>2
  <2> QED BY <1>8, <2>1, <2>2
<1>11. A \in SUBSET Nat
  BY <1>8
<1>12. A = Nat
  BY <1>9, <1>10, <1>11, NatInduct
<1>13. PICK B : B = {k \in Nat : \A s \in D : h[Len(s) + k][s] = h[Len(s)][s]}
  OBVIOUS
<1>14. 0 \in B
  <2>1. \A s \in D : Len(s) + 0 = Len(s)
    BY <1>6
  <2> QED BY <1>13, <2>1
<1>15. ASSUME NEW k \in B PROVE k + 1 \in B
  <2>1. k \in Nat /\ k + 1 \in Nat
    BY <1>13
  <2>2. ASSUME NEW s \in D PROVE h[Len(s) + (k + 1)][s] = h[Len(s)][s]
    <3>1. PICK n \in Nat : n = Len(s) + k
      BY <1>6, <2>1
    <3>2. Len(s) <= n /\ Len(s) + (k + 1) = n + 1 /\ n \in A
      BY <1>6, <1>12, <2>1, <3>1
    <3>3. h[n + 1][s] = h[n][s]
      BY <1>8, <3>2
    <3>4. h[n][s] = h[Len(s)][s]
      BY <1>13, <3>1
    <3> QED BY <3>2, <3>3, <3>4
  <2> QED BY <1>13, <2>1, <2>2
<1>16. B \in SUBSET Nat
  BY <1>13
<1>17. B = Nat
  BY <1>14, <1>15, <1>16, NatInduct
<1>18. PICK f : f = [s \in D |-> h[Len(s)][s]]
  OBVIOUS
<1>19. f \in [Seq(S) -> Seq(V)]
  <2>1. \A s \in D : h[Len(s)][s] \in Seq(V)
    BY <1>1, <1>6, <1>7
  <2> QED BY <1>1, <1>18, <2>1
<1>20. ASSUME NEW s \in Seq(S)
       PROVE  f[s] = IF s = <<>> THEN <<>> ELSE own[s] \o f[next[s]]
  <2>0. s \in D
    BY <1>1
  <2>1. CASE s = <<>>
    <3>1. Len(s) = 0
      BY <2>1
    <3>2. h[Len(s)][s] = <<>>
      BY <1>2, <1>5, <2>0, <3>1
    <3> QED BY <1>18, <2>0, <2>1, <3>2
  <2>2. CASE s # <<>>
    <3>1. PICK n \in Nat : Len(s) = n + 1
      <4>1. Len(s) \in Nat /\ Len(s) # 0
        BY <2>2, EmptySeq
      <4>2. Len(s) - 1 \in Nat /\ Len(s) = (Len(s) - 1) + 1
        BY <4>1
      <4> QED BY <4>2
    <3>2. PICK m \in Nat, k \in Nat : m = Len(next[s]) /\ n = m + k
      <4>1. Len(next[s]) \in Nat /\ Len(next[s]) <= n
        BY <1>6, <2>0, <2>2, <3>1
      <4>2. n - Len(next[s]) \in Nat /\ n = Len(next[s]) + (n - Len(next[s]))
        BY <4>1
      <4> QED BY <4>1, <4>2
    <3>3. next[s] \in D
      BY <1>6, <2>0
    <3>4. h[n][next[s]] = h[m][next[s]]
      BY <1>13, <1>17, <3>2, <3>3
    <3>5. h[n + 1][s] = own[s] \o h[n][next[s]]
      BY <1>7, <2>0, <2>2
    <3>6. f[s] = h[n + 1][s] /\ f[next[s]] = h[m][next[s]]
      BY <1>18, <2>0, <3>1, <3>2, <3>3
    <3> QED BY <2>2, <3>4, <3>5, <3>6
  <2> QED BY <2>1, <2>2
<1> QED BY <1>19, <1>20

-------------------------------------------------------------------------------
(* What Extract makes of a text, from its beginning.                          *)

\* A text without its first k marks.
Rest(t, k) == SubSeq(t, k + 1, Len(t))

LEMMA RestFacts ==
  ASSUME NEW S, NEW t \in Seq(S), NEW k \in 0..Len(t)
  PROVE  /\ Rest(t, k) \in Seq(S) /\ Len(Rest(t, k)) = Len(t) - k
         /\ \A j \in 1..Len(t) - k : Rest(t, k)[j] = t[k + j]
<1>1. PICK n \in Nat : n = Len(t) /\ k \in Nat /\ k <= n
  OBVIOUS
<1>2. \A i \in k + 1..n : t[i] \in S
  BY <1>1
<1>3. k + 1 \in Int /\ n \in Int
  BY <1>1
<1>4. /\ SubSeq(t, k + 1, n) \in Seq(S)
      /\ Len(SubSeq(t, k + 1, n)) = IF k + 1 <= n THEN n - (k + 1) + 1 ELSE 0
      /\ \A i \in 1..n - (k + 1) + 1 : SubSeq(t, k + 1, n)[i] = t[(k + 1) + i - 1]
  BY <1>2, <1>3, SubSeqProperties
<1>5. n - (k + 1) + 1 = n - k /\ (\A i \in Int : (k + 1) + i - 1 = k + i)
      /\ (~ k + 1 <= n => n - k = 0)
  BY <1>1
<1>6. Rest(t, k) = SubSeq(t, k + 1, n)
  BY <1>1 DEF Rest
<1>7. Len(SubSeq(t, k + 1, n)) = n - k
  BY <1>4, <1>5
<1>8. \A i \in 1..n - k : SubSeq(t, k + 1, n)[i] = t[k + i]
  BY <1>4, <1>5
<1> QED BY <1>1, <1>4, <1>6, <1>7, <1>8

LEMMA RestRest ==
  ASSUME NEW S, NEW t \in Seq(S), NEW k \in Nat, NEW j \in Nat, k + j <= Len(t)
  PROVE  Rest(Rest(t, k), j) = Rest(t, k + j)
<1>r. PICK r : r = Rest(t, k)
  OBVIOUS
<1>1. PICK n \in Nat : n = Len(t)
  OBVIOUS
<1>2. k \in 0..n /\ k + j \in 0..n /\ j \in 0..n - k /\ n - k - j = n - (k + j)
  BY <1>1
<1>3. /\ r \in Seq(S) /\ Len(r) = n - k /\ \A i \in 1..n - k : r[i] = t[k + i]
  BY <1>r, <1>1, <1>2, RestFacts
<1>4. PICK a, b : a = Rest(r, j) /\ b = Rest(t, k + j)
  OBVIOUS
<1>5. /\ a \in Seq(S) /\ Len(a) = n - k - j /\ \A i \in 1..n - k - j : a[i] = r[j + i]
  <2>1. j \in 0..Len(r) /\ r \in Seq(S)
    BY <1>2, <1>3
  <2>2. /\ a \in Seq(S) /\ Len(a) = Len(r) - j /\ \A i \in 1..Len(r) - j : a[i] = r[j + i]
    BY <1>4, <2>1, RestFacts
  <2> QED BY <1>3, <2>2
<1>6. /\ b \in Seq(S) /\ Len(b) = n - (k + j) /\ \A i \in 1..n - (k + j) : b[i] = t[(k + j) + i]
  BY <1>1, <1>2, <1>4, RestFacts
<1>7. \A i \in 1..n - (k + j) : j + i \in 1..n - k /\ k + (j + i) = (k + j) + i
  BY <1>2
<1>8. \A i \in 1..n - (k + j) : a[i] = b[i]
  BY <1>2, <1>3, <1>5, <1>6, <1>7
<1>9. a = b
  BY <1>2, <1>5, <1>6, <1>8, SeqEqual
<1> QED BY <1>r, <1>4, <1>9

LEMMA RestBehind ==
  ASSUME NEW S, NEW u \in Seq(S), NEW w \in Seq(S)
  PROVE  /\ u \o w \in Seq(S) /\ Len(u) \in 0..Len(u \o w) /\ Rest(u \o w, Len(u)) = w
         /\ \A j \in 1..Len(u) : (u \o w)[j] = u[j]
<1>1. PICK t : t = u \o w
  OBVIOUS
<1>2. PICK p \in Nat, q \in Nat : p = Len(u) /\ q = Len(w)
  OBVIOUS
<1>3. t \in Seq(S) /\ Joins(t, u, p, w, q)
  BY <1>1, <1>2, Behind
<1>4. Len(t) = p + q /\ p \in 0..Len(t) /\ Len(t) - p = q
  BY <1>2, <1>3 DEF Joins
<1>5. PICK r : r = Rest(t, p)
  OBVIOUS
<1>6. r \in Seq(S) /\ Len(r) = q /\ \A j \in 1..q : r[j] = t[p + j]
  BY <1>3, <1>4, <1>5, RestFacts
<1>7. \A j \in 1..q : r[j] = w[j]
  BY <1>3, <1>6 DEF Joins
<1>8. r = w
  BY <1>2, <1>6, <1>7, SeqEqual
<1>9. \A j \in 1..p : t[j] = u[j]
  BY <1>3 DEF Joins
<1> QED BY <1>1, <1>2, <1>3, <1>4, <1>5, <1>8, <1>9

LEMMA ClosingType ==
  ASSUME NEW S, NEW text \in Seq(S)
  PROVE  Closing(text) \in 0..Len(text)
<1>1. PICK f \in [0..Len(text) -> Scans] : ScanLoop(text, f)
  BY ScanUnfolds
<1>2. PICK n \in Nat : n = Len(text)
  OBVIOUS
<1>3. PICK A : A = {i \in Nat : i <= n => /\ f[i].end \in 0..i
                                          /\ f[i].end = 0 => f[i].at = i}
  OBVIOUS
<1>4. 0 \in A
  BY <1>1, <1>3 DEF ScanLoop, Began
<1>5. ASSUME NEW i \in A PROVE i + 1 \in A
  <2>1. i \in Nat /\ i + 1 \in Nat
    BY <1>3
  <2>2. ASSUME i + 1 <= n
        PROVE  f[i + 1].end \in 0..i + 1 /\ (f[i + 1].end = 0 => f[i + 1].at = i + 1)
    <3>1. i <= n /\ i \in 0..Len(text) /\ i + 1 \in 1..Len(text) /\ (i + 1) - 1 = i
      BY <1>2, <2>1, <2>2
    <3>2. /\ f[i].end \in 0..i /\ (f[i].end = 0 => f[i].at = i) /\ f[i] \in Scans
      BY <1>3, <3>1
    <3>3. f[i + 1] = Step(f[i], text[i + 1])
      BY <1>1, <3>1 DEF ScanLoop
    <3>4. CASE f[i].end # 0
      <4>1. f[i + 1] = f[i]
        BY <3>3, <3>4 DEF Step
      <4> QED BY <2>1, <3>2, <3>4, <4>1
    <3>5. CASE f[i].end = 0
      <4>1. PICK s \in Scans, t \in Scans : s = f[i] /\ t = f[i + 1] /\ Moves(s, text[i + 1], t)
        BY <3>2, <3>3, <3>5, StepMoves
      <4>2. s.at = i
        BY <3>2, <3>5, <4>1
      <4>3. t.at = i + 1 /\ (t.end = 0 \/ t.end = i + 1)
        BY <4>1, <4>2 DEF Moves
      <4> QED BY <2>1, <4>1, <4>3
    <3> QED BY <3>4, <3>5
  <2> QED BY <1>3, <2>1, <2>2
<1>6. A \in SUBSET Nat
  BY <1>3
<1>7. A = Nat
  BY <1>4, <1>5, <1>6, NatInduct
<1>8. n \in A /\ n <= n
  BY <1>7
<1>9. f[n].end \in 0..n
  BY <1>3, <1>8
<1> QED BY <1>1, <1>2, <1>9 DEF ScanLoop

LEMMA ObjectFacts ==
  ASSUME NEW S, NEW text \in Seq(S), text # <<>>
  PROVE  /\ Object(text) \in Seq(S)
         /\ Past(text) \in 1..Len(text)
         /\ \A j \in 1..Len(Object(text)) : j <= Len(text) /\ Object(text)[j] = text[j]
         /\ Object(text) # <<>> => Holds(Object(text), Sentinel)
         /\ text[1] # "{" \/ Closing(text) = 0 => Object(text) = <<>>
<1>1. PICK c \in 0..Len(text) : c = Closing(text)
  BY ClosingType
<1>2. PICK o : o = SubSeq(text, 1, c)
  OBVIOUS
<1>3. o \in Seq(S) /\ Len(o) = c /\ \A j \in 1..c : o[j] = text[j]
  BY <1>1, <1>2, CutFacts
<1>4. Object(text) = IF text[1] = "{" /\ Holds(o, Sentinel) THEN o ELSE <<>>
  BY <1>1, <1>2 DEF Object
<1>5. Len(text) \in Nat /\ Len(text) # 0
  BY EmptySeq
<1>6. <<>> \in Seq(S) /\ Len(<<>>) = 0
  OBVIOUS
<1>7. CASE Object(text) = <<>>
  <2>1. Past(text) = 1
    BY <1>7 DEF Past
  <2> QED BY <1>5, <1>6, <1>7, <2>1
<1>8. CASE Object(text) # <<>>
  <2>1. Object(text) = o /\ Holds(o, Sentinel) /\ text[1] = "{"
    BY <1>4, <1>8
  <2>2. Len(o) # 0
    BY <1>3, <1>8, <2>1, EmptySeq
  <2>3. Past(text) = Len(o)
    BY <1>8, <2>1 DEF Past
  <2>4. Len(o) \in 1..Len(text)
    BY <1>1, <1>3, <1>5, <2>2
  <2>5. c # 0
    BY <1>3, <2>2
  <2>6. \A j \in 1..Len(o) : j <= Len(text) /\ o[j] = text[j]
    BY <1>1, <1>3, <1>5
  <2> QED BY <1>1, <1>3, <2>1, <2>3, <2>4, <2>5, <2>6
<1> QED BY <1>7, <1>8

\* What the commands are made of.
Readings == {Json[obj] : obj \in DOMAIN Json}

LEMMA AcceptedType ==
  ASSUME NEW obj
  PROVE  Accepted(obj) \in Seq(Readings)
<1>1. <<>> \in Seq(Readings)
  OBVIOUS
<1>2. CASE obj # <<>> /\ IsCommand(obj)
  <2>1. Json[obj] \in Readings
    BY <1>2 DEF IsCommand, Readings
  <2>2. <<Json[obj]>> \in Seq(Readings)
    BY <2>1
  <2> QED BY <1>2, <2>2 DEF Accepted
<1>3. CASE ~ (obj # <<>> /\ IsCommand(obj))
  BY <1>1, <1>3 DEF Accepted
<1> QED BY <1>2, <1>3

\* Extract accepts what is in front, and goes on behind it.
LEMMA CommandsUnfolds ==
  ASSUME NEW text \in Seq(STRING)
  PROVE  /\ Commands(text) \in Seq(Readings)
         /\ text = <<>> => Commands(text) = <<>>
         /\ text # <<>> => Commands(text) =
                             Accepted(Object(text)) \o Commands(Rest(text, Past(text)))
<1>1. PICK D : D = Seq(STRING)
  OBVIOUS
<1>2. PICK own, next :
        /\ own = [s \in D |-> Accepted(Object(s))]
        /\ next = [s \in D |-> IF s = <<>> THEN s ELSE Rest(s, Past(s))]
  OBVIOUS
<1>3. ASSUME NEW s \in D, s # <<>>
      PROVE  Rest(s, Past(s)) \in D /\ Len(Rest(s, Past(s))) < Len(s)
  <2>1. s \in Seq(STRING)
    BY <1>1
  <2>2. PICK k \in 1..Len(s) : k = Past(s)
    BY <1>3, <2>1, ObjectFacts
  <2>3. k \in 0..Len(s)
    BY <2>2
  <2>4. Rest(s, k) \in Seq(STRING) /\ Len(Rest(s, k)) = Len(s) - k
    BY <2>1, <2>3, RestFacts
  <2>5. Len(s) \in Nat
    BY <2>1
  <2> QED BY <1>1, <2>2, <2>4, <2>5
<1>4. Shrinks(STRING, Readings, own, next)
  <2>1. own \in [D -> Seq(Readings)]
    BY <1>2, AcceptedType
  <2>2. next \in [D -> D]
    BY <1>2, <1>3
  <2>3. \A s \in D : s # <<>> => Len(next[s]) < Len(s)
    BY <1>2, <1>3
  <2> QED BY <1>1, <2>1, <2>2, <2>3 DEF Shrinks
<1>5. PICK f \in [D -> Seq(Readings)] :
        \A s \in D : f[s] = IF s = <<>> THEN <<>> ELSE own[s] \o f[next[s]]
  BY <1>1, <1>4, Shrinking
<1>6. \A s \in D : f[s] = IF s = <<>> THEN <<>>
                          ELSE Accepted(Object(s)) \o f[Rest(s, Past(s))]
  BY <1>2, <1>5
<1>7. f = [s \in D |-> IF s = <<>> THEN <<>>
                       ELSE Accepted(Object(s)) \o f[Rest(s, Past(s))]]
  BY <1>5, <1>6
<1> DEFINE Found == CHOOSE found : found = [rest \in Seq(STRING) |->
              IF rest = <<>> THEN <<>>
              ELSE Accepted(Object(rest)) \o found[SubSeq(rest, Past(rest) + 1, Len(rest))]]
<1>8. Found = [s \in D |-> IF s = <<>> THEN <<>>
                           ELSE Accepted(Object(s)) \o Found[Rest(s, Past(s))]]
  BY <1>1, <1>7 DEF Rest
<1>9. \A s \in Seq(STRING) : Commands(s) = Found[s]
  BY DEF Commands
<1> HIDE DEF Found
<1>10. PICK k : k = Found
  OBVIOUS
<1>11. k = [s \in D |-> IF s = <<>> THEN <<>>
                        ELSE Accepted(Object(s)) \o k[Rest(s, Past(s))]]
  BY <1>8, <1>10
<1>12. \A s \in D : k[s] = IF s = <<>> THEN <<>>
                           ELSE Accepted(Object(s)) \o k[Rest(s, Past(s))]
  BY <1>11
<1>13. PICK A : A = {n \in Nat : \A s \in D : Len(s) <= n => k[s] \in Seq(Readings)}
  OBVIOUS
<1>14. 0 \in A
  <2>1. ASSUME NEW s \in D, Len(s) <= 0 PROVE k[s] \in Seq(Readings)
    <3>1. s \in Seq(STRING) /\ Len(s) = 0
      BY <1>1, <2>1
    <3>2. s = <<>>
      BY <3>1, EmptySeq
    <3>3. <<>> \in Seq(Readings)
      OBVIOUS
    <3> QED BY <1>12, <3>2, <3>3
  <2> QED BY <1>13, <2>1
<1>15. ASSUME NEW n \in A PROVE n + 1 \in A
  <2>1. n \in Nat /\ n + 1 \in Nat
    BY <1>13
  <2>2. ASSUME NEW s \in D, Len(s) <= n + 1 PROVE k[s] \in Seq(Readings)
    <3>1. CASE s = <<>>
      <4>1. <<>> \in Seq(Readings)
        OBVIOUS
      <4> QED BY <1>12, <3>1, <4>1
    <3>2. CASE s # <<>>
      <4>1. PICK r \in D : r = Rest(s, Past(s)) /\ Len(r) < Len(s)
        BY <1>3, <3>2
      <4>2. Len(r) \in Nat /\ Len(s) \in Nat
        BY <1>1
      <4>3. Len(r) <= n
        BY <2>1, <2>2, <4>1, <4>2
      <4>4. k[r] \in Seq(Readings)
        BY <1>13, <4>3
      <4>5. PICK a \in Seq(Readings) : a = Accepted(Object(s))
        BY AcceptedType
      <4>6. a \o k[r] \in Seq(Readings)
        BY <4>4, <4>5
      <4> QED BY <1>12, <3>2, <4>1, <4>5, <4>6
    <3> QED BY <3>1, <3>2
  <2> QED BY <1>13, <2>1, <2>2
<1>16. A \in SUBSET Nat
  BY <1>13
<1>17. A = Nat
  BY <1>14, <1>15, <1>16, NatInduct
<1>18. text \in D /\ Len(text) \in Nat /\ Len(text) <= Len(text)
  BY <1>1
<1>19. k[text] \in Seq(Readings)
  BY <1>13, <1>17, <1>18
<1>20. Commands(text) = k[text]
  BY <1>9, <1>10
<1>21. ASSUME text # <<>>
       PROVE  Commands(text) = Accepted(Object(text)) \o Commands(Rest(text, Past(text)))
  <2>1. Rest(text, Past(text)) \in Seq(STRING)
    BY <1>1, <1>3, <1>18, <1>21
  <2>2. Commands(Rest(text, Past(text))) = k[Rest(text, Past(text))]
    BY <1>9, <1>10, <2>1
  <2> QED BY <1>12, <1>18, <1>20, <1>21, <2>2
<1> QED BY <1>12, <1>18, <1>19, <1>20, <1>21

\* Marks at which no object begins that Extract could take are passed over.
LEMMA PassOver ==
  ASSUME NEW t \in Seq(STRING), NEW k \in Nat, k <= Len(t),
         \A i \in 0..k - 1 : Object(Rest(t, i)) = <<>>
  PROVE  Commands(t) = Commands(Rest(t, k))
<1>1. PICK n \in Nat : n = Len(t)
  OBVIOUS
<1>2. PICK A : A = {i \in Nat : i <= k => Commands(t) = Commands(Rest(t, i))}
  OBVIOUS
<1>3. 0 \in A
  <2>1. SubSeq(t, 0 + 1, Len(t)) = SubSeq(t, 1, Len(t))
    OBVIOUS
  <2>2. SubSeq(t, 1, Len(t)) = t
    BY CutWhole
  <2>3. Rest(t, 0) = t
    BY <2>1, <2>2 DEF Rest
  <2> QED BY <1>2, <2>3
<1>4. ASSUME NEW i \in A PROVE i + 1 \in A
  <2>1. i \in Nat /\ i + 1 \in Nat
    BY <1>2
  <2>2. ASSUME i + 1 <= k PROVE Commands(t) = Commands(Rest(t, i + 1))
    <3>1. i \in 0..Len(t) /\ i \in 0..k - 1 /\ i <= k /\ i + 1 <= Len(t)
      BY <1>1, <2>1, <2>2
    <3>2. PICK r : r = Rest(t, i)
      OBVIOUS
    <3>3. r \in Seq(STRING) /\ Len(r) = Len(t) - i
      BY <3>1, <3>2, RestFacts
    <3>4. r # <<>>
      <4>1. Len(r) # 0
        BY <1>1, <3>1, <3>3
      <4> QED BY <4>1
    <3>5. Object(r) = <<>>
      BY <3>1, <3>2
    <3>6. Past(r) = 1 /\ Accepted(Object(r)) = <<>>
      BY <3>5 DEF Past, Accepted
    <3>7. Commands(r) = <<>> \o Commands(Rest(r, 1))
      BY <3>3, <3>4, <3>6, CommandsUnfolds
    <3>8. Rest(r, 1) = Rest(t, i + 1)
      <4>1. 1 \in Nat
        OBVIOUS
      <4> QED BY <2>1, <3>1, <3>2, <4>1, RestRest
    <3>9. Rest(r, 1) \in Seq(STRING)
      <4>1. 1 \in 0..Len(r)
        BY <1>1, <3>1, <3>3
      <4> QED BY <3>3, <4>1, RestFacts
    <3>10. Commands(Rest(r, 1)) \in Seq(Readings)
      BY <3>9, CommandsUnfolds
    <3>11. <<>> \o Commands(Rest(r, 1)) = Commands(Rest(r, 1))
      BY <3>10, ConcatEmptySeq
    <3>12. Commands(t) = Commands(r)
      BY <1>2, <3>1, <3>2
    <3> QED BY <3>7, <3>8, <3>11, <3>12
  <2> QED BY <1>2, <2>1, <2>2
<1>5. A \in SUBSET Nat
  BY <1>2
<1>6. A = Nat
  BY <1>3, <1>4, <1>5, NatInduct
<1>7. k \in A /\ k <= k
  BY <1>6
<1> QED BY <1>2, <1>7

\* The mark of a rest that it begins with.
LEMMA RestFirst ==
  ASSUME NEW S, NEW t \in Seq(S), NEW i \in Nat, i < Len(t)
  PROVE  Rest(t, i) \in Seq(S) /\ Rest(t, i) # <<>> /\ Rest(t, i)[1] = t[i + 1]
<1>1. PICK n \in Nat : n = Len(t)
  OBVIOUS
<1>2. i \in 0..Len(t) /\ 1 \in 1..Len(t) - i
  BY <1>1
<1>3. PICK r : r = Rest(t, i)
  OBVIOUS
<1>4. r \in Seq(S) /\ Len(r) = Len(t) - i /\ \A j \in 1..Len(t) - i : r[j] = t[i + j]
  BY <1>2, <1>3, RestFacts
<1>5. r[1] = t[i + 1] /\ Len(r) # 0
  BY <1>1, <1>2, <1>4
<1>6. r # <<>>
  BY <1>5
<1> QED BY <1>3, <1>4, <1>5, <1>6

\* No object begins in u that Extract could take.
Passed(u, w) == \A i \in 1..Len(u) : u[i] = "{" => Object(Rest(u \o w, i - 1)) = <<>>

LEMMA PassPlain ==
  ASSUME NEW u \in Seq(STRING), NEW w \in Seq(STRING), Passed(u, w)
  PROVE  Commands(u \o w) = Commands(w)
<1>1. PICK t : t = u \o w
  OBVIOUS
<1>2. /\ t \in Seq(STRING) /\ Len(u) \in 0..Len(t) /\ Rest(t, Len(u)) = w
      /\ \A j \in 1..Len(u) : t[j] = u[j]
  BY <1>1, RestBehind
<1>3. PICK p \in Nat, n \in Nat : p = Len(u) /\ n = Len(t) /\ p <= n
  <2>1. Len(u) \in Nat
    OBVIOUS
  <2>2. t \in Seq(STRING) /\ Len(u) \in 0..Len(t)
    BY <1>2
  <2>3. Len(t) \in Nat
    BY <2>2
  <2>4. Len(u) <= Len(t)
    BY <2>1, <2>2, <2>3
  <2> QED BY <2>1, <2>3, <2>4
<1>4. ASSUME NEW i \in 0..p - 1 PROVE Object(Rest(t, i)) = <<>>
  <2>1. i \in Nat /\ i < Len(t) /\ i + 1 \in 1..Len(u) /\ (i + 1) - 1 = i
    BY <1>3
  <2>2. Rest(t, i) \in Seq(STRING) /\ Rest(t, i) # <<>> /\ Rest(t, i)[1] = u[i + 1]
    BY <1>2, <2>1, RestFirst
  <2>3. CASE u[i + 1] = "{"
    BY <1>1, <2>1, <2>3 DEF Passed
  <2>4. CASE u[i + 1] # "{"
    BY <2>2, <2>4, ObjectFacts
  <2> QED BY <2>3, <2>4
<1>5. Commands(t) = Commands(Rest(t, p))
  <2>1. p <= Len(t)
    BY <1>3
  <2> QED BY <1>2, <1>4, <2>1, PassOver
<1> QED BY <1>1, <1>2, <1>3, <1>5

\* In front of any text, an object is found to be one.
LEMMA ObjectFront ==
  ASSUME NEW u \in Seq(STRING), IsObject(u), NEW w \in Seq(STRING)
  PROVE  /\ u \o w \in Seq(STRING) /\ u \o w # <<>> /\ u # <<>>
         /\ Rest(u \o w, Len(u)) = w
         /\ Object(u \o w) = IF Holds(u, Sentinel) THEN u ELSE <<>>
<1>1. PICK t : t = u \o w
  OBVIOUS
<1>2. /\ t \in Seq(STRING) /\ Len(u) \in 0..Len(t) /\ Rest(t, Len(u)) = w
      /\ \A j \in 1..Len(u) : t[j] = u[j]
  BY <1>1, RestBehind
<1>3. Len(u) \in Nat /\ Len(u) > 0
  BY ObjectLength
<1>4. Len(u) <= Len(t) /\ 1 \in 1..Len(u) /\ Len(t) # 0 /\ Len(t) \in Nat
  BY <1>2, <1>3
<1>5. Closing(t) = Len(u)
  BY <1>2, <1>4, ClosingWhole
<1>6. SubSeq(t, 1, Len(u)) = u
  <2>1. PICK s : s = SubSeq(t, 1, Len(u))
    OBVIOUS
  <2>2. s \in Seq(STRING) /\ Len(s) = Len(u) /\ \A j \in 1..Len(u) : s[j] = t[j]
    BY <1>2, <2>1, CutFacts
  <2>3. \A j \in 1..Len(u) : s[j] = u[j]
    BY <1>2, <2>2
  <2>4. s = u
    BY <2>2, <2>3, SeqEqual
  <2> QED BY <2>1, <2>4
<1>7. t[1] = "{"
  BY <1>2, <1>4 DEF IsObject
<1>8. Object(t) = IF Holds(u, Sentinel) THEN u ELSE <<>>
  BY <1>5, <1>6, <1>7 DEF Object
<1>9. t # <<>> /\ u # <<>>
  <2>1. t # <<>>
    BY <1>4
  <2> QED BY <2>1 DEF IsObject
<1> QED BY <1>1, <1>2, <1>8, <1>9

\* A piece gives its commands and no others, whatever follows it.
LEMMA PieceMeans ==
  ASSUME NEW p \in DOMAIN Parts, p # "open", NEW w \in Seq(STRING)
  PROVE  /\ Parts[p] \in Seq(STRING) /\ Meaning[p] \in Seq(Readings)
         /\ Parts[p] \o w \in Seq(STRING)
         /\ Commands(Parts[p] \o w) = Meaning[p] \o Commands(w)
<1>1. PICK u, m : u = Parts[p] /\ m = Meaning[p]
  OBVIOUS
<1>2. /\ u \in Seq(STRING)
      /\ \/ IsObject(u) /\ Holds(u, Sentinel)
         \/ Plain(u)
         \/ IsObject(u) /\ Plain(Tail(u))
      /\ m = IF (IsObject(u) /\ Holds(u, Sentinel)) /\ IsCommand(u) THEN <<Json[u]>> ELSE <<>>
  BY <1>1, PartAssumption
<1>3. /\ u \o w \in Seq(STRING) /\ Commands(w) \in Seq(Readings)
      /\ <<>> \o Commands(w) = Commands(w) /\ <<>> \in Seq(Readings)
  <2>1. Commands(w) \in Seq(Readings)
    BY CommandsUnfolds
  <2>2. <<>> \in Seq(Readings)
    OBVIOUS
  <2> QED BY <1>2, <2>1, <2>2, ConcatEmptySeq
<1>4. CASE IsObject(u) /\ Holds(u, Sentinel)
  <2>1. /\ u \o w # <<>> /\ u # <<>> /\ Rest(u \o w, Len(u)) = w /\ Object(u \o w) = u
    BY <1>2, <1>4, ObjectFront
  <2>2. Past(u \o w) = Len(u)
    BY <2>1 DEF Past
  <2>3. Commands(u \o w) = Accepted(u) \o Commands(w)
    BY <1>3, <2>1, <2>2, CommandsUnfolds
  <2>4. m = Accepted(u)
    BY <1>2, <1>4, <2>1 DEF Accepted
  <2>5. m \in Seq(Readings)
    BY <2>4, AcceptedType
  <2> QED BY <1>1, <1>2, <1>3, <2>3, <2>4, <2>5
<1>5. CASE Plain(u) /\ ~ (IsObject(u) /\ Holds(u, Sentinel))
  <2>1. Commands(u \o w) = Commands(w)
    <3>1. Passed(u, w)
      BY <1>5 DEF Plain, Passed
    <3> QED BY <1>2, <3>1, PassPlain
  <2>2. m = <<>>
    BY <1>2, <1>5
  <2> QED BY <1>1, <1>2, <1>3, <2>1, <2>2
<1>6. CASE IsObject(u) /\ Plain(Tail(u)) /\ ~ Holds(u, Sentinel)
  <2>1. /\ u \o w # <<>> /\ u # <<>> /\ Object(u \o w) = <<>>
    BY <1>2, <1>6, ObjectFront
  <2>2. /\ Len(Tail(u)) = Len(u) - 1 /\ \A i \in 1..Len(Tail(u)) : Tail(u)[i] = u[i + 1]
    BY <1>2, <2>1, HeadTailProperties
  <2>3. Len(u) \in Nat
    BY <1>2
  <2>4. ASSUME NEW i \in 1..Len(u), u[i] = "{" PROVE i = 1
    <3>1. ASSUME i # 1 PROVE FALSE
      <4>1. i - 1 \in 1..Len(Tail(u)) /\ (i - 1) + 1 = i
        BY <2>2, <2>3, <3>1
      <4>2. Tail(u)[i - 1] = "{"
        BY <2>2, <2>4, <4>1
      <4> QED BY <1>6, <4>1, <4>2 DEF Plain
    <3> QED BY <3>1
  <2>5. Rest(u \o w, 1 - 1) = u \o w
    <3>1. SubSeq(u \o w, (1 - 1) + 1, Len(u \o w)) = SubSeq(u \o w, 1, Len(u \o w))
      OBVIOUS
    <3>2. SubSeq(u \o w, 1, Len(u \o w)) = u \o w
      BY <1>3, CutWhole
    <3> QED BY <3>1, <3>2 DEF Rest
  <2>6. Commands(u \o w) = Commands(w)
    <3>1. Passed(u, w)
      BY <2>1, <2>4, <2>5 DEF Passed
    <3> QED BY <1>2, <3>1, PassPlain
  <2>7. m = <<>>
    BY <1>2, <1>6
  <2> QED BY <1>1, <1>2, <1>3, <2>6, <2>7
<1> QED BY <1>2, <1>4, <1>5, <1>6

LEMMA HoldsLonger ==
  ASSUME NEW S, NEW a \in Seq(S), NEW v \in Seq(S), Len(a) <= Len(v),
         \A j \in 1..Len(a) : a[j] = v[j], NEW part, Len(part) \in Nat, Holds(a, part)
  PROVE  Holds(v, part)
<1>1. PICK l \in Nat, n \in Nat, m \in Nat : l = Len(part) /\ n = Len(a) /\ m = Len(v)
  <2>1. Len(a) \in Nat /\ Len(v) \in Nat
    BY LenProperties
  <2> QED BY <2>1
<1>2. PICK i \in 0..n - l : SubSeq(a, i + 1, i + l) = part
  BY <1>1 DEF Holds
<1>3. n <= m /\ i + 1 \in Int /\ i + l \in Int /\ i \in 0..m - l
  BY <1>1
<1>4. \A j \in i + 1..i + l : j \in 1..n /\ j \in 1..m
  BY <1>1, <1>3
<1>5. \A j \in 1..n : a[j] \in S /\ v[j] \in S /\ a[j] = v[j]
  BY <1>1, <1>3
<1>6. \A j \in i + 1..i + l : a[j] \in S /\ v[j] \in S /\ a[j] = v[j]
  BY <1>4, <1>5
<1>7. PICK b, c : b = SubSeq(a, i + 1, i + l) /\ c = SubSeq(v, i + 1, i + l)
  OBVIOUS
<1>8. /\ b \in Seq(S) /\ Len(b) = IF i + 1 <= i + l THEN (i + l) - (i + 1) + 1 ELSE 0
      /\ \A j \in 1..(i + l) - (i + 1) + 1 : b[j] = a[(i + 1) + j - 1]
  <2>1. \A j \in i + 1..i + l : a[j] \in S
    BY <1>6
  <2> QED BY <1>3, <1>7, <2>1, SubSeqProperties
<1>9. /\ c \in Seq(S) /\ Len(c) = IF i + 1 <= i + l THEN (i + l) - (i + 1) + 1 ELSE 0
      /\ \A j \in 1..(i + l) - (i + 1) + 1 : c[j] = v[(i + 1) + j - 1]
  <2>1. \A j \in i + 1..i + l : v[j] \in S
    BY <1>6
  <2> QED BY <1>3, <1>7, <2>1, SubSeqProperties
<1>10. (i + l) - (i + 1) + 1 = l /\ (~ i + 1 <= i + l => l = 0)
       /\ \A j \in 1..l : (i + 1) + j - 1 \in i + 1..i + l
  BY <1>1, <1>3
<1>11. Len(b) = l /\ Len(c) = l
  BY <1>8, <1>9, <1>10
<1>12. \A j \in 1..l : b[j] = c[j]
  BY <1>6, <1>8, <1>9, <1>10
<1>13. b = c
  BY <1>8, <1>9, <1>11, <1>12, SeqEqual
<1> QED BY <1>1, <1>2, <1>3, <1>7, <1>13 DEF Holds

\* What is left of a piece that is cut off gives no command.
LEMMA CutMeansNone ==
  ASSUME NEW p \in DOMAIN Parts, p # "open", Sealed(Parts[p]), NEW k \in Nat, k < Len(Parts[p])
  PROVE  /\ SubSeq(Parts[p], 1, k) \in Seq(STRING)
         /\ Commands(SubSeq(Parts[p], 1, k)) = <<>>
<1>1. PICK u : u = Parts[p]
  OBVIOUS
<1>2. u \in Seq(STRING) /\ (Plain(u) \/ IsObject(u))
  BY <1>1, PartAssumption
<1>3. PICK n \in Nat : n = Len(u) /\ k < n /\ k \in 0..n
  <2>1. Len(u) \in Nat
    BY <1>2, LenProperties
  <2> QED BY <1>1, <2>1
<1>4. PICK x : x = SubSeq(u, 1, k)
  OBVIOUS
<1>5. x \in Seq(STRING) /\ Len(x) = k /\ \A j \in 1..k : x[j] = u[j]
  BY <1>2, <1>3, <1>4, CutFacts
<1>6. /\ <<>> \in Seq(STRING) /\ x \o <<>> = x
  <2>1. <<>> \in Seq(STRING)
    OBVIOUS
  <2> QED BY <1>5, <2>1, ConcatEmptySeq
<1>7. ASSUME NEW i \in 1..k, x[i] = "{" PROVE Object(Rest(x, i - 1)) = <<>>
  <2>a. u[i] = "{"
    BY <1>5, <1>7
  <2>b. i \in 1..n
    BY <1>3
  <2>0. u[i] = "{" /\ i \in 1..n
    BY <2>a, <2>b
  <2>1. CASE i = 1
    <3>1. IsObject(u)
      BY <1>2, <1>3, <2>0 DEF Plain
    <3>2. Closing(x) = 0
      BY <1>2, <1>3, <1>5, <3>1, ClosingPart
    <3>3. Rest(x, 1 - 1) = x
      <4>1. SubSeq(x, (1 - 1) + 1, Len(x)) = SubSeq(x, 1, Len(x))
        OBVIOUS
      <4> QED BY <1>5, <4>1, CutWhole DEF Rest
    <3>4. x # <<>>
      BY <1>5, <2>1
    <3> QED BY <1>5, <2>1, <3>2, <3>3, <3>4, ObjectFacts
  <2>2. CASE i # 1
    <3>1. PICK h \in Nat : h = i - 1 /\ h >= 1 /\ h + 1 = i
      <4>1. i - 1 \in Nat /\ i - 1 >= 1 /\ (i - 1) + 1 = i
        BY <2>2
      <4> QED BY <4>1
    <3>2. h \in 0..Len(x) /\ h < Len(x) /\ h \in 0..Len(u)
      BY <1>3, <1>5, <3>1
    <3>3. PICK r, v : r = Rest(x, h) /\ v = Rest(u, h)
      OBVIOUS
    <3>4. /\ r \in Seq(STRING) /\ Len(r) = k - h /\ \A j \in 1..k - h : r[j] = x[h + j]
      BY <1>5, <3>2, <3>3, RestFacts
    <3>5. /\ v \in Seq(STRING) /\ Len(v) = n - h /\ \A j \in 1..n - h : v[j] = u[h + j]
      BY <1>2, <1>3, <3>2, <3>3, RestFacts
    <3>6. r # <<>>
      BY <1>5, <3>2, <3>3, RestFirst
    <3>7. ASSUME Object(r) # <<>> PROVE FALSE
      <4>1. PICK o : o = Object(r)
        OBVIOUS
      <4>2. /\ o \in Seq(STRING) /\ Holds(o, Sentinel)
            /\ \A j \in 1..Len(o) : j <= Len(r) /\ o[j] = r[j]
        BY <3>4, <3>6, <3>7, <4>1, ObjectFacts
      <4>3. Len(o) \in Nat
        BY <4>2, LenProperties
      <4>4. \A j \in 1..Len(o) : j \in 1..k - h /\ j \in 1..n - h /\ h + j \in 1..k
        BY <1>3, <3>1, <3>4, <4>2, <4>3
      <4>5. \A j \in 1..Len(o) : o[j] = v[j]
        BY <1>5, <3>4, <3>5, <4>2, <4>4
      <4>6. Len(o) <= Len(v)
        <5>1. CASE Len(o) = 0
          BY <1>3, <3>2, <3>5, <1>5, <5>1
        <5>2. CASE Len(o) # 0
          <6>1. Len(o) \in 1..Len(o)
            BY <4>3, <5>2
          <6>2. Len(o) \in 1..n - h
            BY <4>4, <6>1
          <6> QED BY <3>5, <6>2
        <5> QED BY <5>1, <5>2
      <4>7. Len(Sentinel) \in Nat
        BY DEF Sentinel
      <4>8. Holds(v, Sentinel)
        BY <3>5, <4>2, <4>5, <4>6, <4>7, HoldsLonger
      <4>9. v = SubSeq(u, i, Len(u))
        BY <3>1, <3>3 DEF Rest
      <4>10. i \in 2..Len(u)
        <5>1. i \in 2..n
          BY <2>b, <2>2
        <5> QED BY <1>3, <5>1
      <4> QED BY <1>1, <2>0, <4>8, <4>9, <4>10 DEF Sealed
    <3> QED BY <3>1, <3>3, <3>7
  <2> QED BY <2>1, <2>2
<1>8. Passed(x, <<>>)
  BY <1>5, <1>6, <1>7 DEF Passed
<1>9. Commands(x \o <<>>) = Commands(<<>>)
  BY <1>5, <1>6, <1>8, PassPlain
<1>10. Commands(<<>>) = <<>>
  BY <1>6, CommandsUnfolds
<1> QED BY <1>1, <1>4, <1>5, <1>6, <1>9, <1>10

-------------------------------------------------------------------------------
(* What Extract makes of a text that is put together from pieces.              *)

\* A loop that joins sequences has joined the first k of them when it comes so far.
LEMMA FlattenFirst ==
  ASSUME NEW T, NEW seqs \in Seq(Seq(T)), NEW f \in [0..Len(seqs) -> Seq(T)],
         FlattenLoop(seqs, f), NEW k \in 0..Len(seqs)
  PROVE  FlattenSeq(SubSeq(seqs, 1, k)) = f[k]
<1>1. PICK Elems : Elems = Seq(T)
  OBVIOUS
<1>2. PICK s : s = SubSeq(seqs, 1, k)
  OBVIOUS
<1>3. s \in Seq(Elems) /\ Len(s) = k /\ \A j \in 1..k : s[j] = seqs[j]
  <2>1. seqs \in Seq(Elems)
    BY <1>1
  <2> QED BY <1>2, <2>1, CutFacts
<1>4. PICK h \in [0..Len(s) -> Seq(T)] : FlattenLoop(s, h)
  BY <1>1, <1>3, FlattenUnfolds
<1>5. PICK n \in Nat : n = Len(seqs) /\ k \in Nat /\ k <= n
  <2>1. Len(seqs) \in Nat
    BY <1>1, LenProperties
  <2> QED BY <2>1
<1>6. PICK A : A = {i \in Nat : i <= k => h[i] = f[i]}
  OBVIOUS
<1>7. 0 \in A
  BY <1>4, <1>6 DEF FlattenLoop
<1>8. ASSUME NEW i \in A PROVE i + 1 \in A
  <2>1. i \in Nat /\ i + 1 \in Nat
    BY <1>6
  <2>2. ASSUME i + 1 <= k PROVE h[i + 1] = f[i + 1]
    <3>1. i <= k /\ i + 1 \in 1..k /\ i + 1 \in 1..n /\ (i + 1) - 1 = i
      BY <1>5, <2>1, <2>2
    <3>2. h[i + 1] = h[i] \o s[i + 1]
      BY <1>3, <1>4, <3>1 DEF FlattenLoop
    <3>3. f[i + 1] = f[i] \o seqs[i + 1]
      BY <1>5, <3>1 DEF FlattenLoop
    <3> QED BY <1>3, <1>6, <3>1, <3>2, <3>3
  <2> QED BY <1>6, <2>1, <2>2
<1>9. A \in SUBSET Nat
  BY <1>6
<1>10. A = Nat
  BY <1>7, <1>8, <1>9, NatInduct
<1>11. k \in A /\ k <= k
  BY <1>5, <1>10
<1>12. h[k] = f[k]
  BY <1>6, <1>11
<1> QED BY <1>2, <1>3, <1>4, <1>12 DEF FlattenLoop

Unfolding(T, seqs, f) ==
  seqs \in Seq(Seq(T)) /\ f \in [0..Len(seqs) -> Seq(T)] /\ FlattenLoop(seqs, f)

Staged(T, seqs, f) ==
  /\ Len(seqs) \in Nat
  /\ \A i \in 0..Len(seqs) : f[i] \in Seq(T)
  /\ \A i \in 1..Len(seqs) : seqs[i] \in Seq(T) /\ f[i] = f[i - 1] \o seqs[i]

\* What a flattening is of: its stages, and their pieces.
LEMMA StageTypes ==
  ASSUME NEW T, NEW seqs, NEW f, Unfolding(T, seqs, f)
  PROVE  Staged(T, seqs, f)
<1>1. seqs \in Seq(Seq(T)) /\ f \in [0..Len(seqs) -> Seq(T)] /\ FlattenLoop(seqs, f)
  BY DEF Unfolding
<1>2. PICK Elems : Elems = Seq(T)
  OBVIOUS
<1>3. Len(seqs) \in Nat
  BY <1>1, <1>2, LenProperties
<1>4. \A i \in 0..Len(seqs) : f[i] \in Seq(T)
  BY <1>1
<1>5. \A i \in 1..Len(seqs) : seqs[i] \in Elems
  BY <1>1, <1>2
<1>6. \A i \in 1..Len(seqs) : f[i] = f[i - 1] \o seqs[i]
  BY <1>1 DEF FlattenLoop
<1> QED BY <1>2, <1>3, <1>4, <1>5, <1>6 DEF Staged

\* Every stage of a flattening is a beginning of every later one.
LEMMA FlattenGrows ==
  ASSUME NEW T, NEW seqs, NEW f, Unfolding(T, seqs, f),
         NEW i \in Nat, NEW m \in Nat, i <= m, m <= Len(seqs)
  PROVE  Starts(f[i], f[m])
<1>1. /\ Len(seqs) \in Nat
      /\ \A a \in 0..Len(seqs) : f[a] \in Seq(T)
      /\ \A a \in 1..Len(seqs) : seqs[a] \in Seq(T) /\ f[a] = f[a - 1] \o seqs[a]
  <2>1. Staged(T, seqs, f)
    BY StageTypes
  <2> QED BY <2>1 DEF Staged
<1>2. PICK n \in Nat : n = Len(seqs)
  BY <1>1
<1>3. \A a \in 0..n : f[a] \in Seq(T) /\ Len(f[a]) \in Nat
  <2>1. \A a \in 0..n : f[a] \in Seq(T)
    BY <1>1, <1>2
  <2> QED BY <2>1, LenProperties
<1>4. PICK p \in Nat : p = Len(f[i]) /\ i \in 0..n
  <2>1. i \in 0..n
    BY <1>2
  <2> QED BY <1>3, <2>1
<1>5. PICK A : A = {k \in Nat : i + k <= n =>
                /\ p <= Len(f[i + k]) /\ \A j \in 1..p : f[i + k][j] = f[i][j]}
  OBVIOUS
<1>6. 0 \in A
  <2>1. i + 0 = i
    OBVIOUS
  <2> QED BY <1>4, <1>5, <2>1
<1>7. ASSUME NEW k \in A PROVE k + 1 \in A
  <2>1. k \in Nat /\ k + 1 \in Nat
    BY <1>5
  <2>2. ASSUME i + (k + 1) <= n
        PROVE  p <= Len(f[i + (k + 1)]) /\ \A j \in 1..p : f[i + (k + 1)][j] = f[i][j]
    <3>1. PICK a \in 0..n : a = i + k /\ a + 1 = i + (k + 1) /\ a + 1 \in 1..n /\ (a + 1) - 1 = a
                            /\ i + k <= n
      <4>1. i + k \in 0..n /\ (i + k) + 1 = i + (k + 1) /\ (i + k) + 1 \in 1..n
            /\ ((i + k) + 1) - 1 = i + k /\ i + k <= n
        BY <2>1, <2>2
      <4> QED BY <4>1
    <3>2. f[a + 1] = f[a] \o seqs[a + 1] /\ seqs[a + 1] \in Seq(T)
      BY <1>1, <1>2, <3>1
    <3>3. f[a] \in Seq(T) /\ seqs[a + 1] \in Seq(T) /\ Len(f[a]) \in Nat
      BY <1>3, <3>1, <3>2
    <3>4. PICK v, w : v = f[a] /\ w = seqs[a + 1]
      OBVIOUS
    <3>5. v \o w \in Seq(T) /\ Joins(v \o w, v, Len(v), w, Len(w))
      BY <3>3, <3>4, Behind
    <3>6. Len(v) \in Nat /\ Len(w) \in Nat
      BY <3>3, <3>4, LenProperties
    <3>7. Len(v \o w) = Len(v) + Len(w) /\ \A j \in 1..Len(v) : (v \o w)[j] = v[j]
      BY <3>5 DEF Joins
    <3>8. p <= Len(v) /\ \A j \in 1..p : v[j] = f[i][j]
      BY <1>5, <3>1, <3>4
    <3>9. p <= Len(v \o w) /\ \A j \in 1..p : j \in 1..Len(v)
      BY <3>6, <3>7, <3>8
    <3>10. \A j \in 1..p : (v \o w)[j] = f[i][j]
      BY <3>7, <3>8, <3>9
    <3> QED BY <3>1, <3>2, <3>4, <3>9, <3>10
  <2> QED BY <1>5, <2>1, <2>2
<1>8. A \in SUBSET Nat
  BY <1>5
<1>9. A = Nat
  BY <1>6, <1>7, <1>8, NatInduct
<1>10. PICK k \in Nat : i + k = m /\ i + k <= n
  <2>1. m - i \in Nat /\ i + (m - i) = m /\ m <= n
    BY <1>2
  <2> QED BY <2>1
<1>11. p <= Len(f[m]) /\ \A j \in 1..p : f[m][j] = f[i][j]
  BY <1>5, <1>9, <1>10
<1> QED BY <1>4, <1>11 DEF Starts

LEMMA LastWithin ==
  ASSUME NEW n \in Nat, NEW len, NEW cut, len[0] <= cut
  PROVE  \E c \in 0..n : len[c] <= cut /\ \A i \in c + 1..n : ~ len[i] <= cut
<1>1. PICK A : A = {k \in Nat :
                \E c \in 0..k : len[c] <= cut /\ \A i \in c + 1..k : ~ len[i] <= cut}
  OBVIOUS
<1>2. 0 \in A
  <2>1. 0 \in 0..0 /\ \A i \in 0 + 1..0 : ~ len[i] <= cut
    OBVIOUS
  <2> QED BY <1>1, <2>1
<1>3. ASSUME NEW k \in A PROVE k + 1 \in A
  <2>1. k \in Nat /\ k + 1 \in Nat
    BY <1>1
  <2>2. CASE len[k + 1] <= cut
    <3>1. k + 1 \in 0..k + 1 /\ \A i \in (k + 1) + 1..k + 1 : ~ len[i] <= cut
      BY <2>1
    <3> QED BY <1>1, <2>1, <2>2, <3>1
  <2>3. CASE ~ len[k + 1] <= cut
    <3>1. PICK c \in 0..k : len[c] <= cut /\ \A i \in c + 1..k : ~ len[i] <= cut
      BY <1>1
    <3>2. c \in 0..k + 1
      BY <2>1
    <3>3. \A i \in c + 1..k + 1 : i = k + 1 \/ i \in c + 1..k
      BY <2>1
    <3>4. \A i \in c + 1..k + 1 : ~ len[i] <= cut
      BY <2>3, <3>1, <3>3
    <3> QED BY <1>1, <2>1, <3>1, <3>2, <3>4
  <2> QED BY <2>2, <2>3
<1>4. A \in SUBSET Nat
  BY <1>1
<1>5. A = Nat
  BY <1>2, <1>3, <1>4, NatInduct
<1> QED BY <1>1, <1>5

PartTexts(parts) == [i \in 1..Len(parts) |-> Parts[parts[i]]]
Meanings(parts) == [i \in 1..Len(parts) |-> Meaning[parts[i]]]

LEMMA PiecesType ==
  ASSUME NEW parts \in Seq(DOMAIN Parts), \A i \in 1..Len(parts) : parts[i] # "open"
  PROVE  /\ PartTexts(parts) \in Seq(Seq(STRING)) /\ Len(PartTexts(parts)) = Len(parts)
         /\ Meanings(parts) \in Seq(Seq(Readings)) /\ Len(Meanings(parts)) = Len(parts)
         /\ \A i \in 1..Len(parts) : /\ PartTexts(parts)[i] = Parts[parts[i]]
                                     /\ Meanings(parts)[i] = Meaning[parts[i]]
<1>1. PICK n \in Nat : n = Len(parts)
  OBVIOUS
<1>2. \A i \in 1..n : Parts[parts[i]] \in Seq(STRING) /\ Meaning[parts[i]] \in Seq(Readings)
  <2> TAKE i \in 1..n
  <2>1. parts[i] \in DOMAIN Parts /\ parts[i] # "open"
    BY <1>1
  <2>2. <<>> \in Seq(STRING)
    OBVIOUS
  <2> QED BY <2>1, <2>2, PieceMeans
<1>3. PICK A, B : A = Seq(STRING) /\ B = Seq(Readings)
  OBVIOUS
<1>4. PICK a, b : a = PartTexts(parts) /\ b = Meanings(parts)
  OBVIOUS
<1>5. a = [i \in 1..n |-> Parts[parts[i]]] /\ b = [i \in 1..n |-> Meaning[parts[i]]]
  BY <1>1, <1>4 DEF PartTexts, Meanings
<1>6. a \in Seq(A) /\ Len(a) = n /\ \A i \in 1..n : a[i] = Parts[parts[i]]
  BY <1>2, <1>3, <1>5
<1>7. b \in Seq(B) /\ Len(b) = n /\ \A i \in 1..n : b[i] = Meaning[parts[i]]
  BY <1>2, <1>3, <1>5
<1> QED BY <1>1, <1>3, <1>4, <1>6, <1>7

\* The first pieces give their commands, whatever follows them.
LEMMA PiecesMean ==
  ASSUME NEW parts \in Seq(DOMAIN Parts), \A i \in 1..Len(parts) : parts[i] # "open",
         NEW f \in [0..Len(PartTexts(parts)) -> Seq(STRING)], FlattenLoop(PartTexts(parts), f),
         NEW h \in [0..Len(Meanings(parts)) -> Seq(Readings)], FlattenLoop(Meanings(parts), h),
         NEW i \in 0..Len(parts), NEW w \in Seq(STRING)
  PROVE  Commands(f[i] \o w) = h[i] \o Commands(w)
<1>1. PICK n \in Nat : n = Len(parts)
  OBVIOUS
<1>2. /\ Len(PartTexts(parts)) = n /\ Len(Meanings(parts)) = n
      /\ \A k \in 1..n : /\ PartTexts(parts)[k] = Parts[parts[k]]
                         /\ Meanings(parts)[k] = Meaning[parts[k]]
  BY <1>1, PiecesType
<1>3. PICK A : A = {k \in Nat : k <= n =>
                \A x \in Seq(STRING) : Commands(f[k] \o x) = h[k] \o Commands(x)}
  OBVIOUS
<1>4. 0 \in A
  <2>1. ASSUME NEW x \in Seq(STRING) PROVE Commands(f[0] \o x) = h[0] \o Commands(x)
    <3>1. f[0] = <<>> /\ h[0] = <<>>
      BY DEF FlattenLoop
    <3>2. Commands(x) \in Seq(Readings)
      BY CommandsUnfolds
    <3>3. <<>> \o x = x
      BY ConcatEmptySeq
    <3>4. <<>> \o Commands(x) = Commands(x)
      BY <3>2, ConcatEmptySeq
    <3> QED BY <3>1, <3>3, <3>4
  <2> QED BY <1>3, <2>1
<1>5. ASSUME NEW k \in A PROVE k + 1 \in A
  <2>1. k \in Nat /\ k + 1 \in Nat
    BY <1>3
  <2>2. ASSUME k + 1 <= n, NEW x \in Seq(STRING)
        PROVE  Commands(f[k + 1] \o x) = h[k + 1] \o Commands(x)
    <3>1. k <= n /\ k \in 0..n /\ k + 1 \in 1..n /\ (k + 1) - 1 = k
      BY <2>1, <2>2
    <3>2. PICK p \in DOMAIN Parts : p = parts[k + 1] /\ p # "open"
      BY <1>1, <3>1
    <3>3. /\ Parts[p] \in Seq(STRING) /\ Meaning[p] \in Seq(Readings)
          /\ Parts[p] \o x \in Seq(STRING)
          /\ Commands(Parts[p] \o x) = Meaning[p] \o Commands(x)
      BY <2>2, <3>2, PieceMeans
    <3>4. f[k + 1] = f[k] \o Parts[p]
      BY <1>2, <3>1, <3>2, ZenonT(40) DEF FlattenLoop
    <3>5. h[k + 1] = h[k] \o Meaning[p]
      BY <1>2, <3>1, <3>2, ZenonT(40) DEF FlattenLoop
    <3>6. f[k] \in Seq(STRING) /\ h[k] \in Seq(Readings) /\ Commands(x) \in Seq(Readings)
      BY <1>2, <3>1, CommandsUnfolds
    <3>7. (f[k] \o Parts[p]) \o x = f[k] \o (Parts[p] \o x)
      <4>1. PICK a \in Seq(STRING), b \in Seq(STRING) : a = f[k] /\ b = Parts[p]
        BY <3>3, <3>6
      <4>2. (a \o b) \o x = a \o (b \o x)
        BY <2>2, ConcatAssociative, SMTT(20)
      <4> QED BY <4>1, <4>2
    <3>8. Commands(f[k] \o (Parts[p] \o x)) = h[k] \o Commands(Parts[p] \o x)
      BY <1>3, <3>1, <3>3
    <3>9. (h[k] \o Meaning[p]) \o Commands(x) = h[k] \o (Meaning[p] \o Commands(x))
      <4>1. PICK a \in Seq(Readings), b \in Seq(Readings), c \in Seq(Readings) :
              a = h[k] /\ b = Meaning[p] /\ c = Commands(x)
        BY <3>3, <3>6
      <4>2. (a \o b) \o c = a \o (b \o c)
        BY ConcatAssociative, SMTT(20)
      <4> QED BY <4>1, <4>2
    <3> QED BY <3>3, <3>4, <3>5, <3>7, <3>8, <3>9
  <2> QED BY <1>3, <2>1, <2>2
<1>6. A \in SUBSET Nat
  BY <1>3
<1>7. A = Nat
  BY <1>4, <1>5, <1>6, NatInduct
<1>8. i \in A /\ i <= n
  BY <1>1, <1>7
<1> QED BY <1>3, <1>8

LEMMA FirstParts ==
  ASSUME NEW parts \in Seq(DOMAIN Parts), \A i \in 1..Len(parts) : parts[i] # "open",
         NEW f \in [0..Len(PartTexts(parts)) -> Seq(STRING)], FlattenLoop(PartTexts(parts), f),
         NEW h \in [0..Len(Meanings(parts)) -> Seq(Readings)], FlattenLoop(Meanings(parts), h),
         NEW k \in 0..Len(parts)
  PROVE  TextOf(SubSeq(parts, 1, k)) = f[k] /\ Meant(SubSeq(parts, 1, k)) = h[k]
<1>1. PICK n \in Nat : n = Len(parts) /\ k \in Nat /\ k <= n
  OBVIOUS
<1>2. PICK s : s = SubSeq(parts, 1, k)
  OBVIOUS
<1>3. s \in Seq(DOMAIN Parts) /\ Len(s) = k /\ \A j \in 1..k : s[j] = parts[j]
  BY <1>2, CutFacts
<1>4. PICK A, B, a, b : /\ A = Seq(STRING) /\ B = Seq(Readings)
                        /\ a = PartTexts(parts) /\ b = Meanings(parts)
  OBVIOUS
<1>5. /\ a \in Seq(A) /\ Len(a) = n /\ b \in Seq(B) /\ Len(b) = n
      /\ \A i \in 1..n : a[i] = Parts[parts[i]] /\ b[i] = Meaning[parts[i]]
  BY <1>1, <1>4, PiecesType
<1>6. PICK c, d : c = SubSeq(a, 1, k) /\ d = SubSeq(b, 1, k)
  OBVIOUS
<1>7. c \in Seq(A) /\ Len(c) = k /\ \A j \in 1..k : c[j] = a[j]
  <2>1. k \in 0..Len(a) /\ a \in Seq(A)
    BY <1>1, <1>5
  <2> QED BY <1>6, <2>1, CutFacts
<1>8. d \in Seq(B) /\ Len(d) = k /\ \A j \in 1..k : d[j] = b[j]
  <2>1. k \in 0..Len(b) /\ b \in Seq(B)
    BY <1>1, <1>5
  <2> QED BY <1>6, <2>1, CutFacts
<1>9. \A i \in 1..Len(s) : s[i] # "open"
  BY <1>1, <1>3
<1>10. PICK u, v : u = PartTexts(s) /\ v = Meanings(s)
  OBVIOUS
<1>11. /\ u \in Seq(A) /\ Len(u) = k /\ v \in Seq(B) /\ Len(v) = k
       /\ \A i \in 1..k : u[i] = Parts[s[i]] /\ v[i] = Meaning[s[i]]
  BY <1>3, <1>4, <1>9, <1>10, PiecesType
<1>12. \A i \in 1..k : i \in 1..n
  BY <1>1
<1>13. c = u
  <2>1. \A i \in 1..k : c[i] = u[i]
    <3> SUFFICES ASSUME NEW i \in 1..k PROVE c[i] = u[i]
      OBVIOUS
    <3>1. i \in 1..n /\ s[i] = parts[i]
      BY <1>3, <1>12
    <3>2. c[i] = Parts[parts[i]]
      BY <1>5, <1>7, <3>1
    <3>3. u[i] = Parts[s[i]]
      BY <1>11
    <3> QED BY <3>1, <3>2, <3>3
  <2> QED BY <1>7, <1>11, <2>1, SeqEqual
<1>14. d = v
  <2>1. \A i \in 1..k : d[i] = v[i]
    <3> SUFFICES ASSUME NEW i \in 1..k PROVE d[i] = v[i]
      OBVIOUS
    <3>1. i \in 1..n /\ s[i] = parts[i]
      BY <1>3, <1>12
    <3>2. d[i] = Meaning[parts[i]]
      BY <1>5, <1>8, <3>1
    <3>3. v[i] = Meaning[s[i]]
      BY <1>11
    <3> QED BY <3>1, <3>2, <3>3
  <2> QED BY <1>8, <1>11, <2>1, SeqEqual
<1>15. TextOf(s) = FlattenSeq(c)
  <2>1. TextOf(s) = FlattenSeq(u)
    BY <1>10 DEF TextOf, PartTexts
  <2> QED BY <1>13, <2>1
<1>16. Meant(s) = FlattenSeq(d)
  <2>1. Meant(s) = FlattenSeq(v)
    BY <1>10 DEF Meant, Meanings
  <2> QED BY <1>14, <2>1
<1>17. FlattenSeq(c) = f[k]
  <2>1. PartTexts(parts) \in Seq(Seq(STRING)) /\ k \in 0..Len(PartTexts(parts))
    BY <1>1, <1>4, <1>5
  <2> QED BY <1>4, <1>6, <2>1, FlattenFirst
<1>18. FlattenSeq(d) = h[k]
  <2>1. Meanings(parts) \in Seq(Seq(Readings)) /\ k \in 0..Len(Meanings(parts))
    BY <1>1, <1>4, <1>5
  <2> QED BY <1>4, <1>6, <2>1, FlattenFirst, ZenonT(40)
<1> QED BY <1>2, <1>15, <1>16, <1>17, <1>18

CutOf(seqs, f, c, cut) ==
  /\ cut - Len(f[c]) \in Nat /\ cut - Len(f[c]) < Len(seqs[c + 1])
  /\ SubSeq(FlattenSeq(seqs), 1, cut) = f[c] \o SubSeq(seqs[c + 1], 1, cut - Len(f[c]))

\* The text up to a cut: the pieces before it, and what is left of the one it hits.
LEMMA CutText ==
  ASSUME NEW T, NEW seqs, NEW f, Unfolding(T, seqs, f),
         NEW c \in Nat, c + 1 <= Len(seqs), NEW cut \in Nat,
         Len(f[c]) <= cut, cut < Len(f[c + 1])
  PROVE  CutOf(seqs, f, c, cut)
<1>1. /\ Len(seqs) \in Nat
      /\ \A i \in 0..Len(seqs) : f[i] \in Seq(T)
      /\ \A i \in 1..Len(seqs) : seqs[i] \in Seq(T) /\ f[i] = f[i - 1] \o seqs[i]
  <2>1. Staged(T, seqs, f)
    BY StageTypes
  <2> QED BY <2>1 DEF Staged
<1>2. PICK n \in Nat : n = Len(seqs)
  BY <1>1
<1>3. c \in 0..n /\ c + 1 \in 0..n /\ c + 1 \in 1..n /\ n \in 0..n /\ (c + 1) - 1 = c
  BY <1>2
<1>4. PICK v \in Seq(T), u \in Seq(T), t \in Seq(T) : v = f[c] /\ u = seqs[c + 1] /\ t = f[n]
  BY <1>1, <1>2, <1>3
<1>5. PICK p \in Nat, q \in Nat, m \in Nat : p = Len(v) /\ q = Len(u) /\ m = Len(t)
  <2>1. Len(v) \in Nat /\ Len(u) \in Nat /\ Len(t) \in Nat
    BY LenProperties
  <2> QED BY <2>1
<1>6. f[c + 1] = v \o u
  <2>1. f[c + 1] = f[(c + 1) - 1] \o seqs[c + 1]
    BY <1>1, <1>2, <1>3
  <2> QED BY <1>3, <1>4, <2>1
<1>7. v \o u \in Seq(T) /\ Joins(v \o u, v, p, u, q)
  BY <1>5, Behind
<1>8. Len(v \o u) = p + q
  BY <1>7 DEF Joins
<1>9. p <= cut /\ cut < p + q
  BY <1>4, <1>5, <1>6, <1>8
<1>10. p + q <= m /\ \A j \in 1..p + q : t[j] = (v \o u)[j]
  <2>1. Len(f[c + 1]) <= Len(f[n]) /\ \A j \in 1..Len(f[c + 1]) : f[n][j] = f[c + 1][j]
    <3>2. c + 1 \in Nat /\ c + 1 <= n /\ n <= Len(seqs)
      BY <1>2, <1>3
    <3>3. Starts(f[c + 1], f[n])
      BY <3>2, FlattenGrows
    <3> QED BY <3>3 DEF Starts
  <2> QED BY <1>4, <1>5, <1>6, <1>8, <2>1
<1>11. PICK k \in Nat : k = cut - p /\ k < q /\ k \in 0..q /\ cut = p + k
  <2>1. cut - p \in Nat /\ cut - p < q /\ cut = p + (cut - p)
    BY <1>9
  <2> QED BY <2>1
<1>12. PICK x : x = SubSeq(u, 1, k)
  OBVIOUS
<1>13. x \in Seq(T) /\ Len(x) = k /\ \A j \in 1..k : x[j] = u[j]
  BY <1>5, <1>11, <1>12, CutFacts
<1>14. v \o x \in Seq(T) /\ Joins(v \o x, v, p, x, k)
  BY <1>5, <1>13, Behind
<1>15. PICK y : y = SubSeq(t, 1, cut)
  OBVIOUS
<1>16. y \in Seq(T) /\ Len(y) = cut /\ \A j \in 1..cut : y[j] = t[j]
  <2>1. cut \in 0..Len(t)
    BY <1>5, <1>9, <1>10
  <2> QED BY <1>15, <2>1, CutFacts
<1>17. Len(v \o x) = cut
  BY <1>11, <1>14 DEF Joins
<1>18. ASSUME NEW j \in 1..cut PROVE y[j] = (v \o x)[j]
  <2>1. j \in 1..p + q
    BY <1>9
  <2>2. y[j] = (v \o u)[j]
    BY <1>10, <1>16, <2>1
  <2>3. CASE j \in 1..p
    <3>1. (v \o u)[j] = v[j] /\ (v \o x)[j] = v[j]
      BY <1>7, <1>14, <2>3 DEF Joins
    <3> QED BY <2>2, <3>1
  <2>4. CASE ~ j \in 1..p
    <3>1. PICK i \in 1..k : j = p + i /\ i \in 1..q
      <4>1. j - p \in 1..k /\ j = p + (j - p) /\ j - p \in 1..q
        BY <1>11, <2>4
      <4> QED BY <4>1
    <3>2. (v \o u)[p + i] = u[i] /\ (v \o x)[p + i] = x[i]
      BY <1>7, <1>14, <3>1 DEF Joins
    <3> QED BY <1>13, <2>2, <3>1, <3>2
  <2> QED BY <2>3, <2>4
<1>19. y = v \o x
  BY <1>14, <1>16, <1>17, <1>18, SeqEqual
<1>20. FlattenSeq(seqs) = t
  BY <1>2, <1>4 DEF FlattenLoop, Unfolding
<1> QED BY <1>4, <1>5, <1>11, <1>12, <1>15, <1>19, <1>20 DEF CutOf

\* Extract finds, once and in their order, the commands of every text of prose and
\* objects, cut off or not.
THEOREM ExtractCorrect == Spec => []CommandsFound
<1>1. Served => CommandsFound
  <2> SUFFICES ASSUME Served, Asked("extract"), ~ Contains(request.parts, "open"),
                      Complete < Len(request.parts) => Sealed(Parts[request.parts[Complete + 1]])
               PROVE  answer = Meant(SubSeq(request.parts, 1, Complete))
    BY DEF CommandsFound
  <2>1. /\ request.kind = "extract" /\ request \in Requests
        /\ answer = Commands(SubSeq(TextOf(request.parts), 1, request.cut))
    <3>1. request.kind = "extract" /\ request \in Requests /\ answer = Serve(request)
      BY DEF Asked, Served
    <3> QED BY <3>1 DEF Serve
  <2>2. PICK parts \in Seq(DOMAIN Parts) :
          parts = request.parts /\ request.cut \in 0..Len(TextOf(parts))
    BY <2>1, RequestAssumption
  <2>3. PICK n \in Nat : n = Len(parts)
    BY LenProperties
  <2>4. \A i \in 1..Len(parts) : parts[i] # "open"
    BY <2>2 DEF Contains
  <2>5. PICK a, b : a = PartTexts(parts) /\ b = Meanings(parts)
    OBVIOUS
  <2>6. /\ a \in Seq(Seq(STRING)) /\ Len(a) = n /\ b \in Seq(Seq(Readings)) /\ Len(b) = n
        /\ \A i \in 1..n : a[i] = Parts[parts[i]]
    BY <2>3, <2>4, <2>5, PiecesType
  <2>7. PICK f : f \in [0..Len(a) -> Seq(STRING)] /\ FlattenLoop(a, f)
    BY <2>6, FlattenUnfolds
  <2>8. PICK h : h \in [0..Len(b) -> Seq(Readings)] /\ FlattenLoop(b, h)
    BY <2>6, FlattenUnfolds
  <2>9. \A k \in 0..n : TextOf(SubSeq(parts, 1, k)) = f[k] /\ Meant(SubSeq(parts, 1, k)) = h[k]
    BY <2>3, <2>4, <2>5, <2>7, <2>8, FirstParts
  <2>10. \A k \in 0..n : f[k] \in Seq(STRING) /\ h[k] \in Seq(Readings) /\ Len(f[k]) \in Nat
    <3>1. \A k \in 0..n : f[k] \in Seq(STRING) /\ h[k] \in Seq(Readings)
      BY <2>6, <2>7, <2>8
    <3> QED BY <3>1, LenProperties
  <2>11. TextOf(parts) = f[n]
    BY <2>5, <2>6, <2>7 DEF TextOf, PartTexts, FlattenLoop
  <2>12. PICK cut \in Nat : cut = request.cut /\ cut <= Len(f[n])
    <3>1. n \in 0..n
      OBVIOUS
    <3>2. Len(f[n]) \in Nat
      BY <2>10, <3>1
    <3> QED BY <2>2, <2>11, <3>2
  <2>13. PICK c \in 0..n :
           Len(f[c]) <= cut /\ \A i \in c + 1..n : ~ Len(f[i]) <= cut
    <3>1. PICK len : len = [i \in 0..n |-> Len(f[i])]
      OBVIOUS
    <3>2. \A i \in 0..n : len[i] = Len(f[i])
      BY <3>1
    <3>3. len[0] <= cut
      <4>1. f[0] = <<>>
        BY <2>7 DEF FlattenLoop
      <4>2. Len(f[0]) = 0 /\ 0 \in 0..n
        BY <4>1
      <4> QED BY <3>2, <4>2
    <3>4. PICK c \in 0..n : len[c] <= cut /\ \A i \in c + 1..n : ~ len[i] <= cut
      BY <3>3, LastWithin
    <3>5. \A i \in c + 1..n : i \in 0..n
      OBVIOUS
    <3> QED BY <3>2, <3>4, <3>5
  <2>14. Complete = c
    <3>1. PICK C : C = {i \in 0..n : Len(f[i]) <= cut}
      OBVIOUS
    <3>2. Complete = Max(C)
      BY <2>2, <2>3, <2>9, <2>12, <3>1 DEF Complete
    <3>3. C \in SUBSET Nat /\ c \in C
      BY <2>13, <3>1
    <3>4. \A i \in C : i <= c
      <4>1. ASSUME NEW i \in C, ~ i <= c PROVE FALSE
        <5>1. i \in c + 1..n
          BY <3>1, <4>1
        <5> QED BY <2>13, <3>1, <5>1
      <4> QED BY <4>1
    <3>5. \A x \in C : (\A y \in C : x >= y) => x = c
      BY <3>3, <3>4
    <3>6. \A y \in C : c >= y
      BY <3>3, <3>4
    <3> QED BY <3>2, <3>3, <3>5, <3>6 DEF Max
  <2>15. answer = Commands(SubSeq(f[n], 1, cut)) /\ Meant(SubSeq(parts, 1, c)) = h[c]
    BY <2>1, <2>2, <2>9, <2>11, <2>12
  <2>16. \A w \in Seq(STRING) : Commands(f[c] \o w) = h[c] \o Commands(w)
    BY <2>3, <2>4, <2>5, <2>7, <2>8, PiecesMean
  <2>17. PICK w \in Seq(STRING) : Commands(w) = <<>> /\ SubSeq(f[n], 1, cut) = f[c] \o w
    <3>1. CASE c = n
      <4>1. PICK t \in Seq(STRING) : t = f[n] /\ cut = Len(t)
        BY <2>10, <2>12, <2>13, <3>1
      <4>2. <<>> \in Seq(STRING)
        OBVIOUS
      <4>3. SubSeq(t, 1, Len(t)) = t
        BY CutWhole
      <4>4. t \o <<>> = t
        BY ConcatEmptySeq
      <4>5. Commands(<<>>) = <<>>
        BY <4>2, CommandsUnfolds
      <4> QED BY <3>1, <4>1, <4>2, <4>3, <4>4, <4>5
    <3>2. CASE c # n
      <4>1. c \in Nat /\ c + 1 <= n /\ c + 1 \in 1..n /\ c + 1 \in c + 1..n /\ c + 1 \in 0..n /\ c < n
        BY <3>2
      <4>2. PICK p \in DOMAIN Parts : p = parts[c + 1] /\ p # "open" /\ a[c + 1] = Parts[p]
        BY <2>3, <2>4, <2>6, <4>1
      <4>3. Sealed(Parts[p])
        BY <2>2, <2>3, <2>14, <4>1, <4>2
      <4>4. Len(f[c]) <= cut /\ cut < Len(f[c + 1])
        <5>1. Len(f[c + 1]) \in Nat /\ ~ Len(f[c + 1]) <= cut
          BY <2>10, <2>13, <4>1
        <5> QED BY <2>13, <5>1
      <4>5. /\ cut - Len(f[c]) \in Nat /\ cut - Len(f[c]) < Len(a[c + 1])
            /\ SubSeq(FlattenSeq(a), 1, cut) = f[c] \o SubSeq(a[c + 1], 1, cut - Len(f[c]))
        <5>1. c + 1 <= Len(a)
          BY <2>6, <4>1
        <5>2. Unfolding(STRING, a, f)
          BY <2>6, <2>7 DEF Unfolding
        <5>3. c \in Nat /\ Len(f[c]) <= cut /\ cut < Len(f[c + 1])
          BY <4>1, <4>4
        <5>4. CutOf(a, f, c, cut)
          BY <5>1, <5>2, <5>3, CutText
        <5> QED BY <5>4 DEF CutOf
      <4>6. FlattenSeq(a) = f[n]
        BY <2>6, <2>7 DEF FlattenLoop
      <4>7. PICK k \in Nat : k = cut - Len(f[c]) /\ k < Len(Parts[p])
        BY <4>2, <4>5
      <4>8. /\ SubSeq(Parts[p], 1, k) \in Seq(STRING)
            /\ Commands(SubSeq(Parts[p], 1, k)) = <<>>
        BY <4>2, <4>3, <4>7, CutMeansNone
      <4> QED BY <4>2, <4>5, <4>6, <4>7, <4>8
    <3> QED BY <3>1, <3>2
  <2>18. h[c] \in Seq(Readings)
    BY <2>10
  <2>19. h[c] \o <<>> = h[c]
    BY <2>18, ConcatEmptySeq
  <2> QED BY <2>2, <2>14, <2>15, <2>16, <2>17, <2>19
<1> QED BY <1>1, AlwaysServed, PTL

================================================================================
