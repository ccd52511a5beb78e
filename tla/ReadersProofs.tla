----------------------------- MODULE ReadersProofs -----------------------------
(***************************************************************************)
(* Proofs about Readers, for paths, files and trees of any size.               *)
(*                                                                           *)
(* The sandbox compares two texts with a separator behind them, and what it    *)
(* finds out is whether one path is below the other, name by name.  read and   *)
(* grep are loops over lines, find, grep, tree and the file browser recursions  *)
(* over a tree; what they answer is compared with what is in the file or tree.  *)
(*                                                                           *)
(* All of these are data, so their properties need induction; the rule is       *)
(* proved here from the order of the natural numbers, with a set in the place   *)
(* of a predicate.                                                           *)
(***************************************************************************)
EXTENDS Readers, SequenceTheorems, WellFoundedInduction, TLAPS

-------------------------------------------------------------------------------
(* Induction and recursion.                                                   *)

\* A set of numbers with 0 and all successors is Nat: it has no least gap.
LEMMA NatInduct ==
  ASSUME NEW A \in SUBSET Nat, 0 \in A, \A n \in A : n + 1 \in A
  PROVE  A = Nat
<1> SUFFICES ASSUME Nat \ A # {} PROVE FALSE
  OBVIOUS
<1>1. PICK R : R = OpToRel(<, Nat)
  OBVIOUS
<1>2. IsWellFoundedOn(R, Nat)
  BY <1>1, NatLessThanWellFounded
<1>3. PICK B : B = Nat \ A /\ B \subseteq Nat /\ B # {}
  OBVIOUS
<1>4. PICK x \in B : \A y \in B : ~ (<<y, x>> \in R)
  BY <1>2, <1>3, WFMin
<1>5. x \in Nat /\ x # 0 /\ x - 1 \in Nat /\ (x - 1) + 1 = x
  BY <1>3, <1>4
<1>6. x - 1 \in B
  BY <1>3, <1>5
<1>7. <<x - 1, x>> \in R
  BY <1>1, <1>5 DEF OpToRel
<1> QED BY <1>4, <1>6, <1>7

\* A sequence that is not empty is what is before its last element, and that element.
LEMMA FrontLast ==
  ASSUME NEW S, NEW s \in Seq(S), s # <<>>
  PROVE  /\ Front(s) \in Seq(S) /\ Len(s) = Len(Front(s)) + 1 /\ Last(s) \in S
         /\ s = Append(Front(s), Last(s))
<1>1. PICK n \in Nat : n + 1 = Len(s)
  <2>1. PICK m \in Nat : m = Len(s) /\ m # 0
    OBVIOUS
  <2>2. m - 1 \in Nat /\ (m - 1) + 1 = Len(s)
    BY <2>1
  <2> QED BY <2>2
<1>2. PICK f, x : f = SubSeq(s, 1, n) /\ x = s[n + 1]
  OBVIOUS
<1>3. f \in Seq(S) /\ Len(f) = n /\ x \in S /\ \A i \in 1..n : f[i] = s[i]
  BY <1>1, <1>2
<1>4. s = Append(f, x)
  <2>1. /\ Append(f, x) \in Seq(S) /\ Len(Append(f, x)) = n + 1
        /\ Append(f, x)[n + 1] = x /\ \A i \in 1..n : Append(f, x)[i] = f[i]
    BY <1>3, AppendProperties
  <2>2. \A i \in 1..(n + 1) : Append(f, x)[i] = s[i]
    BY <1>2, <1>3, <2>1
  <2> QED BY <1>1, <2>1, <2>2, SeqEqual
<1>5. f = Front(s) /\ x = Last(s)
  BY <1>1, <1>2 DEF Front, Last
<1> QED BY <1>1, <1>3, <1>4, <1>5

LEMMA FrontAppend ==
  ASSUME NEW S, NEW s \in Seq(S), NEW x \in S
  PROVE  /\ Append(s, x) \in Seq(S) /\ Append(s, x) # <<>>
         /\ Front(Append(s, x)) = s /\ Last(Append(s, x)) = x
<1>1. PICK t : t = Append(s, x)
  OBVIOUS
<1>2. t \in Seq(S) /\ t # <<>>
  BY <1>1, AppendProperties
<1>3. t = Append(Front(t), Last(t)) /\ Front(t) \in Seq(S) /\ Last(t) \in S
  BY <1>2, FrontLast
<1> QED BY <1>1, <1>2, <1>3, AppendInjective

\* A set of sequences with the empty one and all that are longer by one has them all.
LEMMA SeqInduct ==
  ASSUME NEW S, NEW A \in SUBSET Seq(S), <<>> \in A,
         \A s \in A : \A x \in S : Append(s, x) \in A
  PROVE  A = Seq(S)
<1>1. PICK N : N = {n \in Nat : \A s \in Seq(S) : Len(s) = n => s \in A}
  OBVIOUS
<1>2. 0 \in N
  <2>1. \A s \in Seq(S) : Len(s) = 0 => s = <<>>
    OBVIOUS
  <2> QED BY <1>1, <2>1
<1>3. ASSUME NEW n \in N PROVE n + 1 \in N
  <2>1. ASSUME NEW s \in Seq(S), Len(s) = n + 1 PROVE s \in A
    <3>1. n \in Nat /\ s # <<>>
      BY <1>1, <2>1
    <3>2. /\ Front(s) \in Seq(S) /\ Len(s) = Len(Front(s)) + 1 /\ Last(s) \in S
          /\ s = Append(Front(s), Last(s))
      BY <3>1, FrontLast
    <3>3. Len(Front(s)) = n
      BY <2>1, <3>1, <3>2
    <3>4. Front(s) \in A
      BY <1>1, <3>2, <3>3
    <3> QED BY <3>2, <3>4
  <2> QED BY <1>1, <2>1
<1>4. N = Nat
  BY <1>1, <1>2, <1>3, NatInduct
<1>5. ASSUME NEW s \in Seq(S) PROVE s \in A
  <2>1. Len(s) \in N
    BY <1>4
  <2> QED BY <1>1, <2>1
<1> QED BY <1>5

\* f is given by b and g on the sequences of at most n elements.
Upto(S, n) == {s \in Seq(S) : Len(s) <= n}
Solves(S, T, b, g, f, n) ==
  /\ f \in [Upto(S, n) -> T]
  /\ \A s \in Upto(S, n) : f[s] = IF s = <<>> THEN b ELSE g[<<f[Front(s)], Last(s)>>]

\* What a step of the recursion makes of the result so far and the next element.
Steps(S, T) == [T \X S -> T]

\* There is such a function for every length.
LEMMA SolvedUpto ==
  ASSUME NEW S, NEW T, NEW b \in T, NEW g \in Steps(S, T), NEW n \in Nat
  PROVE  \E f : Solves(S, T, b, g, f, n)
<1>1. PICK N : N = {m \in Nat : \E f : Solves(S, T, b, g, f, m)}
  OBVIOUS
<1>2. 0 \in N
  <2>1. PICK f : f = [s \in Upto(S, 0) |-> b]
    OBVIOUS
  <2>2. \A s \in Upto(S, 0) : s = <<>>
    BY DEF Upto
  <2>3. Solves(S, T, b, g, f, 0)
    BY <2>1, <2>2 DEF Solves
  <2> QED BY <1>1, <2>3
<1>3. ASSUME NEW m \in N PROVE m + 1 \in N
  <2>1. PICK f : Solves(S, T, b, g, f, m)
    BY <1>1
  <2>2. m \in Nat
    BY <1>1
  <2>3. ASSUME NEW s \in Upto(S, m + 1), s # <<>>
        PROVE  Front(s) \in Upto(S, m) /\ Front(s) \in Upto(S, m + 1) /\ Last(s) \in S
    <3>1. s \in Seq(S) /\ Len(s) \in Nat /\ Len(s) <= m + 1
      BY DEF Upto
    <3>2. Front(s) \in Seq(S) /\ Len(s) = Len(Front(s)) + 1 /\ Last(s) \in S
      BY <2>3, <3>1, FrontLast
    <3>3. Len(Front(s)) \in Nat
      BY <3>2
    <3>4. Len(Front(s)) <= m /\ Len(Front(s)) <= m + 1
      BY <2>2, <3>1, <3>2, <3>3
    <3> QED BY <3>2, <3>4 DEF Upto
  <2>4. PICK h : h = [s \in Upto(S, m + 1) |-> IF s = <<>> THEN b ELSE g[<<f[Front(s)], Last(s)>>]]
    OBVIOUS
  <2>5. h \in [Upto(S, m + 1) -> T]
    BY <2>1, <2>3, <2>4 DEF Solves, Steps
  <2>6. \A s \in Upto(S, m) : s \in Upto(S, m + 1) /\ h[s] = f[s]
    <3>1. \A s \in Upto(S, m) : s \in Upto(S, m + 1)
      BY <2>2 DEF Upto
    <3> QED BY <2>1, <2>4, <3>1 DEF Solves
  <2>7. \A s \in Upto(S, m + 1) : h[s] = IF s = <<>> THEN b ELSE g[<<h[Front(s)], Last(s)>>]
    BY <2>3, <2>4, <2>6
  <2>8. Solves(S, T, b, g, h, m + 1)
    BY <2>5, <2>7 DEF Solves
  <2> QED BY <1>1, <2>2, <2>8
<1>4. N = Nat
  BY <1>1, <1>2, <1>3, NatInduct
<1> QED BY <1>1, <1>4

\* Two of them agree where both are given.
LEMMA SolvedOnce ==
  ASSUME NEW S, NEW T, NEW b, NEW g
  PROVE  \A n, m \in Nat : \A f, h :
           Solves(S, T, b, g, f, n) /\ Solves(S, T, b, g, h, m)
             => \A s \in Upto(S, n) \cap Upto(S, m) : f[s] = h[s]
<1> SUFFICES ASSUME NEW n \in Nat, NEW m \in Nat,
                    NEW f, Solves(S, T, b, g, f, n), NEW h, Solves(S, T, b, g, h, m),
                    NEW s \in Upto(S, n) \cap Upto(S, m)
             PROVE  f[s] = h[s]
  OBVIOUS
<1>1. PICK A : A = {t \in Seq(S) : t \in Upto(S, n) /\ t \in Upto(S, m) => f[t] = h[t]}
  OBVIOUS
<1>2. <<>> \in A
  <2>1. <<>> \in Seq(S)
    OBVIOUS
  <2> QED BY <1>1, <2>1 DEF Solves
<1>3. ASSUME NEW t \in A, NEW x \in S PROVE Append(t, x) \in A
  <2>1. PICK u : u = Append(t, x)
    OBVIOUS
  <2>2. t \in Seq(S) /\ u \in Seq(S) /\ u # <<>> /\ Front(u) = t /\ Last(u) = x
    BY <1>1, <2>1, FrontAppend
  <2>3. Len(u) = Len(t) + 1 /\ Len(t) \in Nat
    BY <2>1, <2>2, FrontLast
  <2>4. ASSUME u \in Upto(S, n), u \in Upto(S, m) PROVE f[u] = h[u]
    <3>1. t \in Upto(S, n) /\ t \in Upto(S, m)
      BY <2>2, <2>3, <2>4 DEF Upto
    <3>2. f[t] = h[t]
      BY <1>1, <3>1
    <3> QED BY <2>2, <2>4, <3>2 DEF Solves
  <2> QED BY <1>1, <2>1, <2>2, <2>4
<1>4. A = Seq(S)
  BY <1>1, <1>2, <1>3, SeqInduct
<1> QED BY <1>1, <1>4 DEF Upto

\* A function on sequences may be defined by what it is on the empty one and by what
\* it makes of the last element.
LEMMA Recursion ==
  ASSUME NEW S, NEW T, NEW b \in T, NEW g \in Steps(S, T)
  PROVE  \E f \in [Seq(S) -> T] :
           \A s \in Seq(S) : f[s] = IF s = <<>> THEN b ELSE g[<<f[Front(s)], Last(s)>>]
<1>0. \A n, m \in Nat : \A f, h :
        Solves(S, T, b, g, f, n) /\ Solves(S, T, b, g, h, m)
          => \A s \in Upto(S, n) \cap Upto(S, m) : f[s] = h[s]
  BY SolvedOnce
<1>1. PICK F : F = [n \in Nat |-> CHOOSE f : Solves(S, T, b, g, f, n)]
  OBVIOUS
<1>2. \A n \in Nat : Solves(S, T, b, g, F[n], n)
  BY <1>1, SolvedUpto
<1>3. PICK h : h = [s \in Seq(S) |-> F[Len(s)][s]]
  OBVIOUS
<1>4. \A s \in Seq(S) : Len(s) \in Nat /\ s \in Upto(S, Len(s))
  BY DEF Upto
<1>5. h \in [Seq(S) -> T]
  BY <1>2, <1>3, <1>4 DEF Solves
<1>6. ASSUME NEW s \in Seq(S)
      PROVE  h[s] = IF s = <<>> THEN b ELSE g[<<h[Front(s)], Last(s)>>]
  <2>1. CASE s = <<>>
    BY <1>2, <1>3, <1>4, <2>1 DEF Solves
  <2>2. CASE s # <<>>
    <3>1. PICK t \in Seq(S) : t = Front(s) /\ Len(s) = Len(t) + 1
      BY <2>2, FrontLast
    <3>2. PICK n \in Nat, m \in Nat : n = Len(s) /\ m = Len(t) /\ n = m + 1
      BY <1>4, <3>1
    <3>3. t \in Upto(S, n) /\ t \in Upto(S, m) /\ s \in Upto(S, n)
      <4>1. Len(t) <= m /\ Len(t) <= n /\ Len(s) <= n
        BY <3>2
      <4> QED BY <4>1 DEF Upto
    <3>4. F[n][t] = F[m][t]
      <4>1. PICK u, v : u = F[n] /\ v = F[m]
        OBVIOUS
      <4>2. Solves(S, T, b, g, u, n) /\ Solves(S, T, b, g, v, m)
        BY <1>2, <4>1
      <4>3. t \in Upto(S, n) \cap Upto(S, m)
        BY <3>3
      <4>4. u[t] = v[t]
        BY <1>0, <4>2, <4>3
      <4> QED BY <4>1, <4>4
    <3>5. h[s] = F[n][s] /\ h[t] = F[m][t]
      BY <1>3, <3>2
    <3>6. F[n][s] = g[<<F[n][t], Last(s)>>]
      <4>1. Solves(S, T, b, g, F[n], n) /\ s \in Upto(S, n)
        BY <1>2, <3>3
      <4>2. F[n][s] = IF s = <<>> THEN b ELSE g[<<F[n][Front(s)], Last(s)>>]
        BY <4>1 DEF Solves
      <4> QED BY <2>2, <3>1, <4>2
    <3> QED BY <2>2, <3>1, <3>4, <3>5, <3>6
  <2> QED BY <2>1, <2>2
<1> QED BY <1>5, <1>6

-------------------------------------------------------------------------------
(* The recursive functions of the sandbox.                                    *)

\* What texts are made of.
Symbols == STRING \cup {"/"}

\* A text without and with a name more.
LEMMA JoinedUnfolds ==
  /\ Joined \in [Seq(Names) -> Seq(Symbols)]
  /\ Joined[<<>>] = <<>>
  /\ \A s \in Seq(Names), n \in Names :
       Joined[Append(s, n)] = Joined[s] \o Separator \o Chars[n]
<1>1. Separator \in Seq(Symbols) /\ <<>> \in Seq(Symbols) /\ <<>> \in Seq(Names)
  <2>1. <<>> \in Seq(Symbols) /\ <<>> \in Seq(Names)
    OBVIOUS
  <2> QED BY <2>1 DEF Separator, Symbols
<1>2. \A n \in Names : Chars[n] \in Seq(Symbols)
  BY CharsAssumption DEF Symbols
<1>3. PICK g : g = [p \in Seq(Symbols) \X Names |-> p[1] \o Separator \o Chars[p[2]]]
  OBVIOUS
<1>4. g \in [Seq(Symbols) \X Names -> Seq(Symbols)]
  BY <1>1, <1>2, <1>3
<1>5. PICK f \in [Seq(Names) -> Seq(Symbols)] :
        \A s \in Seq(Names) : f[s] = IF s = <<>> THEN <<>> ELSE g[<<f[Front(s)], Last(s)>>]
  <2>1. PICK Elems, Values, none : Elems = Names /\ Values = Seq(Symbols) /\ none = <<>>
    OBVIOUS
  <2>2. none \in Values /\ g \in Steps(Elems, Values)
    BY <1>1, <1>4, <2>1 DEF Steps
  <2>3. \E f \in [Seq(Elems) -> Values] :
          \A s \in Seq(Elems) : f[s] = IF s = <<>> THEN none ELSE g[<<f[Front(s)], Last(s)>>]
    BY <2>2, Recursion
  <2> QED BY <2>1, <2>3
<1>6. \A s \in Seq(Names) : s # <<>> => Front(s) \in Seq(Names) /\ Last(s) \in Names
  BY FrontLast
<1>7. \A s \in Seq(Names) :
        f[s] = IF s = <<>> THEN <<>> ELSE f[Front(s)] \o Separator \o Chars[Last(s)]
  BY <1>3, <1>5, <1>6
<1>8. f = [s \in Seq(Names) |->
            IF s = <<>> THEN <<>> ELSE f[Front(s)] \o Separator \o Chars[Last(s)]]
  BY <1>5, <1>7
<1>9. Joined = [s \in Seq(Names) |->
                 IF s = <<>> THEN <<>> ELSE Joined[Front(s)] \o Separator \o Chars[Last(s)]]
  BY <1>8 DEF Joined
<1>10. ASSUME NEW s \in Seq(Names) PROVE Joined[s] = f[s]
  <2>1. PICK A : A = {t \in Seq(Names) : Joined[t] = f[t]}
    OBVIOUS
  <2>2. <<>> \in A
    BY <1>1, <1>7, <1>9, <2>1
  <2>3. ASSUME NEW t \in A, NEW n \in Names PROVE Append(t, n) \in A
    <3>1. PICK u : u = Append(t, n)
      OBVIOUS
    <3>2. u \in Seq(Names) /\ u # <<>> /\ Front(u) = t
      BY <2>1, <3>1, FrontAppend
    <3>3. Joined[u] = Joined[t] \o Separator \o Chars[Last(u)]
      BY <1>9, <3>2
    <3>4. f[u] = f[t] \o Separator \o Chars[Last(u)]
      BY <1>7, <3>2
    <3> QED BY <2>1, <3>1, <3>2, <3>3, <3>4
  <2>4. A = Seq(Names)
    BY <2>1, <2>2, <2>3, SeqInduct
  <2> QED BY <2>1, <2>4
<1>11. Joined \in [Seq(Names) -> Seq(Symbols)]
  BY <1>5, <1>9, <1>10
<1>12. Joined[<<>>] = <<>>
  BY <1>1, <1>9
<1>13. ASSUME NEW s \in Seq(Names), NEW n \in Names
       PROVE  Joined[Append(s, n)] = Joined[s] \o Separator \o Chars[n]
  <2>1. PICK u : u = Append(s, n)
    OBVIOUS
  <2>2. u \in Seq(Names) /\ u # <<>> /\ Front(u) = s /\ Last(u) = n
    BY <2>1, FrontAppend
  <2> QED BY <1>9, <2>1, <2>2
<1> QED BY <1>11, <1>12, <1>13

\* What filepath.Clean does at a name of the path.
OneName(done, name) ==
  CASE name \in {".", ""} -> done
    [] name = ".." -> IF done = <<>> THEN done ELSE Front(done)
    [] OTHER -> Append(done, name)

LEMMA OneNameType ==
  ASSUME NEW done \in Seq(Names), NEW name \in Names \cup Dots
  PROVE  OneName(done, name) \in Seq(Names)
<1>1. CASE name \in {".", ""}
  BY <1>1 DEF OneName
<1>2. CASE name = ".."
  <2>1. done # <<>> => Front(done) \in Seq(Names)
    BY FrontLast
  <2> QED BY <1>2, <2>1 DEF OneName
<1>3. CASE name \notin Dots
  <2>1. name \in Names
    BY <1>3
  <2>2. Append(done, name) \in Seq(Names)
    BY <2>1
  <2> QED BY <1>3, <2>2 DEF Dots, OneName
<1> QED BY <1>1, <1>2, <1>3 DEF Dots

LEMMA CleanedUnfolds ==
  \A s \in Seq(Names \cup Dots) :
    Cleaned[s] = IF s = <<>> THEN <<>> ELSE OneName(Cleaned[Front(s)], Last(s))
<1>1. <<>> \in Seq(Names)
  OBVIOUS
<1>2. PICK g : g = [p \in Seq(Names) \X (Names \cup Dots) |-> OneName(p[1], p[2])]
  OBVIOUS
<1>3. g \in [Seq(Names) \X (Names \cup Dots) -> Seq(Names)]
  BY <1>2, OneNameType
<1>4. PICK f \in [Seq(Names \cup Dots) -> Seq(Names)] :
        \A s \in Seq(Names \cup Dots) :
          f[s] = IF s = <<>> THEN <<>> ELSE g[<<f[Front(s)], Last(s)>>]
  <2>1. PICK Elems, Results, none :
          Elems = Names \cup Dots /\ Results = Seq(Names) /\ none = <<>>
    OBVIOUS
  <2>2. none \in Results /\ g \in Steps(Elems, Results)
    BY <1>1, <1>3, <2>1 DEF Steps
  <2>3. \E f \in [Seq(Elems) -> Results] :
          \A s \in Seq(Elems) : f[s] = IF s = <<>> THEN none ELSE g[<<f[Front(s)], Last(s)>>]
    BY <2>2, Recursion
  <2> QED BY <2>1, <2>3
<1>5. \A s \in Seq(Names \cup Dots) :
        s # <<>> => Front(s) \in Seq(Names \cup Dots) /\ Last(s) \in Names \cup Dots
  BY FrontLast
<1>6. \A s \in Seq(Names \cup Dots) :
        f[s] = IF s = <<>> THEN <<>> ELSE OneName(f[Front(s)], Last(s))
  BY <1>2, <1>4, <1>5
<1>7. f = [s \in Seq(Names \cup Dots) |->
            IF s = <<>> THEN <<>> ELSE OneName(f[Front(s)], Last(s))]
  BY <1>4, <1>6
<1>8. Cleaned = [s \in Seq(Names \cup Dots) |->
                  IF s = <<>> THEN <<>> ELSE OneName(Cleaned[Front(s)], Last(s))]
  BY <1>7 DEF Cleaned, OneName
<1> QED BY <1>8

\* filepath.Clean leaves neither dots nor empty names.
LEMMA CleanType ==
  ASSUME NEW path \in Seq(Names \cup Dots)
  PROVE  Clean(path) \in Seq(Names)
<1>1. ASSUME NEW s \in Seq(Names \cup Dots) PROVE Cleaned[s] \in Seq(Names)
  <2>1. PICK A : A = {t \in Seq(Names \cup Dots) : Cleaned[t] \in Seq(Names)}
    OBVIOUS
  <2>2. <<>> \in A
    <3>1. <<>> \in Seq(Names \cup Dots) /\ <<>> \in Seq(Names)
      OBVIOUS
    <3>2. Cleaned[<<>>] = <<>>
      BY <3>1, CleanedUnfolds
    <3> QED BY <2>1, <3>1, <3>2
  <2>3. ASSUME NEW t \in A, NEW n \in Names \cup Dots PROVE Append(t, n) \in A
    <3>1. PICK u : u = Append(t, n)
      OBVIOUS
    <3>2. t \in Seq(Names \cup Dots) /\ Cleaned[t] \in Seq(Names)
      BY <2>1
    <3>3. u \in Seq(Names \cup Dots) /\ u # <<>> /\ Front(u) = t /\ Last(u) = n
      BY <3>1, <3>2, FrontAppend
    <3>4. Cleaned[u] = OneName(Cleaned[t], n)
      BY <3>3, CleanedUnfolds
    <3>5. Cleaned[u] \in Seq(Names)
      BY <3>2, <3>4, OneNameType
    <3> QED BY <2>1, <3>1, <3>3, <3>5
  <2>4. A = Seq(Names \cup Dots)
    BY <2>1, <2>2, <2>3, SeqInduct
  <2> QED BY <2>1, <2>4
<1> QED BY <1>1 DEF Clean

\* It leaves a path without dots and empty names as it is.
LEMMA CleanSame ==
  ASSUME NEW path \in Seq(Names)
  PROVE  Clean(path) = path
<1>1. PICK A : A = {t \in Seq(Names) : Cleaned[t] = t}
  OBVIOUS
<1>2. <<>> \in A
  <2>1. <<>> \in Seq(Names \cup Dots) /\ <<>> \in Seq(Names)
    OBVIOUS
  <2>2. Cleaned[<<>>] = <<>>
    BY <2>1, CleanedUnfolds
  <2> QED BY <1>1, <2>1, <2>2
<1>3. ASSUME NEW t \in A, NEW n \in Names PROVE Append(t, n) \in A
  <2>1. PICK u : u = Append(t, n)
    OBVIOUS
  <2>2. t \in Seq(Names) /\ Cleaned[t] = t
    BY <1>1
  <2>3. u \in Seq(Names) /\ u # <<>> /\ Front(u) = t /\ Last(u) = n
    BY <2>1, <2>2, FrontAppend
  <2>4. u \in Seq(Names \cup Dots)
    BY <2>3
  <2>5. Cleaned[u] = OneName(t, n)
    BY <2>2, <2>3, <2>4, CleanedUnfolds
  <2>6. n \notin Dots
    BY CharsAssumption
  <2>7. OneName(t, n) = u
    BY <2>1, <2>6 DEF OneName, Dots
  <2> QED BY <1>1, <2>1, <2>3, <2>5, <2>7
<1>4. A = Seq(Names)
  BY <1>1, <1>2, <1>3, SeqInduct
<1> QED BY <1>1, <1>4 DEF Clean

-------------------------------------------------------------------------------
(* Texts with a separator behind them.                                        *)

Starts(s, t) == Len(t) >= Len(s) /\ \A i \in 1..Len(s) : t[i] = s[i]

LEMMA PrefixStarts ==
  ASSUME NEW S, NEW s \in Seq(S), NEW t \in Seq(S)
  PROVE  IsPrefix(s, t) <=> Starts(s, t)
<1>1. PICK n \in Nat, m \in Nat : n = Len(s) /\ m = Len(t)
  OBVIOUS
<1>2. CASE n <= m
  <2>1. PICK u, v : u = SubSeq(s, 1, n) /\ v = SubSeq(t, 1, n)
    OBVIOUS
  <2>2. /\ u \in Seq(S) /\ Len(u) = n /\ \A i \in 1..n : u[i] = s[i]
        /\ v \in Seq(S) /\ Len(v) = n /\ \A i \in 1..n : v[i] = t[i]
    BY <1>1, <1>2, <2>1
  <2>3. u = v <=> \A i \in 1..n : u[i] = v[i]
    BY <2>2, SeqEqual
  <2> QED BY <1>1, <1>2, <2>1, <2>2, <2>3 DEF IsPrefix, Starts
<1>3. CASE ~ (n <= m)
  BY <1>1, <1>3 DEF IsPrefix, Starts
<1> QED BY <1>2, <1>3

\* A text with one more name and a separator behind it: the next separator is the last.
Extended(k, n) == k \o Chars[n] \o Separator

LEMMA Longer ==
  ASSUME NEW k \in Seq(Symbols), NEW n \in Names
  PROVE  /\ Extended(k, n) \in Seq(Symbols)
         /\ Len(Extended(k, n)) = Len(k) + Len(Chars[n]) + 1
         /\ Chars[n] \in Seq(Symbols) /\ Len(Chars[n]) \in Nat /\ Len(Chars[n]) >= 1
         /\ Starts(k, Extended(k, n))
         /\ \A i \in 1..Len(Chars[n]) :
              Extended(k, n)[Len(k) + i] = Chars[n][i] /\ Chars[n][i] # "/"
<1>1. PICK c \in Seq(Symbols \ {"/"}) : c = Chars[n] /\ c # <<>>
  <2>1. Symbols \ {"/"} = STRING \ {"/"}
    BY DEF Symbols
  <2> QED BY <2>1, CharsAssumption
<1>2. PICK l \in Nat, m \in Nat : l = Len(k) /\ m = Len(c) /\ m >= 1
  BY <1>1
<1>3. c \in Seq(Symbols) /\ Separator \in Seq(Symbols) /\ Len(Separator) = 1 /\ Separator[1] = "/"
  BY <1>1 DEF Separator, Symbols
<1>4. PICK u : u = k \o c
  OBVIOUS
<1>5. /\ u \in Seq(Symbols) /\ Len(u) = l + m /\ \A i \in 1..l : u[i] = k[i]
      /\ \A i \in 1..m : u[l + i] = c[i]
  BY <1>2, <1>3, <1>4
<1>6. PICK t : t = u \o Separator
  OBVIOUS
<1>7. /\ t \in Seq(Symbols) /\ Len(t) = l + m + 1 /\ \A i \in 1..(l + m) : t[i] = u[i]
      /\ t[l + m + 1] = "/"
  <2>1. PICK sep \in Seq(Symbols) : sep = Separator /\ Len(sep) = 1 /\ sep[1] = "/"
    BY <1>3
  <2>2. /\ t \in Seq(Symbols) /\ Len(t) = Len(u) + Len(sep)
        /\ \A i \in 1..(Len(u) + Len(sep)) :
             t[i] = IF i <= Len(u) THEN u[i] ELSE sep[i - Len(u)]
    BY <1>5, <1>6, <2>1, ConcatProperties
  <2>3. PICK q \in Nat : q = l + m /\ q + 1 \in 1..(q + 1) /\ (q + 1) - q = 1 /\ ~ (q + 1 <= q)
    OBVIOUS
  <2>4. \A i \in 1..(q + 1) : t[i] = IF i <= q THEN u[i] ELSE sep[i - q]
    BY <1>5, <2>1, <2>2, <2>3
  <2> QED BY <1>5, <2>1, <2>2, <2>3, <2>4
<1>8. Starts(k, t)
  BY <1>2, <1>5, <1>7 DEF Starts
<1>9. ASSUME NEW i \in 1..m PROVE t[l + i] = c[i] /\ c[i] # "/"
  <2>1. i \in Nat /\ l + i \in 1..(l + m)
    BY <1>2
  <2>2. t[l + i] = u[l + i]
    BY <1>7, <2>1
  <2>3. u[l + i] = c[i]
    BY <1>5
  <2>4. c[i] \in Symbols \ {"/"}
    <3>1. i \in 1..Len(c)
      BY <1>2
    <3> QED BY <1>1, <3>1
  <2> QED BY <2>2, <2>3, <2>4
<1>10. t = Extended(k, n)
  BY <1>1, <1>4, <1>6 DEF Extended
<1> QED BY <1>1, <1>2, <1>3, <1>7, <1>8, <1>9, <1>10

\* A path as the sandbox compares it, but for the root, which this gives one separator.
Ended(path) == Joined[path] \o Separator

\* What a path is made of: nothing, or a shorter one and a name.
LEMMA EndedUnfolds ==
  /\ Ended(<<>>) = Separator
  /\ \A s \in Seq(Names), n \in Names : Ended(Append(s, n)) = Extended(Ended(s), n)
  /\ \A s \in Seq(Names) : Ended(s) \in Seq(Symbols) /\ Len(Ended(s)) >= 1
<1>1. Separator \in Seq(Symbols) /\ Len(Separator) = 1
  BY DEF Separator, Symbols
<1>2. Ended(<<>>) = Separator
  BY <1>1, JoinedUnfolds DEF Ended
<1>3. ASSUME NEW s \in Seq(Names), NEW n \in Names
      PROVE  Ended(Append(s, n)) = Extended(Ended(s), n)
  <2>1. PICK j \in Seq(Symbols), c \in Seq(Symbols) : j = Joined[s] /\ c = Chars[n]
    BY JoinedUnfolds, CharsAssumption DEF Symbols
  <2>2. Joined[Append(s, n)] = j \o Separator \o c
    BY <2>1, JoinedUnfolds
  <2> QED BY <1>1, <2>1, <2>2 DEF Ended, Extended
<1>4. ASSUME NEW s \in Seq(Names) PROVE Ended(s) \in Seq(Symbols) /\ Len(Ended(s)) >= 1
  <2>1. PICK j \in Seq(Symbols) : j = Joined[s]
    BY JoinedUnfolds
  <2>2. PICK m \in Nat : m = Len(j)
    OBVIOUS
  <2>3. PICK sep \in Seq(Symbols) : sep = Separator /\ Len(sep) = 1
    BY <1>1
  <2>4. j \o sep \in Seq(Symbols) /\ Len(j \o sep) = Len(j) + Len(sep)
    BY ConcatProperties
  <2> QED BY <2>1, <2>2, <2>3, <2>4 DEF Ended
<1> QED BY <1>2, <1>3, <1>4

LEMMA EndedLast ==
  \A s \in Seq(Names) : Ended(s)[Len(Ended(s))] = "/"
<1> SUFFICES ASSUME NEW s \in Seq(Names) PROVE Ended(s)[Len(Ended(s))] = "/"
  OBVIOUS
<1>1. PICK j \in Seq(Symbols), sep \in Seq(Symbols) :
        j = Joined[s] /\ sep = Separator /\ Len(sep) = 1 /\ sep[1] = "/"
  <2>1. Joined[s] \in Seq(Symbols)
    BY JoinedUnfolds
  <2>2. Separator \in Seq(Symbols) /\ Len(Separator) = 1 /\ Separator[1] = "/"
    BY DEF Separator, Symbols
  <2> QED BY <2>1, <2>2
<1>2. PICK l \in Nat : l = Len(j) /\ l + 1 \in 1..(l + 1) /\ ~ (l + 1 <= l) /\ (l + 1) - l = 1
  OBVIOUS
<1>3. PICK t : t = j \o sep
  OBVIOUS
<1>4. /\ Len(t) = Len(j) + Len(sep)
      /\ \A i \in 1..(Len(j) + Len(sep)) : t[i] = IF i <= Len(j) THEN j[i] ELSE sep[i - Len(j)]
  BY <1>3, ConcatProperties
<1>5. t = Ended(s)
  BY <1>1, <1>3 DEF Ended
<1> QED BY <1>1, <1>2, <1>4, <1>5

LEMMA StartsFacts ==
  ASSUME NEW S
  PROVE  /\ \A s \in Seq(S) : Starts(<<>>, s) /\ Starts(s, s)
         /\ \A r, s, t \in Seq(S) : Starts(r, s) /\ Starts(s, t) => Starts(r, t)
         /\ \A s, t \in Seq(S) : Starts(s, t) /\ Len(s) = Len(t) => s = t
         /\ \A s \in Seq(S), x \in S : Starts(s, Append(s, x))
         /\ \A r, s \in Seq(S), x \in S :
              Starts(r, Append(s, x)) => Starts(r, s) \/ r = Append(s, x)
<1>1. \A s \in Seq(S) : Starts(<<>>, s) /\ Starts(s, s)
  BY DEF Starts
<1>2. ASSUME NEW r \in Seq(S), NEW s \in Seq(S), NEW t \in Seq(S), Starts(r, s), Starts(s, t)
      PROVE  Starts(r, t)
  <2>1. PICK l \in Nat, m \in Nat, n \in Nat : l = Len(r) /\ m = Len(s) /\ n = Len(t)
    OBVIOUS
  <2>2. l <= m /\ m <= n /\ (\A i \in 1..l : s[i] = r[i]) /\ (\A i \in 1..m : t[i] = s[i])
    BY <1>2, <2>1 DEF Starts
  <2>3. l <= n /\ \A i \in 1..l : i \in 1..m
    BY <2>2
  <2> QED BY <2>1, <2>2, <2>3 DEF Starts
<1>3. ASSUME NEW s \in Seq(S), NEW t \in Seq(S), Starts(s, t), Len(s) = Len(t)
      PROVE  s = t
  <2>1. \A i \in 1..Len(s) : s[i] = t[i]
    BY <1>3 DEF Starts
  <2> QED BY <1>3, <2>1, SeqEqual
<1>4. ASSUME NEW s \in Seq(S), NEW x \in S PROVE Starts(s, Append(s, x))
  BY AppendProperties DEF Starts
<1>5. ASSUME NEW r \in Seq(S), NEW s \in Seq(S), NEW x \in S, Starts(r, Append(s, x))
      PROVE  Starts(r, s) \/ r = Append(s, x)
  <2>1. PICK t \in Seq(S) : t = Append(s, x)
    BY AppendProperties
  <2>2. Len(t) = Len(s) + 1 /\ \A i \in 1..Len(s) : t[i] = s[i]
    BY <2>1, AppendProperties
  <2>3. PICK l \in Nat, m \in Nat : l = Len(r) /\ m = Len(s)
    OBVIOUS
  <2>4. CASE l <= m
    <3>1. \A i \in 1..l : i \in 1..m /\ t[i] = r[i]
      BY <1>5, <2>1, <2>3, <2>4 DEF Starts
    <3> QED BY <2>2, <2>3, <2>4, <3>1 DEF Starts
  <2>5. CASE ~ (l <= m)
    <3>1. l <= m + 1
      BY <1>5, <2>1, <2>2, <2>3 DEF Starts
    <3>2. Len(r) = Len(t)
      BY <2>2, <2>3, <2>5, <3>1
    <3> QED BY <1>3, <1>5, <2>1, <3>2
  <2> QED BY <2>4, <2>5
<1> QED BY <1>1, <1>2, <1>3, <1>4, <1>5

\* What a path adds to a shorter one.
LEMMA OneLonger ==
  ASSUME NEW a \in Seq(Names), NEW n \in Names
  PROVE  /\ Ended(a) \in Seq(Symbols) /\ Len(Ended(a)) \in Nat /\ Len(Ended(a)) >= 1
         /\ Ended(Append(a, n)) \in Seq(Symbols)
         /\ Len(Ended(Append(a, n))) = Len(Ended(a)) + Len(Chars[n]) + 1
         /\ Chars[n] \in Seq(Symbols) /\ Len(Chars[n]) \in Nat /\ Len(Chars[n]) >= 1
         /\ Starts(Ended(a), Ended(Append(a, n)))
         /\ \A i \in 1..Len(Chars[n]) :
              Ended(Append(a, n))[Len(Ended(a)) + i] = Chars[n][i] /\ Chars[n][i] # "/"
<1>1. Ended(a) \in Seq(Symbols) /\ Len(Ended(a)) >= 1
  BY EndedUnfolds
<1>2. Len(Ended(a)) \in Nat
  BY <1>1
<1>3. Ended(Append(a, n)) = Extended(Ended(a), n)
  BY EndedUnfolds
<1>4. PICK k \in Seq(Symbols) : k = Ended(a)
  BY <1>1
<1>5. /\ Extended(k, n) \in Seq(Symbols)
      /\ Len(Extended(k, n)) = Len(k) + Len(Chars[n]) + 1
      /\ Chars[n] \in Seq(Symbols) /\ Len(Chars[n]) \in Nat /\ Len(Chars[n]) >= 1
      /\ Starts(k, Extended(k, n))
      /\ \A i \in 1..Len(Chars[n]) :
           Extended(k, n)[Len(k) + i] = Chars[n][i] /\ Chars[n][i] # "/"
  BY Longer
<1> QED BY <1>1, <1>2, <1>3, <1>4, <1>5

\* No path ends within the last name of another.
LEMMA EndsBefore ==
  ASSUME NEW a \in Seq(Names), NEW n \in Names, NEW w \in Seq(Names),
         Starts(Ended(w), Ended(Append(a, n)))
  PROVE  \/ Starts(Ended(w), Ended(a))
         \/ Len(Ended(w)) = Len(Ended(Append(a, n)))
<1>1. PICK k, t, c, e : k = Ended(a) /\ t = Ended(Append(a, n)) /\ c = Chars[n] /\ e = Ended(w)
  OBVIOUS
<1>2. /\ k \in Seq(Symbols) /\ t \in Seq(Symbols) /\ c \in Seq(Symbols)
      /\ Len(t) = Len(k) + Len(c) + 1 /\ Starts(k, t)
      /\ \A i \in 1..Len(c) : t[Len(k) + i] = c[i] /\ c[i] # "/"
  BY <1>1, OneLonger
<1>3. e \in Seq(Symbols) /\ Len(e) >= 1 /\ e[Len(e)] = "/" /\ Starts(e, t)
  BY <1>1, EndedUnfolds, EndedLast
<1>4. PICK l \in Nat, m \in Nat, q \in Nat : l = Len(k) /\ m = Len(c) /\ q = Len(e)
  BY <1>2, <1>3
<1>5. q <= l + m + 1 /\ q >= 1 /\ t[q] = "/" /\ \A i \in 1..q : t[i] = e[i]
  BY <1>2, <1>3, <1>4 DEF Starts
<1>6. CASE q <= l
  <2>1. \A i \in 1..q : i \in 1..l /\ k[i] = e[i]
    BY <1>2, <1>4, <1>5, <1>6 DEF Starts
  <2>2. Starts(e, k)
    BY <1>4, <1>6, <2>1 DEF Starts
  <2> QED BY <1>1, <2>2
<1>7. CASE q > l /\ q <= l + m
  <2>1. PICK i \in 1..m : q = l + i
    <3>1. q - l \in 1..m /\ q = l + (q - l)
      BY <1>7
    <3> QED BY <3>1
  <2>2. t[q] # "/"
    BY <1>2, <1>4, <2>1
  <2> QED BY <1>5, <2>2
<1>8. CASE q = l + m + 1
  BY <1>1, <1>2, <1>4, <1>8
<1> QED BY <1>5, <1>6, <1>7, <1>8

\* A path that is not empty has more than the separator.
LEMMA EndedLength ==
  ASSUME NEW w \in Seq(Names), w # <<>>
  PROVE  Len(Ended(w)) >= 3 /\ \E b \in Seq(Names), m \in Names : w = Append(b, m)
<1>1. PICK b \in Seq(Names), m \in Names : w = Append(b, m)
  BY FrontLast
<1>2. PICK l \in Nat, q \in Nat :
        l = Len(Ended(b)) /\ q = Len(Chars[m]) /\ l >= 1 /\ q >= 1 /\ Len(Ended(w)) = l + q + 1
  BY <1>1, OneLonger
<1> QED BY <1>1, <1>2

\* Two paths that end with a name and have the same text: the names are the same,
\* and the texts before them.
LEMMA SameEnd ==
  ASSUME NEW a \in Seq(Names), NEW n \in Names, NEW b \in Seq(Names), NEW m \in Names,
         Ended(Append(b, m)) = Ended(Append(a, n))
  PROVE  Ended(b) = Ended(a) /\ m = n
<1>1. PICK k, t, c, e, d :
        k = Ended(a) /\ t = Ended(Append(a, n)) /\ c = Chars[n] /\ e = Ended(b) /\ d = Chars[m]
  OBVIOUS
<1>2. /\ k \in Seq(Symbols) /\ c \in Seq(Symbols) /\ t \in Seq(Symbols)
      /\ Len(t) = Len(k) + Len(c) + 1 /\ Starts(k, t)
      /\ \A i \in 1..Len(c) : t[Len(k) + i] = c[i]
  BY <1>1, OneLonger
<1>3. /\ e \in Seq(Symbols) /\ d \in Seq(Symbols)
      /\ Len(t) = Len(e) + Len(d) + 1 /\ Starts(e, t)
      /\ \A i \in 1..Len(d) : t[Len(e) + i] = d[i]
  BY <1>1, OneLonger
<1>4. PICK l \in Nat, q \in Nat, x \in Nat, y \in Nat :
        l = Len(k) /\ q = Len(c) /\ x = Len(e) /\ y = Len(d)
  BY <1>2, <1>3
<1>5. l + q = x + y
  <2>1. PICK z \in Nat : z = Len(t)
    BY <1>2
  <2>2. z = l + q + 1
    BY <1>2, <1>4, <2>1
  <2>3. z = x + y + 1
    BY <1>3, <1>4, <2>1
  <2> QED BY <2>2, <2>3
<1>6. Len(e) # Len(t) /\ Len(k) # Len(t)
  BY <1>2, <1>3, <1>4
<1>7. Starts(e, k)
  BY <1>1, <1>3, <1>6, EndsBefore
<1>8. Starts(k, e)
  BY <1>1, <1>2, <1>6, EndsBefore
<1>9. l = x /\ q = y
  BY <1>4, <1>5, <1>7, <1>8 DEF Starts
<1>10. e = k
  <2>1. Len(e) = Len(k)
    BY <1>4, <1>9
  <2>2. \A r, s \in Seq(Symbols) : Starts(r, s) /\ Len(r) = Len(s) => r = s
    BY StartsFacts
  <2> QED BY <1>2, <1>3, <1>7, <2>1, <2>2
<1>11. c = d
  <2>1. \A i \in 1..Len(c) : c[i] = d[i]
    BY <1>2, <1>3, <1>4, <1>9
  <2> QED BY <1>2, <1>3, <1>4, <1>9, <2>1, SeqEqual
<1>12. m = n
  BY <1>1, <1>11, CharsAssumption
<1> QED BY <1>1, <1>10, <1>12

\* The texts tell whether one path begins with the other.
LEMMA EndedExact ==
  ASSUME NEW a \in Seq(Names), NEW w \in Seq(Names)
  PROVE  Starts(Ended(w), Ended(a)) <=> Starts(w, a)
<1>1. PICK A : A = {r \in Seq(Names) :
                     \A v \in Seq(Names) :
                       /\ Starts(Ended(v), Ended(r)) <=> Starts(v, r)
                       /\ Ended(v) = Ended(r) => v = r}
  OBVIOUS
<1>2. <<>> \in A
  <2>1. <<>> \in Seq(Names) /\ Len(Ended(<<>>)) = 1 /\ Ended(<<>>) \in Seq(Symbols)
    <3>1. <<>> \in Seq(Names) /\ Len(Separator) = 1
      BY DEF Separator
    <3> QED BY <3>1, EndedUnfolds
  <2>2. ASSUME NEW v \in Seq(Names)
        PROVE  /\ Starts(Ended(v), Ended(<<>>)) <=> Starts(v, <<>>)
               /\ Ended(v) = Ended(<<>>) => v = <<>>
    <3>1. CASE v = <<>>
      BY <2>1, <3>1, StartsFacts
    <3>2. CASE v # <<>>
      <4>1. Len(Ended(v)) >= 3
        BY <3>2, EndedLength
      <4>2. ~ Starts(Ended(v), Ended(<<>>)) /\ Ended(v) # Ended(<<>>)
        <5>1. PICK e \in Seq(Symbols), f \in Seq(Symbols) : e = Ended(v) /\ f = Ended(<<>>)
          BY <2>1, EndedUnfolds
        <5>2. PICK q \in Nat : q = Len(e)
          OBVIOUS
        <5>3. ~ (1 >= q) /\ Len(f) = 1
          <6>1. q >= 3
            BY <4>1, <5>1, <5>2
          <6>2. Len(f) = 1
            BY <2>1, <5>1
          <6> QED BY <6>1, <6>2
        <5>4. ~ (Len(f) >= Len(e))
          BY <5>2, <5>3
        <5>5. Len(e) >= Len(e)
          BY <5>2
        <5>6. ~ Starts(e, f)
          BY <5>4 DEF Starts
        <5>7. e # f
          BY <5>4, <5>5
        <5> QED BY <5>1, <5>6, <5>7
      <4>3. ~ Starts(v, <<>>)
        <5>1. PICK q \in Nat : q = Len(v) /\ q # 0
          BY <3>2
        <5>2. Len(<<>>) = 0 /\ ~ (0 >= q)
          BY <5>1
        <5> QED BY <5>1, <5>2 DEF Starts
      <4> QED BY <3>2, <4>2, <4>3
    <3> QED BY <3>1, <3>2
  <2> QED BY <1>1, <2>1, <2>2
<1>3. ASSUME NEW r \in A, NEW n \in Names PROVE Append(r, n) \in A
  <2>1. PICK t : t = Append(r, n)
    OBVIOUS
  <2>2. /\ r \in Seq(Names) /\ t \in Seq(Names)
        /\ \A v \in Seq(Names) : /\ Starts(Ended(v), Ended(r)) <=> Starts(v, r)
                                 /\ Ended(v) = Ended(r) => v = r
    BY <1>1, <2>1, FrontAppend
  <2>3. /\ Ended(r) \in Seq(Symbols) /\ Ended(t) \in Seq(Symbols)
        /\ Starts(Ended(r), Ended(t)) /\ Starts(r, t)
    BY <2>1, <2>2, OneLonger, StartsFacts
  <2>4. ASSUME NEW v \in Seq(Names), Ended(v) = Ended(t) PROVE v = t
    <3>1. Len(Ended(t)) >= 3
      <4>1. t # <<>>
        BY <2>1, <2>2, FrontAppend
      <4> QED BY <2>2, <4>1, EndedLength
    <3>2. v # <<>>
      <4>1. Len(Ended(<<>>)) = 1
        BY EndedUnfolds DEF Separator
      <4>2. PICK e \in Seq(Symbols) : e = Ended(t)
        BY <2>3
      <4>3. PICK q \in Nat : q = Len(e)
        OBVIOUS
      <4>4. q # 1
        <5>1. q >= 3
          BY <3>1, <4>2, <4>3
        <5> QED BY <5>1
      <4> QED BY <2>4, <4>1, <4>2, <4>3, <4>4
    <3>3. PICK b \in Seq(Names), m \in Names : v = Append(b, m)
      BY <3>2, EndedLength
    <3>4. Ended(b) = Ended(r) /\ m = n
      BY <2>1, <2>2, <2>4, <3>3, SameEnd
    <3> QED BY <2>1, <2>2, <3>3, <3>4
  <2>5. ASSUME NEW v \in Seq(Names), Starts(Ended(v), Ended(t)) PROVE Starts(v, t)
    <3>1. CASE Starts(Ended(v), Ended(r))
      <4>1. Starts(v, r)
        BY <2>2, <3>1
      <4> QED BY <2>2, <2>3, <4>1, StartsFacts
    <3>2. CASE Len(Ended(v)) = Len(Ended(t))
      <4>1. Ended(v) \in Seq(Symbols)
        BY EndedUnfolds
      <4>2. Ended(v) = Ended(t)
        BY <2>3, <2>5, <3>2, <4>1, StartsFacts
      <4>3. v = t
        BY <2>4, <4>2
      <4> QED BY <2>2, <4>3, StartsFacts
    <3> QED BY <2>1, <2>2, <2>5, <3>1, <3>2, EndsBefore
  <2>6. ASSUME NEW v \in Seq(Names), Starts(v, t) PROVE Starts(Ended(v), Ended(t))
    <3>1. Ended(v) \in Seq(Symbols)
      BY EndedUnfolds
    <3>2. CASE Starts(v, r)
      <4>1. Starts(Ended(v), Ended(r))
        BY <2>2, <3>2
      <4> QED BY <2>3, <3>1, <4>1, StartsFacts
    <3>3. CASE v = t
      BY <3>1, <3>3, StartsFacts
    <3> QED BY <2>1, <2>2, <2>6, <3>2, <3>3, StartsFacts
  <2> QED BY <1>1, <2>1, <2>2, <2>4, <2>5, <2>6
<1>4. A = Seq(Names)
  BY <1>1, <1>2, <1>3, SeqInduct
<1> QED BY <1>1, <1>4

\* Below the root the first name follows the separator at once.
LEMMA SecondCharacter ==
  ASSUME NEW a \in Seq(Names), a # <<>>
  PROVE  Ended(a)[2] # "/"
<1>1. PICK A : A = {r \in Seq(Names) : r # <<>> => Ended(r)[2] # "/"}
  OBVIOUS
<1>2. <<>> \in A
  <2>1. <<>> \in Seq(Names)
    OBVIOUS
  <2> QED BY <1>1, <2>1
<1>3. ASSUME NEW r \in A, NEW n \in Names PROVE Append(r, n) \in A
  <2>1. PICK t, k, c : t = Ended(Append(r, n)) /\ k = Ended(r) /\ c = Chars[n]
    OBVIOUS
  <2>2. r \in Seq(Names) /\ Append(r, n) \in Seq(Names) /\ (r # <<>> => k[2] # "/")
    BY <1>1, <2>1, FrontAppend
  <2>3. /\ Len(c) \in Nat /\ Len(c) >= 1 /\ Starts(k, t)
        /\ \A i \in 1..Len(c) : t[Len(k) + i] = c[i] /\ c[i] # "/"
    BY <2>1, <2>2, OneLonger
  <2>4. t[2] # "/"
    <3>1. CASE r = <<>>
      <4>1. Len(k) = 1
        BY <2>1, <3>1, EndedUnfolds DEF Separator
      <4>2. 1 \in 1..Len(c)
        BY <2>3
      <4>3. t[Len(k) + 1] # "/"
        BY <2>3, <4>2
      <4>4. Len(k) + 1 = 2
        BY <4>1
      <4> QED BY <4>3, <4>4
    <3>2. CASE r # <<>>
      <4>1. PICK q \in Nat : q = Len(k) /\ q >= 3
        BY <2>1, <2>2, <3>2, EndedLength, OneLonger
      <4>2. 2 \in 1..Len(k)
        BY <4>1
      <4> QED BY <2>2, <2>3, <3>2, <4>2 DEF Starts
    <3> QED BY <3>1, <3>2
  <2> QED BY <1>1, <2>1, <2>2, <2>4
<1>4. A = Seq(Names)
  BY <1>1, <1>2, <1>3, SeqInduct
<1> QED BY <1>1, <1>4

-------------------------------------------------------------------------------
(* What the sandbox accepts.                                                  *)

\* strings.HasPrefix with a separator after both is the order of the directories, but
\* for the root, below which nothing is found.
LEMMA BelowExact ==
  ASSUME NEW workdir \in Seq(Names), NEW abs \in Seq(Names)
  PROVE  Below(workdir, abs) <=> IF workdir = <<>> THEN abs = <<>> ELSE Starts(workdir, abs)
<1>1. PICK root \in Seq(Symbols) :
        root = Separator \o Separator /\ Len(root) = 2 /\ root[1] = "/" /\ root[2] = "/"
  <2>1. PICK sep \in Seq(Symbols) : sep = Separator /\ Len(sep) = 1 /\ sep[1] = "/"
    <3>1. Separator \in Seq(Symbols) /\ Len(Separator) = 1 /\ Separator[1] = "/"
      BY DEF Separator, Symbols
    <3> QED BY <3>1
  <2>2. PICK r : r = sep \o sep
    OBVIOUS
  <2>3. /\ r \in Seq(Symbols) /\ Len(r) = Len(sep) + Len(sep)
        /\ \A i \in 1..(Len(sep) + Len(sep)) :
             r[i] = IF i <= Len(sep) THEN sep[i] ELSE sep[i - Len(sep)]
    BY <2>2, ConcatProperties
  <2>4. Len(r) = 2 /\ \A i \in 1..2 : r[i] = IF i <= 1 THEN sep[i] ELSE sep[i - 1]
    BY <2>1, <2>3
  <2>5. r[1] = "/" /\ r[2] = "/"
    BY <2>1, <2>4
  <2> QED BY <2>1, <2>2, <2>3, <2>4, <2>5
<1>2. \A path \in Seq(Names) :
        /\ Text(path) \o Separator = IF path = <<>> THEN root ELSE Ended(path)
        /\ Ended(path) \in Seq(Symbols)
  BY <1>1, EndedUnfolds DEF Text, Ended
<1>3. CASE workdir # <<>> /\ abs # <<>>
  <2>1. Below(workdir, abs) <=> IsPrefix(Ended(workdir), Ended(abs))
    BY <1>2, <1>3 DEF Below
  <2>2. IsPrefix(Ended(workdir), Ended(abs)) <=> Starts(Ended(workdir), Ended(abs))
    BY <1>2, PrefixStarts
  <2> QED BY <1>3, <2>1, <2>2, EndedExact
<1>4. CASE workdir # <<>> /\ abs = <<>>
  <2>1. Below(workdir, abs) <=> IsPrefix(Ended(workdir), root)
    BY <1>2, <1>4 DEF Below
  <2>2. PICK q \in Nat : q = Len(Ended(workdir)) /\ q >= 3
    BY <1>2, <1>4, EndedLength
  <2>3. ~ IsPrefix(Ended(workdir), root)
    <3>1. Len(Ended(workdir)) # 0 /\ ~ (Len(Ended(workdir)) <= 2)
      BY <2>2
    <3> QED BY <1>1, <3>1 DEF IsPrefix
  <2>4. PICK m \in Nat : m = Len(workdir) /\ m # 0
    BY <1>4
  <2>5. Len(abs) = 0 /\ ~ (0 >= m)
    BY <1>4, <2>4
  <2>6. ~ Starts(workdir, abs)
    BY <2>4, <2>5 DEF Starts
  <2> QED BY <1>4, <2>1, <2>3, <2>6
<1>5. CASE workdir = <<>> /\ abs # <<>>
  <2>1. Below(workdir, abs) <=> IsPrefix(root, Ended(abs))
    BY <1>2, <1>5 DEF Below
  <2>2. IsPrefix(root, Ended(abs)) <=> Starts(root, Ended(abs))
    BY <1>2, PrefixStarts
  <2>3. Ended(abs)[2] # "/"
    BY <1>5, SecondCharacter
  <2>4. 2 \in 1..Len(root)
    BY <1>1
  <2>5. ~ Starts(root, Ended(abs))
    BY <1>1, <2>3, <2>4 DEF Starts
  <2> QED BY <1>5, <2>1, <2>2, <2>5
<1>6. CASE workdir = <<>> /\ abs = <<>>
  <2>1. Below(workdir, abs) <=> IsPrefix(root, root)
    BY <1>2, <1>6 DEF Below
  <2>2. IsPrefix(root, root)
    BY PrefixStarts, StartsFacts
  <2> QED BY <1>6, <2>1, <2>2
<1> QED BY <1>3, <1>4, <1>5, <1>6

\* Resolve, sandbox.go:23-34: whatever the working directory and the path of a command
\* are, dots and doubled separators included, the path it gives is that of a file in the
\* working directory, and it refuses every other one.  No name that begins like the
\* working directory's deceives the comparison of texts.
THEOREM ResolveCorrect == Spec => []ResolveExact
<1> DEFINE Answered == answered => answer = Serve(request)
           IInv == request \in Requests /\ Answered
<1>1. Init => IInv
  BY DEF Init
<1>2. IInv /\ [Next]_vars => IInv'
  <2> SUFFICES ASSUME IInv, [Next]_vars PROVE IInv'
    OBVIOUS
  <2>1. CASE Next
    BY <2>1 DEF Next, Serve
  <2>2. CASE UNCHANGED vars
    BY <2>2 DEF vars, Serve
  <2> QED BY <2>1, <2>2
<1>3. IInv => ResolveExact
  <2> SUFFICES ASSUME IInv, Asked("resolve") PROVE ResolveExact
    BY DEF ResolveExact
  <2>1. request.kind = "resolve" /\ request \in Requests /\ answer = Serve(request)
    BY DEF Asked
  <2>2. request.workdir \in Seq(Names) /\ request.path.names \in Seq(Names \cup Dots)
    BY <2>1, RequestAssumption
  <2>3. PICK names, abs :
          /\ names = IF request.path.abs THEN request.path.names
                     ELSE request.workdir \o request.path.names
          /\ abs = Clean(names)
    OBVIOUS
  <2>4. names \in Seq(Names \cup Dots)
    <3>1. request.workdir \in Seq(Names \cup Dots)
      BY <2>2
    <3> QED BY <2>2, <2>3, <3>1
  <2>5. abs \in Seq(Names)
    BY <2>3, <2>4, CleanType
  <2>6. answer = Resolve(request.workdir, request.path)
    BY <2>1 DEF Serve
  <2>7. answer = IF Below(request.workdir, abs) THEN abs ELSE Escape
    BY <2>3, <2>6 DEF Resolve
  <2>8. Below(request.workdir, abs)
          <=> IF request.workdir = <<>> THEN abs = <<>> ELSE Starts(request.workdir, abs)
    BY <2>2, <2>5, BelowExact
  <2> QED BY <2>3, <2>7, <2>8 DEF ResolveExact, Starts
<1> QED BY <1>1, <1>2, <1>3, PTL DEF Spec

-------------------------------------------------------------------------------
(* Loops over a sequence.                                                     *)

\* A function on 0..n may be defined by its first value and by what a step makes of it.
LEMMA IndexRecursion ==
  ASSUME NEW T, NEW b \in T, NEW n \in Nat, NEW g \in Steps(1..n, T)
  PROVE  \E f \in [0..n -> T] : f[0] = b /\ \A i \in 1..n : f[i] = g[<<f[i - 1], i>>]
<1>1. PICK F \in [Seq(1..n) -> T] :
        \A s \in Seq(1..n) : F[s] = IF s = <<>> THEN b ELSE g[<<F[Front(s)], Last(s)>>]
  <2>1. PICK Elems : Elems = 1..n
    OBVIOUS
  <2>2. g \in Steps(Elems, T)
    BY <2>1
  <2>3. \E f \in [Seq(Elems) -> T] :
          \A s \in Seq(Elems) : f[s] = IF s = <<>> THEN b ELSE g[<<f[Front(s)], Last(s)>>]
    BY <2>2, Recursion
  <2> QED BY <2>1, <2>3
<1>2. PICK I : I = [i \in 0..n |-> [j \in 1..i |-> j]]
  OBVIOUS
<1>3. ASSUME NEW i \in 0..n
      PROVE  I[i] \in Seq(1..n) /\ Len(I[i]) = i /\ \A j \in 1..i : I[i][j] = j
  <2>1. PICK u : u = [j \in 1..i |-> j]
    OBVIOUS
  <2>2. u \in Seq(1..n) /\ Len(u) = i /\ \A j \in 1..i : u[j] = j
    BY <2>1
  <2> QED BY <1>2, <2>1, <2>2
<1>4. I[0] = <<>>
  BY <1>3
<1>5. ASSUME NEW i \in 1..n
      PROVE  I[i] # <<>> /\ Front(I[i]) = I[i - 1] /\ Last(I[i]) = i
  <2>1. i \in 0..n /\ i - 1 \in 0..n /\ (i - 1) + 1 = i /\ i \in 1..n
    OBVIOUS
  <2>2. PICK u \in Seq(1..n), v \in Seq(1..n) : u = I[i] /\ v = I[i - 1]
    BY <1>3, <2>1
  <2>3. /\ Len(u) = i /\ (\A j \in 1..i : u[j] = j)
        /\ Len(v) = i - 1 /\ (\A j \in 1..(i - 1) : v[j] = j)
    BY <1>3, <2>1, <2>2
  <2>4. PICK t : t = Append(v, i)
    OBVIOUS
  <2>5. t \in Seq(1..n) /\ Len(t) = i /\ \A j \in 1..i : t[j] = j
    <3>1. t \in Seq(1..n) /\ Len(t) = Len(v) + 1 /\ t[Len(v) + 1] = i
          /\ \A j \in 1..Len(v) : t[j] = v[j]
      BY <2>1, <2>4, AppendProperties
    <3> QED BY <2>1, <2>3, <3>1
  <2>6. u = t
    BY <2>3, <2>5, SeqEqual
  <2>7. Append(v, i) # <<>> /\ Front(Append(v, i)) = v /\ Last(Append(v, i)) = i
    BY <2>1, FrontAppend
  <2> QED BY <2>2, <2>4, <2>6, <2>7
<1>6. PICK f : f = [i \in 0..n |-> F[I[i]]]
  OBVIOUS
<1>7. f \in [0..n -> T]
  BY <1>1, <1>3, <1>6
<1>8. f[0] = b
  <2>1. 0 \in 0..n
    OBVIOUS
  <2>2. I[0] \in Seq(1..n)
    BY <1>3, <2>1
  <2>3. F[I[0]] = b
    BY <1>1, <1>4, <2>2
  <2> QED BY <1>6, <2>1, <2>3
<1>9. ASSUME NEW i \in 1..n PROVE f[i] = g[<<f[i - 1], i>>]
  <2>1. i \in 0..n /\ i - 1 \in 0..n
    OBVIOUS
  <2>2. I[i] \in Seq(1..n)
    BY <1>3, <2>1
  <2>3. F[I[i]] = g[<<F[I[i - 1]], i>>]
    BY <1>1, <1>5, <2>2
  <2> QED BY <1>6, <2>1, <2>3
<1> QED BY <1>7, <1>8, <1>9

\* The loop of Among.
AmongLoop(s, chosen, f) ==
  /\ f[0] = <<>>
  /\ \A i \in 1..Len(s) :
       f[i] = IF s[i] \in chosen THEN Append(f[i - 1], s[i]) ELSE f[i - 1]
  /\ Among(s, chosen) = f[Len(s)]

LEMMA AmongUnfolds ==
  ASSUME NEW S, NEW s \in Seq(S), NEW chosen
  PROVE  \E f \in [0..Len(s) -> Seq(S)] : AmongLoop(s, chosen, f)
<1>1. PICK n \in Nat : n = Len(s)
  OBVIOUS
<1>2. PICK g : g = [p \in Seq(S) \X (1..n) |-> IF s[p[2]] \in chosen THEN Append(p[1], s[p[2]]) ELSE p[1]]
  OBVIOUS
<1>3. g \in [Seq(S) \X (1..n) -> Seq(S)]
  BY <1>1, <1>2
<1>4. PICK Values, none : Values = Seq(S) /\ none = <<>> /\ none \in Values
  <2>1. <<>> \in Seq(S)
    OBVIOUS
  <2> QED BY <2>1
<1>5. g \in Steps(1..n, Values)
  BY <1>3, <1>4 DEF Steps
<1>6. PICK f \in [0..n -> Values] : f[0] = none /\ \A i \in 1..n : f[i] = g[<<f[i - 1], i>>]
  <2>1. none \in Values
    BY <1>4
  <2> QED BY <1>5, <2>1, IndexRecursion
<1>7. \A i \in 1..n : i - 1 \in 0..n /\ f[i - 1] \in Seq(S)
  BY <1>4, <1>6
<1>8. \A i \in 1..n : f[i] = IF s[i] \in chosen THEN Append(f[i - 1], s[i]) ELSE f[i - 1]
  BY <1>2, <1>6, <1>7
<1>9. f = [i \in 0..n |->
            IF i = 0 THEN <<>>
            ELSE IF s[i] \in chosen THEN Append(f[i - 1], s[i]) ELSE f[i - 1]]
  <2>1. \A i \in 0..n : i # 0 => i \in 1..n
    OBVIOUS
  <2> QED BY <1>4, <1>6, <1>8, <2>1
<1> DEFINE Kept == CHOOSE kept : kept = [i \in 0..Len(s) |->
            IF i = 0 THEN <<>>
            ELSE IF s[i] \in chosen THEN Append(kept[i - 1], s[i]) ELSE kept[i - 1]]
<1>10. Kept = [i \in 0..n |->
            IF i = 0 THEN <<>>
            ELSE IF s[i] \in chosen THEN Append(Kept[i - 1], s[i]) ELSE Kept[i - 1]]
  BY <1>1, <1>9
<1>11. Among(s, chosen) = Kept[n]
  BY <1>1 DEF Among
<1> HIDE DEF Kept
<1>12. PICK k : k = Kept
  OBVIOUS
<1>13. k[0] = <<>> /\ \A i \in 1..n :
         k[i] = IF s[i] \in chosen THEN Append(k[i - 1], s[i]) ELSE k[i - 1]
  <2>1. k = [i \in 0..n |->
              IF i = 0 THEN <<>>
              ELSE IF s[i] \in chosen THEN Append(k[i - 1], s[i]) ELSE k[i - 1]]
    BY <1>10, <1>12
  <2>2. 0 \in 0..n /\ \A i \in 1..n : i \in 0..n /\ i # 0
    OBVIOUS
  <2>3. \A i \in 0..n : k[i] = IF i = 0 THEN <<>>
              ELSE IF s[i] \in chosen THEN Append(k[i - 1], s[i]) ELSE k[i - 1]
    BY <2>1
  <2> QED BY <2>2, <2>3
<1>14. \A i \in 0..n : k[i] \in Seq(S)
  <2>1. PICK A : A = {i \in Nat : i <= n => k[i] \in Seq(S)}
    OBVIOUS
  <2>2. 0 \in A
    BY <1>4, <1>13, <2>1
  <2>3. ASSUME NEW i \in A PROVE i + 1 \in A
    <3>1. i \in Nat /\ (i + 1) - 1 = i
      BY <2>1
    <3>2. ASSUME i + 1 <= n PROVE k[i + 1] \in Seq(S)
      <4>1. i + 1 \in 1..n /\ k[i] \in Seq(S) /\ s[i + 1] \in S
        BY <1>1, <2>1, <3>1, <3>2
      <4>2. k[i + 1] = IF s[i + 1] \in chosen THEN Append(k[i], s[i + 1]) ELSE k[i]
        BY <1>13, <3>1, <4>1
      <4> QED BY <4>1, <4>2
    <3> QED BY <2>1, <3>1, <3>2
  <2>4. A = Nat
    BY <2>1, <2>2, <2>3, NatInduct
  <2> QED BY <2>1, <2>4
<1>15. k \in [0..n -> Seq(S)]
  BY <1>10, <1>12, <1>14
<1> QED BY <1>1, <1>11, <1>12, <1>13, <1>15 DEF AmongLoop

\* What a loop keeps of a run of numbers, of which it chooses those from a to b, is a run.
IsRun(q, a, e) ==
  /\ q \in Seq(Int)
  /\ Len(q) = IF e >= a THEN e - a + 1 ELSE 0
  /\ \A k \in 1..Len(q) : q[k] = a + k - 1

LEMMA RunOnce ==
  ASSUME NEW q, NEW r, NEW a \in Int, NEW e \in Int, IsRun(q, a, e), IsRun(r, a, e)
  PROVE  q = r
<1>1. q \in Seq(Int) /\ r \in Seq(Int) /\ Len(q) = Len(r)
  BY DEF IsRun
<1>2. \A k \in 1..Len(q) : q[k] = r[k]
  BY <1>1 DEF IsRun
<1> QED BY <1>1, <1>2, SeqEqual

LEMMA RunLonger ==
  ASSUME NEW q, NEW a \in Int, NEW e \in Int, IsRun(q, a, e), e + 1 >= a
  PROVE  IsRun(Append(q, e + 1), a, e + 1)
<1>1. PICK n \in Nat : n = Len(q)
  <2>1. q \in Seq(Int)
    BY DEF IsRun
  <2> QED BY <2>1
<1>2. n = e - a + 1
  BY <1>1 DEF IsRun
<1>3. PICK t : t = Append(q, e + 1)
  OBVIOUS
<1>4. PICK x \in Int : x = e + 1
  OBVIOUS
<1>5. /\ t \in Seq(Int) /\ Len(t) = n + 1 /\ t[n + 1] = x
      /\ \A k \in 1..n : t[k] = q[k]
  BY <1>1, <1>3, <1>4, AppendProperties DEF IsRun
<1>6. \A k \in 1..n : q[k] = a + k - 1
  BY <1>1 DEF IsRun
<1>7. \A k \in 1..(n + 1) : t[k] = a + k - 1
  BY <1>2, <1>4, <1>5, <1>6
<1>8. IsRun(t, a, x)
  BY <1>2, <1>4, <1>5, <1>7 DEF IsRun
<1> QED BY <1>3, <1>4, <1>8

LEMMA AmongRun ==
  ASSUME NEW s, NEW n \in Nat, IsRun(s, 1, n), NEW a \in Nat \ {0}, NEW b \in Int, NEW chosen,
         \A i \in 1..n : i \in chosen <=> a <= i /\ i <= b
  PROVE  /\ b <= n => IsRun(Among(s, chosen), a, b)
         /\ n <= b => IsRun(Among(s, chosen), a, n)
<1>1. s \in Seq(Int) /\ Len(s) = n /\ \A i \in 1..n : s[i] = i
  BY DEF IsRun
<1>2. PICK f \in [0..n -> Seq(Int)] : AmongLoop(s, chosen, f)
  BY <1>1, AmongUnfolds
<1>3. f[0] = <<>> /\ Among(s, chosen) = f[n]
  BY <1>1, <1>2 DEF AmongLoop
<1>4. \A i \in 1..n : f[i] = IF a <= i /\ i <= b THEN Append(f[i - 1], i) ELSE f[i - 1]
  BY <1>1, <1>2 DEF AmongLoop
<1>5. PICK A : A = {i \in Nat : i <= n => /\ b <= i => IsRun(f[i], a, b)
                                          /\ i <= b => IsRun(f[i], a, i)}
  OBVIOUS
<1>6. 0 \in A
  <2>1. <<>> \in Seq(Int) /\ Len(<<>>) = 0
    OBVIOUS
  <2>2. IsRun(<<>>, a, 0) /\ (b <= 0 => IsRun(<<>>, a, b))
    BY <2>1 DEF IsRun
  <2> QED BY <1>3, <1>5, <2>2
<1>7. ASSUME NEW i \in A PROVE i + 1 \in A
  <2>1. i \in Nat /\ (i + 1) - 1 = i
    BY <1>5
  <2> SUFFICES ASSUME i + 1 <= n
               PROVE  /\ b <= i + 1 => IsRun(f[i + 1], a, b)
                      /\ i + 1 <= b => IsRun(f[i + 1], a, i + 1)
    BY <1>5, <2>1
  <2>2. i + 1 \in 1..n /\ i <= n
    BY <2>1
  <2>3. (b <= i => IsRun(f[i], a, b)) /\ (i <= b => IsRun(f[i], a, i))
    BY <1>5, <2>2
  <2>4. f[i + 1] = IF a <= i + 1 /\ i + 1 <= b THEN Append(f[i], i + 1) ELSE f[i]
    BY <1>4, <2>1, <2>2
  <2>5. CASE a <= i + 1 /\ i + 1 <= b
    <3>1. IsRun(f[i], a, i)
      BY <2>1, <2>3, <2>5
    <3>2. IsRun(Append(f[i], i + 1), a, i + 1)
      BY <2>1, <2>5, <3>1, RunLonger
    <3>3. b <= i + 1 => b = i + 1
      BY <2>1, <2>5
    <3> QED BY <2>4, <2>5, <3>2, <3>3
  <2>6. CASE b < i + 1
    <3>1. b <= i /\ ~ (i + 1 <= b)
      BY <2>1, <2>6
    <3> QED BY <2>3, <2>4, <3>1
  <2>7. CASE i + 1 < a /\ i + 1 <= b
    <3>1. f[i + 1] = f[i] /\ i <= b
      BY <2>1, <2>4, <2>7
    <3>2. IsRun(f[i], a, i)
      BY <2>3, <3>1
    <3>3. IsRun(f[i], a, i + 1)
      BY <2>1, <2>7, <3>2 DEF IsRun
    <3>4. b <= i + 1 => b = i + 1
      BY <2>1, <2>7
    <3> QED BY <3>1, <3>3, <3>4
  <2> QED BY <2>1, <2>5, <2>6, <2>7
<1>8. n \in A
  BY <1>5, <1>6, <1>7, NatInduct
<1> QED BY <1>3, <1>5, <1>8

LEMMA IndicesRun ==
  ASSUME NEW S, NEW lines \in Seq(S)
  PROVE  IsRun(Indices(lines), 1, Len(lines))
<1>1. PICK n \in Nat : n = Len(lines)
  OBVIOUS
<1>2. PICK t : t = [i \in 1..n |-> i]
  OBVIOUS
<1>3. t \in Seq(Int) /\ Len(t) = n /\ \A i \in 1..n : t[i] = i
  BY <1>2
<1>4. IsRun(t, 1, n)
  BY <1>3 DEF IsRun
<1> QED BY <1>1, <1>2, <1>4 DEF Indices

-------------------------------------------------------------------------------
(* The operation read.                                                        *)

LEMMA TwoBounds ==
  ASSUME NEW a \in Int, NEW b \in Int
  PROVE  /\ Min({a, b}) = IF a <= b THEN a ELSE b
         /\ Max({a, b}) = IF a <= b THEN b ELSE a
<1>1. PICK x \in Int : x = (IF a <= b THEN a ELSE b) /\ x \in {a, b} /\ \A y \in {a, b} : x <= y
  OBVIOUS
<1>2. \A z \in {a, b} : (\A y \in {a, b} : z <= y) => z = x
  BY <1>1
<1>3. Min({a, b}) = x
  BY <1>1, <1>2 DEF Min
<1>4. PICK w \in Int : w = (IF a <= b THEN b ELSE a) /\ w \in {a, b} /\ \A y \in {a, b} : w >= y
  OBVIOUS
<1>5. \A z \in {a, b} : (\A y \in {a, b} : z >= y) => z = w
  BY <1>4
<1>6. Max({a, b}) = w
  BY <1>4, <1>5 DEF Max
<1> QED BY <1>1, <1>3, <1>4, <1>6

\* A Scanner delivers the lines from the first to one that is last or before a long one.
LEMMA ScannedRun ==
  ASSUME NEW S, NEW lines \in Seq(S), NEW n \in Nat, n = Len(lines)
  PROVE  \E q \in 0..n : /\ IsRun(Scanned(lines), 1, q)
                         /\ \A i \in 1..q : lines[i] # "long"
                         /\ q < n => lines[q + 1] = "long"
<1>1. PICK q \in 0..n : (\A i \in 1..q : lines[i] # "long") /\ (q < n => lines[q + 1] = "long")
  <2> SUFFICES ASSUME \A q \in 0..n : (\A i \in 1..q : lines[i] # "long")
                                        => q < n /\ lines[q + 1] # "long"
               PROVE  FALSE
    OBVIOUS
  <2>1. PICK A : A = {q \in Nat : q <= n /\ \A i \in 1..q : lines[i] # "long"}
    OBVIOUS
  <2>2. 0 \in A
    BY <2>1
  <2>3. ASSUME NEW q \in A PROVE q + 1 \in A
    <3>1. q \in 0..n /\ q \in Nat /\ \A i \in 1..q : lines[i] # "long"
      BY <2>1
    <3>2. q < n /\ lines[q + 1] # "long"
      BY <3>1
    <3> QED BY <2>1, <3>1, <3>2
  <2>4. n + 1 \in A
    BY <2>1, <2>2, <2>3, NatInduct
  <2> QED BY <2>1, <2>4
<1>2. PICK s, chosen : /\ s = Indices(lines)
                       /\ chosen = {i \in 1..n : \A j \in 1..i : lines[j] # "long"}
  OBVIOUS
<1>3. \A i \in 1..n : i \in chosen <=> 1 <= i /\ i <= q
  BY <1>1, <1>2
<1>4. IsRun(s, 1, n)
  BY <1>2, IndicesRun
<1>5. IsRun(Among(s, chosen), 1, q)
  <2>1. 1 \in Nat \ {0} /\ q \in Int /\ q <= n
    OBVIOUS
  <2> QED BY <1>3, <1>4, <2>1, AmongRun
<1>6. Scanned(lines) = Among(s, chosen)
  BY <1>2 DEF Scanned
<1> QED BY <1>1, <1>5, <1>6

\* The lines that readRange shows.
LEMMA RangeRun ==
  ASSUME NEW S, NEW lines \in Seq(S), NEW n \in Nat, n = Len(lines),
         NEW from \in Nat \ {0}, NEW to \in Int, ~ ReadRange(lines, from, to).failed
  PROVE  IsRun(ReadRange(lines, from, to).lines, from, IF to <= n THEN to ELSE n)
<1>1. PICK q \in 0..n : /\ IsRun(Scanned(lines), 1, q)
                        /\ q < n => lines[q + 1] = "long"
  BY ScannedRun
<1>2. PICK s, chosen : /\ s = Scanned(lines)
                       /\ chosen = {i \in 1..n : from <= i /\ i <= to}
  OBVIOUS
<1>3. \A i \in 1..q : i \in chosen <=> from <= i /\ i <= to
  BY <1>2
<1>4. /\ to <= q => IsRun(Among(s, chosen), from, to)
      /\ q <= to => IsRun(Among(s, chosen), from, q)
  <2>1. q \in Nat /\ IsRun(s, 1, q)
    BY <1>1, <1>2
  <2> QED BY <1>3, <2>1, AmongRun
<1>5. q < n => to <= q
  <2>1. ASSUME q < n PROVE to <= q
    <3>1. q + 1 \in 1..n /\ lines[q + 1] = "long"
      BY <1>1, <2>1
    <3>2. ~ (q + 1 <= to + 1)
      BY <3>1 DEF ReadRange
    <3> QED BY <3>2
  <2> QED BY <2>1
<1>6. ReadRange(lines, from, to).lines = Among(s, chosen)
  BY <1>2 DEF ReadRange
<1>7. PICK e \in Int : e = IF to <= n THEN to ELSE n
  OBVIOUS
<1>8. CASE to <= q
  <2>1. e = to
    BY <1>7, <1>8
  <2> QED BY <1>4, <1>6, <1>7, <1>8, <2>1
<1>9. CASE q < to
  <2>1. q = n /\ e = n /\ q <= to
    BY <1>5, <1>7, <1>9
  <2> QED BY <1>4, <1>6, <1>7, <2>1
<1> QED BY <1>8, <1>9

\* What Success keeps of a run.
LEMMA RunShown ==
  ASSUME NEW q, NEW a \in Int, NEW e \in Int, IsRun(q, a, e)
  PROVE  Success(q).body = [k \in 1..Min({Max({0, e - a + 1}), MaxOutput}) |-> a + k - 1]
<1>1. PICK n \in Nat : n = Len(q) /\ q \in Seq(Int)
  <2>1. q \in Seq(Int)
    BY DEF IsRun
  <2> QED BY <2>1
<1>2. PICK size \in Int : size = e - a + 1
  OBVIOUS
<1>3. Max({0, size}) = n
  <2>1. n = IF e >= a THEN size ELSE 0
    BY <1>1, <1>2 DEF IsRun
  <2>2. 0 \in Int
    OBVIOUS
  <2>3. Max({0, size}) = IF 0 <= size THEN size ELSE 0
    BY <2>2, TwoBounds
  <2> QED BY <1>1, <1>2, <2>1, <2>3
<1>4. PICK m \in Nat : m = Min({n, MaxOutput}) /\ m <= n
  <2>1. MaxOutput \in Nat
    BY LimitAssumption
  <2>2. Min({n, MaxOutput}) = IF n <= MaxOutput THEN n ELSE MaxOutput
    BY <2>1, TwoBounds
  <2> QED BY <2>1, <2>2
<1>5. PICK shown : shown = SubSeq(q, 1, m)
  OBVIOUS
<1>6. shown = [k \in 1..m |-> q[k]]
  BY <1>1, <1>4, <1>5
<1>7. \A k \in 1..m : q[k] = a + k - 1
  BY <1>1, <1>4 DEF IsRun
<1>8. shown = [k \in 1..m |-> a + k - 1]
  BY <1>6, <1>7
<1>9. Success(q).body = shown
  BY <1>1, <1>4, <1>5 DEF Success
<1> QED BY <1>2, <1>3, <1>4, <1>8, <1>9

-------------------------------------------------------------------------------
(* What the machine answers.                                                  *)

Served == request \in Requests /\ (answered => answer = Serve(request))

LEMMA AlwaysServed == Spec => []Served
<1>1. Init => Served
  BY DEF Init, Served
<1>2. Served /\ [Next]_vars => Served'
  <2> SUFFICES ASSUME Served, [Next]_vars PROVE Served'
    OBVIOUS
  <2>1. CASE Next
    BY <2>1 DEF Next, Served, Serve
  <2>2. CASE UNCHANGED vars
    BY <2>2 DEF vars, Served, Serve
  <2> QED BY <2>1, <2>2
<1> QED BY <1>1, <1>2, PTL DEF Spec

\* No path of a disk is the answer of the sandbox to one outside.
LEMMA EscapeIsNoPath ==
  ASSUME NEW disk, IsDisk(disk)
  PROVE  DOMAIN disk \subseteq Seq(Names) /\ Escape \notin DOMAIN disk
<1>1. ToSet(Order) \subseteq Names
  <2>1. \A i \in DOMAIN Order : Order[i] \in Names
    BY OrderAssumption
  <2> QED BY <2>1 DEF ToSet
<1>2. DOMAIN disk \subseteq Seq(Names)
  BY <1>1 DEF IsDisk
<1>3. Escape \notin Seq(Names)
  <2>1. PICK e : e = Escape /\ Len(e) = 1 /\ e[1] = ".."
    <3>1. Len(<<"..">>) = 1 /\ <<"..">>[1] = ".."
      OBVIOUS
    <3> QED BY <3>1 DEF Escape
  <2>2. ASSUME e \in Seq(Names) PROVE FALSE
    <3>1. 1 \in 1..Len(e)
      BY <2>1
    <3>2. e[1] \in Names
      BY <2>2, <3>1
    <3> QED BY <2>1, <3>2, CharsAssumption DEF Dots
  <2> QED BY <2>1, <2>2
<1> QED BY <1>2, <1>3

\* A file of a disk is a sequence of lines.
LEMMA FileLines ==
  ASSUME NEW disk, IsDisk(disk), NEW path, IsFile(disk, path)
  PROVE  disk[path] \in Seq(STRING)
<1>1. disk[path] \in Seq(STRING \ {"/"})
  BY DEF IsDisk, IsFile
<1> QED BY <1>1

\* readRange and the loop of read, read.go:13-70: whatever the range and wherever lines that
\* are too long stand, an answer has the lines of the range and no other, numbered as they
\* are in the file, and the read does not fail without a line in its way.
THEOREM ReadCorrect == Spec => []ReadShowsRange
<1>1. Served => ReadShowsRange
  <2> SUFFICES ASSUME Served, Asked("read"), IsFile(request.disk, Root) PROVE ReadShowsRange
    BY DEF ReadShowsRange
  <2>1. /\ request.kind = "read" /\ request \in Requests
        /\ answer = Read(request.disk, request.workdir, request)
    <3>1. request.kind = "read" /\ request \in Requests /\ answer = Serve(request)
      BY DEF Asked, Served
    <3> QED BY <3>1 DEF Serve
  <2>2. IsDisk(request.disk) /\ request.lines \in Seq(Int)
    BY <2>1, RequestAssumption
  <2>3. PICK lines \in Seq(STRING), n \in Nat :
          lines = request.disk[Root] /\ n = Len(lines)
    <3>1. PICK file : file = request.disk[Root]
      OBVIOUS
    <3>2. file \in Seq(STRING)
      BY <2>2, <3>1, FileLines
    <3>3. Len(file) \in Nat
      BY <3>2
    <3> QED BY <3>1, <3>2, <3>3
  <2>4. Root # Escape
    BY <2>2, EscapeIsNoPath DEF IsFile
  <2>5. PICK ranged \in BOOLEAN :
          ranged = (Len(request.lines) = 2 /\ request.lines[1] > 0)
    OBVIOUS
  <2>6. PICK first, last : /\ first = IF ranged THEN request.lines[1] ELSE 1
                           /\ last = IF ranged THEN request.lines[2] ELSE n
    OBVIOUS
  <2>7. first \in Nat \ {0} /\ last \in Int
    <3>1. CASE ranged
      <4>1. PICK range \in Seq(Int) : range = request.lines
        BY <2>2
      <4>2. Len(range) = 2 /\ range[1] > 0
        BY <2>5, <3>1, <4>1
      <4>3. range[1] \in Int /\ range[2] \in Int
        BY <4>2, SMTT(20)
      <4> QED BY <2>6, <3>1, <4>1, <4>2, <4>3
    <3>2. CASE ~ ranged
      BY <2>6, <3>2
    <3> QED BY <3>1, <3>2
  <2>8. PICK result :
          result = IF ranged THEN ReadRange(lines, first, last) ELSE ReadAll(lines)
    OBVIOUS
  <2>9. answer = IF result.failed THEN Failure("IO_ERROR") ELSE Success(result.lines)
    BY <2>1, <2>3, <2>4, <2>5, <2>6, <2>8 DEF Read, Root
  <2>10. answer.ok <=> ~ result.failed
    BY <2>9 DEF Failure, Success
  <2>11. PICK e \in Int : e = IF last <= n THEN last ELSE n
    BY <2>7
  <2>12. ASSUME ~ result.failed PROVE IsRun(result.lines, first, e)
    <3>1. CASE ranged
      BY <2>3, <2>7, <2>8, <2>11, <2>12, <3>1, RangeRun
    <3>2. CASE ~ ranged
      <4>1. PICK q \in 0..n : /\ IsRun(Scanned(lines), 1, q)
                              /\ q < n => lines[q + 1] = "long"
        BY <2>3, ScannedRun
      <4>2. result = ReadAll(lines) /\ first = 1 /\ e = n
        BY <2>6, <2>8, <2>11, <3>2
      <4>3. Fits(lines) /\ result.lines = Scanned(lines)
        BY <2>12, <4>2 DEF ReadAll
      <4>4. q = n
        BY <2>3, <4>1, <4>3 DEF Fits
      <4> QED BY <4>1, <4>2, <4>3, <4>4
    <3> QED BY <3>1, <3>2
  <2>13. ASSUME ~ result.failed
         PROVE  answer.body = [k \in 1..Min({Max({0, e - first + 1}), MaxOutput}) |-> first + k - 1]
    <3>1. PICK q : q = result.lines
      OBVIOUS
    <3>2. answer.body = Success(q).body
      BY <2>9, <2>13, <3>1
    <3>3. first \in Int /\ IsRun(q, first, e)
      BY <2>7, <2>12, <2>13, <3>1
    <3>4. Success(q).body = [k \in 1..Min({Max({0, e - first + 1}), MaxOutput}) |-> first + k - 1]
      BY <3>3, RunShown
    <3> QED BY <3>2, <3>4
  <2>14. ASSUME result.failed
         PROVE  \E i \in 1..n : lines[i] = "long" /\ ~ (i > last + 1 /\ i > first)
    <3>1. CASE ranged
      <4>1. \E i \in 1..n : lines[i] = "long" /\ (i <= last + 1 \/ i <= first)
        BY <2>3, <2>8, <2>14, <3>1 DEF ReadRange
      <4> QED BY <2>7, <4>1
    <3>2. CASE ~ ranged
      <4>1. \E i \in 1..n : lines[i] = "long"
        BY <2>3, <2>8, <2>14, <3>2 DEF ReadAll, Fits
      <4>2. last = n
        BY <2>6, <3>2
      <4> QED BY <4>1, <4>2
    <3> QED BY <3>1, <3>2
  <2>15. Min({last, n}) = e
    BY <2>7, <2>11, TwoBounds
  <2> QED BY <2>3, <2>5, <2>6, <2>10, <2>13, <2>14, <2>15 DEF ReadShowsRange
<1> QED BY <1>1, AlwaysServed, PTL

-------------------------------------------------------------------------------
(* What a loop keeps, and in which order.                                     *)

\* q has the chosen elements of the first i of s, each at the position that m gives.
Picks(s, chosen, i, q, m) ==
  /\ m \in [1..Len(q) -> 1..i]
  /\ \A a \in 1..Len(q) : q[a] = s[m[a]] /\ q[a] \in chosen
  /\ \A a, b \in 1..Len(q) : a < b => m[a] < m[b]
  /\ \A j \in 1..i : s[j] \in chosen => \E a \in 1..Len(q) : m[a] = j

LEMMA PicksLonger ==
  ASSUME NEW S, NEW s \in Seq(S), NEW chosen, NEW i \in Nat, i + 1 <= Len(s),
         NEW q \in Seq(S), NEW m, Picks(s, chosen, i, q, m)
  PROVE  /\ s[i + 1] \in chosen => \E h : Picks(s, chosen, i + 1, Append(q, s[i + 1]), h)
         /\ s[i + 1] \notin chosen => Picks(s, chosen, i + 1, q, m)
<1>1. PICK l \in Nat : l = Len(q)
  OBVIOUS
<1>2. /\ \A a \in 1..l : m[a] \in 1..i /\ m[a] \in Nat /\ m[a] <= i
      /\ \A a \in 1..l : q[a] = s[m[a]] /\ q[a] \in chosen
      /\ \A a, b \in 1..l : a < b => m[a] < m[b]
      /\ \A j \in 1..i : s[j] \in chosen => \E a \in 1..l : m[a] = j
  <2>1. m \in [1..l -> 1..i]
    BY <1>1 DEF Picks
  <2>2. \A a \in 1..l : m[a] \in 1..i
    BY <2>1
  <2>3. \A x \in 1..i : x \in Nat /\ x <= i
    OBVIOUS
  <2> QED BY <1>1, <2>2, <2>3 DEF Picks
<1>3. PICK x : x = s[i + 1] /\ x \in S
  <2>1. i + 1 \in 1..Len(s)
    OBVIOUS
  <2> QED BY <2>1
<1>4. ASSUME x \in chosen PROVE \E h : Picks(s, chosen, i + 1, Append(q, x), h)
  <2>1. PICK t : t = Append(q, x)
    OBVIOUS
  <2>2. /\ t \in Seq(S) /\ Len(t) = l + 1 /\ t[l + 1] = x
        /\ \A a \in 1..l : t[a] = q[a]
    BY <1>1, <1>3, <2>1, AppendProperties
  <2>3. PICK h : h = [a \in 1..(l + 1) |-> IF a <= l THEN m[a] ELSE i + 1]
    OBVIOUS
  <2>4. h[l + 1] = i + 1 /\ \A a \in 1..l : h[a] = m[a]
    BY <2>3
  <2>5. \A a \in 1..(l + 1) : a \in 1..l \/ a = l + 1
    OBVIOUS
  <2>6. h \in [1..(l + 1) -> 1..(i + 1)]
    BY <1>2, <2>3
  <2>7. \A a \in 1..(l + 1) : t[a] = s[h[a]] /\ t[a] \in chosen
    BY <1>2, <1>3, <1>4, <2>2, <2>4, <2>5
  <2>8. \A a, b \in 1..(l + 1) : a < b => h[a] < h[b]
    BY <1>2, <2>4, <2>5
  <2>9. ASSUME NEW j \in 1..(i + 1), s[j] \in chosen PROVE \E a \in 1..(l + 1) : h[a] = j
    <3>1. CASE j = i + 1
      BY <2>4, <3>1
    <3>2. CASE j \in 1..i
      <4>1. PICK a \in 1..l : m[a] = j
        BY <1>2, <2>9, <3>2
      <4> QED BY <2>4, <4>1
    <3> QED BY <3>1, <3>2
  <2>10. Picks(s, chosen, i + 1, t, h)
    BY <2>2, <2>6, <2>7, <2>8, <2>9 DEF Picks
  <2> QED BY <2>1, <2>10
<1>5. ASSUME x \notin chosen PROVE Picks(s, chosen, i + 1, q, m)
  <2>1. \A j \in 1..(i + 1) : s[j] \in chosen => j \in 1..i
    BY <1>3, <1>5
  <2>2. m \in [1..l -> 1..(i + 1)]
    <3>1. m \in [1..l -> 1..i] /\ 1..i \subseteq 1..(i + 1)
      BY <1>1 DEF Picks
    <3> QED BY <3>1
  <2> QED BY <1>1, <1>2, <2>1, <2>2 DEF Picks
<1> QED BY <1>3, <1>4, <1>5

LEMMA AmongPicks ==
  ASSUME NEW S, NEW s \in Seq(S), NEW chosen
  PROVE  /\ Among(s, chosen) \in Seq(S)
         /\ \E m : Picks(s, chosen, Len(s), Among(s, chosen), m)
<1>1. PICK n \in Nat : n = Len(s)
  OBVIOUS
<1>2. PICK f \in [0..n -> Seq(S)] : AmongLoop(s, chosen, f)
  BY <1>1, AmongUnfolds
<1>3. f[0] = <<>> /\ Among(s, chosen) = f[n]
  BY <1>1, <1>2 DEF AmongLoop
<1>4. \A i \in 1..n : f[i] = IF s[i] \in chosen THEN Append(f[i - 1], s[i]) ELSE f[i - 1]
  BY <1>1, <1>2 DEF AmongLoop
<1>5. PICK A : A = {i \in Nat : i <= n => \E m : Picks(s, chosen, i, f[i], m)}
  OBVIOUS
<1>6. 0 \in A
  <2>1. PICK m : m = [a \in 1..0 |-> 1]
    OBVIOUS
  <2>2. PICK q : q = <<>> /\ Len(q) = 0
    OBVIOUS
  <2>3. m \in [1..0 -> 1..0] /\ 1..0 = {}
    BY <2>1
  <2>4. Picks(s, chosen, 0, q, m)
    BY <2>2, <2>3 DEF Picks
  <2> QED BY <1>3, <1>5, <2>2, <2>4
<1>7. ASSUME NEW i \in A PROVE i + 1 \in A
  <2>1. i \in Nat /\ (i + 1) - 1 = i
    BY <1>5
  <2> SUFFICES ASSUME i + 1 <= n PROVE \E m : Picks(s, chosen, i + 1, f[i + 1], m)
    BY <1>5, <2>1
  <2>2. i + 1 \in 1..n /\ i <= n /\ i \in 0..n
    BY <2>1
  <2>3. PICK m : Picks(s, chosen, i, f[i], m)
    BY <1>5, <2>2
  <2>q. PICK q \in Seq(S) : q = f[i]
    BY <2>2
  <2>4. f[i + 1] = IF s[i + 1] \in chosen THEN Append(q, s[i + 1]) ELSE q
    BY <1>4, <2>1, <2>2, <2>q
  <2>5. /\ s[i + 1] \in chosen => \E h : Picks(s, chosen, i + 1, Append(q, s[i + 1]), h)
        /\ s[i + 1] \notin chosen => Picks(s, chosen, i + 1, q, m)
    BY <1>1, <2>1, <2>3, <2>q, PicksLonger
  <2> QED BY <2>4, <2>5
<1>8. n \in A
  BY <1>5, <1>6, <1>7, NatInduct
<1>9. n \in 0..n
  OBVIOUS
<1> QED BY <1>1, <1>2, <1>3, <1>5, <1>8, <1>9

\* What a loop over the lines of a file keeps: their numbers, in their order.
Numbers(r, n, chosen) ==
  /\ r \in Seq(Int)
  /\ \A a \in 1..Len(r) : r[a] \in 1..n /\ r[a] \in chosen
  /\ \A a, b \in 1..Len(r) : a < b => r[a] < r[b]
  /\ \A j \in 1..n : j \in chosen => \E a \in 1..Len(r) : r[a] = j

LEMMA AmongIndices ==
  ASSUME NEW S, NEW lines \in Seq(S), NEW chosen
  PROVE  Numbers(Among(Indices(lines), chosen), Len(lines), chosen)
<1>0. PICK n, r : n = Len(lines) /\ n \in Nat /\ r = Among(Indices(lines), chosen)
  <2>1. Len(lines) \in Nat
    OBVIOUS
  <2> QED BY <2>1
<1>1. PICK s : s = Indices(lines)
  OBVIOUS
<1>2. s \in Seq(Int) /\ Len(s) = n /\ \A i \in 1..n : s[i] = i
  <2>1. IsRun(s, 1, n)
    BY <1>0, <1>1, IndicesRun
  <2> QED BY <1>0, <2>1 DEF IsRun
<1>3. r \in Seq(Int) /\ \E m : Picks(s, chosen, n, r, m)
  <2>1. s \in Seq(Int)
    BY <1>2
  <2>2. /\ Among(s, chosen) \in Seq(Int)
        /\ \E m : Picks(s, chosen, Len(s), Among(s, chosen), m)
    BY <2>1, AmongPicks
  <2> QED BY <1>0, <1>1, <1>2, <2>2
<1>4. PICK m : Picks(s, chosen, n, r, m)
  BY <1>3
<1>5. \A a \in 1..Len(r) : m[a] \in 1..n
  <2>1. m \in [1..Len(r) -> 1..n]
    BY <1>4 DEF Picks
  <2> QED BY <2>1
<1>6. \A a \in 1..Len(r) : r[a] = m[a] /\ r[a] \in chosen
  BY <1>2, <1>4, <1>5 DEF Picks
<1>7. \A a, b \in 1..Len(r) : a < b => r[a] < r[b]
  BY <1>4, <1>6 DEF Picks
<1>8. \A j \in 1..n : j \in chosen => \E a \in 1..Len(r) : r[a] = j
  BY <1>2, <1>4, <1>6 DEF Picks
<1>9. Numbers(r, n, chosen)
  BY <1>3, <1>5, <1>6, <1>7, <1>8 DEF Numbers
<1> QED BY <1>0, <1>9

\* Two sequences, one behind the other.
Joins(t, v, p, w, q) ==
  /\ Len(t) = p + q
  /\ \A a \in 1..p : a \in 1..(p + q) /\ t[a] = v[a]
  /\ \A k \in 1..q : p + k \in 1..(p + q) /\ t[p + k] = w[k]
  /\ \A a \in 1..(p + q) : a \in 1..p \/ \E k \in 1..q : a = p + k

LEMMA Behind ==
  ASSUME NEW S, NEW v \in Seq(S), NEW w \in Seq(S)
  PROVE  v \o w \in Seq(S) /\ Joins(v \o w, v, Len(v), w, Len(w))
<1>0. PICK p \in Nat, q \in Nat : p = Len(v) /\ q = Len(w)
  OBVIOUS
<1>1. PICK t : t = v \o w
  OBVIOUS
<1>2. /\ t \in Seq(S) /\ Len(t) = p + q
      /\ \A i \in 1..(p + q) : t[i] = IF i <= p THEN v[i] ELSE w[i - p]
  BY <1>0, <1>1, ConcatProperties
<1>3. \A a \in 1..p : a \in 1..(p + q) /\ a <= p
  OBVIOUS
<1>4. \A k \in 1..q : p + k \in 1..(p + q) /\ ~ (p + k <= p) /\ (p + k) - p = k
  OBVIOUS
<1>5. ASSUME NEW a \in 1..(p + q), a \notin 1..p PROVE \E k \in 1..q : a = p + k
  <2>1. a - p \in 1..q /\ a = p + (a - p)
    BY <1>5
  <2> QED BY <2>1
<1>6. \A k \in 1..q : t[p + k] = w[k]
  BY <1>2, <1>4
<1>7. \A a \in 1..p : t[a] = v[a]
  BY <1>2, <1>3
<1>8. Joins(t, v, p, w, q)
  BY <1>2, <1>3, <1>4, <1>5, <1>6, <1>7 DEF Joins
<1> QED BY <1>0, <1>1, <1>2, <1>8

-------------------------------------------------------------------------------
(* The operation grep in one file.                                            *)

Marked == Int \X {Hit, Near}
NearTo(lines, ctx, i) == {j \in 1..Len(lines) : i - ctx <= j /\ j <= i + ctx}

\* What is shown when the first i lines have been looked at.
ShownBy(lines, ctx, i, w) ==
  /\ w \in Seq(Marked)
  /\ \A a, b \in 1..Len(w) : a < b => w[a][1] < w[b][1]
  /\ \A a \in 1..Len(w) : \E h \in 1..i : lines[h] = "hit" /\ w[a][1] \in NearTo(lines, ctx, h)
  /\ \A h \in 1..i : lines[h] = "hit" =>
       \A j \in NearTo(lines, ctx, h) : \E a \in 1..Len(w) : w[a][1] = j
  /\ \A a \in 1..Len(w) : w[a][2] = Hit => lines[w[a][1]] = "hit"
  /\ \A a \in 1..Len(w) : lines[w[a][1]] = "hit" /\ w[a][2] # Hit =>
       \E h \in 1..i : lines[h] = "hit" /\ h < w[a][1] /\ w[a][1] \in NearTo(lines, ctx, h)

\* A match shows the lines near it that are not shown yet, behind the others.
LEMMA AroundShown ==
  ASSUME NEW S, NEW lines \in Seq(S), NEW n \in Nat, n = Len(lines), NEW ctx \in Int,
         NEW h \in 1..n, lines[h] = "hit", NEW w, ShownBy(lines, ctx, h - 1, w)
  PROVE  ShownBy(lines, ctx, h, ShowAround(w, lines, h, ctx))
<1>1. PICK p \in Nat : p = Len(w) /\ w \in Seq(Marked)
  <2>1. w \in Seq(Marked)
    BY DEF ShownBy
  <2> QED BY <2>1
<1>2. \A a \in 1..p : w[a] \in Marked /\ w[a][1] \in Int
  BY <1>1 DEF Marked
<1>3. \A j \in 1..(h - 1) : j \in 1..h /\ j \in 1..n /\ j < h
  OBVIOUS
<1>4. \A i \in 1..n : \A j : j \in NearTo(lines, ctx, i) <=> j \in 1..n /\ i - ctx <= j /\ j <= i + ctx
  BY DEF NearTo
<1>5. /\ \A a, b \in 1..p : a < b => w[a][1] < w[b][1]
      /\ \A a \in 1..p : \E i \in 1..(h - 1) : lines[i] = "hit" /\ w[a][1] \in NearTo(lines, ctx, i)
      /\ \A i \in 1..(h - 1) : lines[i] = "hit" =>
           \A j \in NearTo(lines, ctx, i) : \E a \in 1..p : w[a][1] = j
      /\ \A a \in 1..p : w[a][2] = Hit => lines[w[a][1]] = "hit"
      /\ \A a \in 1..p : lines[w[a][1]] = "hit" /\ w[a][2] # Hit =>
           \E i \in 1..(h - 1) : lines[i] = "hit" /\ i < w[a][1] /\ w[a][1] \in NearTo(lines, ctx, i)
  BY <1>1 DEF ShownBy
<1>6. PICK chosen : chosen = {j \in 1..n : /\ h - ctx <= j /\ j <= h + ctx
                                           /\ \A k \in 1..p : w[k][1] # j}
  OBVIOUS
<1>7. PICK new : new = Among(Indices(lines), chosen)
  OBVIOUS
<1>8. /\ new \in Seq(Int)
      /\ \A a \in 1..Len(new) : new[a] \in 1..n /\ new[a] \in chosen
      /\ \A a, b \in 1..Len(new) : a < b => new[a] < new[b]
      /\ \A j \in 1..n : j \in chosen => \E a \in 1..Len(new) : new[a] = j
  <2>1. Numbers(new, n, chosen)
    BY <1>7, AmongIndices
  <2> QED BY <2>1 DEF Numbers
<1>9. PICK q \in Nat : q = Len(new)
  BY <1>8
<1>10. PICK pairs : pairs = [k \in 1..q |-> <<new[k], IF new[k] = h THEN Hit ELSE Near>>]
  OBVIOUS
<1>11. /\ pairs \in Seq(Marked) /\ Len(pairs) = q
       /\ \A k \in 1..q : pairs[k][1] = new[k] /\ (pairs[k][2] = Hit <=> new[k] = h)
  <2>1. \A k \in 1..q : new[k] \in Int /\ <<new[k], IF new[k] = h THEN Hit ELSE Near>> \in Marked
    BY <1>8, <1>9 DEF Marked
  <2>2. pairs \in Seq(Marked) /\ Len(pairs) = q
    BY <1>10, <2>1
  <2>3. Hit # Near
    BY DEF Hit, Near
  <2> QED BY <1>10, <2>2, <2>3
<1>12. PICK t : t = w \o pairs
  OBVIOUS
<1>13. ShowAround(w, lines, h, ctx) = t
  BY <1>1, <1>6, <1>7, <1>9, <1>10, <1>12 DEF ShowAround
<1>14. /\ t \in Seq(Marked) /\ Len(t) = p + q
       /\ \A a \in 1..p : a \in 1..(p + q) /\ t[a] = w[a]
       /\ \A k \in 1..q : p + k \in 1..(p + q) /\ t[p + k] = pairs[k]
       /\ \A a \in 1..(p + q) : a \in 1..p \/ \E k \in 1..q : a = p + k
  <2>1. p = Len(w) /\ q = Len(pairs) /\ w \in Seq(Marked) /\ pairs \in Seq(Marked)
    BY <1>1, <1>11
  <2>2. w \o pairs \in Seq(Marked) /\ Joins(w \o pairs, w, Len(w), pairs, Len(pairs))
    BY <2>1, Behind
  <2>3. t \in Seq(Marked) /\ Joins(t, w, p, pairs, q)
    BY <1>12, <2>1, <2>2
  <2> QED BY <2>3 DEF Joins
<1>15. \A k \in 1..q : new[k] \in NearTo(lines, ctx, h)
  BY <1>4, <1>6, <1>8, <1>9
<1>16. ASSUME NEW a \in 1..p, NEW k \in 1..q PROVE w[a][1] < new[k]
  <2>1. PICK x \in Int, j \in 1..n : x = w[a][1] /\ j = new[k]
    BY <1>2, <1>8, <1>9
  <2>2. h - ctx <= j /\ \A b \in 1..p : w[b][1] # j
    BY <1>6, <1>8, <1>9, <2>1
  <2>3. PICK i \in 1..(h - 1) : lines[i] = "hit" /\ x \in NearTo(lines, ctx, i)
    BY <1>5, <2>1
  <2>4. i \in 1..n /\ i < h /\ x <= i + ctx
    BY <1>3, <1>4, <2>3
  <2>5. ~ (j <= x)
    <3>1. ASSUME j <= x PROVE FALSE
      <4>1. i - ctx <= j /\ j <= i + ctx
        BY <2>2, <2>4, <3>1
      <4>2. j \in NearTo(lines, ctx, i)
        BY <1>4, <2>4, <4>1
      <4> QED BY <1>5, <2>2, <2>3, <4>2
    <3> QED BY <3>1
  <2> QED BY <2>1, <2>5
<1>17. \A a, b \in 1..(p + q) : a < b => t[a][1] < t[b][1]
  <2> SUFFICES ASSUME NEW a \in 1..(p + q), NEW b \in 1..(p + q), a < b
               PROVE  t[a][1] < t[b][1]
    OBVIOUS
  <2>1. CASE a \in 1..p /\ b \in 1..p
    BY <1>5, <1>14, <2>1
  <2>2. CASE a \in 1..p /\ b \notin 1..p
    <3>1. PICK k \in 1..q : b = p + k
      BY <1>14, <2>2
    <3>2. t[a][1] = w[a][1] /\ t[b][1] = new[k]
      BY <1>11, <1>14, <2>2, <3>1
    <3> QED BY <1>16, <2>2, <3>2
  <2>3. CASE a \notin 1..p
    <3>1. PICK k \in 1..q : a = p + k
      BY <1>14, <2>3
    <3>2. b \notin 1..p
      BY <3>1
    <3>3. PICK l \in 1..q : b = p + l
      BY <1>14, <3>2
    <3>4. t[a][1] = new[k] /\ t[b][1] = new[l] /\ k < l
      BY <1>11, <1>14, <3>1, <3>3
    <3> QED BY <1>8, <1>9, <3>4
  <2> QED BY <2>1, <2>2, <2>3
<1>18. ASSUME NEW a \in 1..(p + q)
       PROVE  \E i \in 1..h : lines[i] = "hit" /\ t[a][1] \in NearTo(lines, ctx, i)
  <2>1. CASE a \in 1..p
    BY <1>3, <1>5, <1>14, <2>1
  <2>2. CASE a \notin 1..p
    <3>1. PICK k \in 1..q : a = p + k
      BY <1>14, <2>2
    <3>2. t[a][1] = new[k] /\ h \in 1..h
      BY <1>11, <1>14, <3>1
    <3> QED BY <1>15, <3>2
  <2> QED BY <2>1, <2>2
<1>19. ASSUME NEW i \in 1..h, lines[i] = "hit", NEW j \in NearTo(lines, ctx, i)
       PROVE  \E a \in 1..(p + q) : t[a][1] = j
  <2>1. CASE i \in 1..(h - 1)
    <3>1. PICK a \in 1..p : w[a][1] = j
      BY <1>5, <1>19, <2>1
    <3> QED BY <1>14, <3>1
  <2>2. CASE i = h
    <3>1. CASE \E a \in 1..p : w[a][1] = j
      BY <1>14, <3>1
    <3>2. CASE \A a \in 1..p : w[a][1] # j
      <4>1. j \in 1..n /\ j \in chosen
        BY <1>4, <1>6, <2>2, <3>2
      <4>2. PICK k \in 1..q : new[k] = j
        BY <1>8, <1>9, <4>1
      <4>3. p + k \in 1..(p + q) /\ t[p + k] = pairs[k] /\ pairs[k][1] = new[k]
        BY <1>11, <1>14
      <4>4. t[p + k][1] = j
        BY <4>2, <4>3
      <4> QED BY <4>3, <4>4
    <3> QED BY <3>1, <3>2
  <2> QED BY <2>1, <2>2
<1>20. ASSUME NEW a \in 1..(p + q)
       PROVE  /\ t[a][2] = Hit => lines[t[a][1]] = "hit"
              /\ lines[t[a][1]] = "hit" /\ t[a][2] # Hit =>
                   \E i \in 1..h : /\ lines[i] = "hit" /\ i < t[a][1]
                                   /\ t[a][1] \in NearTo(lines, ctx, i)
  <2>1. CASE a \in 1..p
    BY <1>3, <1>5, <1>14, <2>1, SMTT(20)
  <2>2. CASE a \notin 1..p
    <3>1. PICK k \in 1..q : a = p + k
      BY <1>14, <2>2
    <3>2. PICK j \in 1..n : /\ j = new[k] /\ j = t[a][1] /\ j \in chosen
                            /\ t[a][2] = Hit <=> j = h
      <4>1. new[k] \in 1..n /\ new[k] \in chosen
        BY <1>8, <1>9
      <4>2. t[a] = pairs[k] /\ pairs[k][1] = new[k] /\ (pairs[k][2] = Hit <=> new[k] = h)
        BY <1>11, <1>14, <3>1
      <4> QED BY <4>1, <4>2
    <3>3. ASSUME lines[j] = "hit", j # h PROVE h < j
      <4>1. ASSUME j < h PROVE FALSE
        <5>1. j \in 1..(h - 1)
          BY <4>1
        <5>2. j \in NearTo(lines, ctx, j)
          <6>1. h - ctx <= j /\ j <= h + ctx
            BY <1>6, <3>2
          <6>2. j - ctx <= j /\ j <= j + ctx
            BY <4>1, <6>1
          <6> QED BY <1>4, <6>2
        <5>3. \E b \in 1..p : w[b][1] = j
          BY <1>5, <3>3, <5>1, <5>2
        <5> QED BY <1>6, <3>2, <5>3
      <4> QED BY <3>3, <4>1
    <3>4. j \in NearTo(lines, ctx, h) /\ h \in 1..h
      <4>1. h \in 1..h
        OBVIOUS
      <4>2. j \in NearTo(lines, ctx, h)
        BY <1>15, <3>2
      <4> QED BY <4>1, <4>2
    <3> QED BY <3>2, <3>3, <3>4
  <2> QED BY <2>1, <2>2
<1>21. ShownBy(lines, ctx, h, t)
  BY <1>14, <1>17, <1>18, <1>19, <1>20 DEF ShownBy
<1> QED BY <1>13, <1>21

LEMMA ShowAroundType ==
  ASSUME NEW S, NEW lines \in Seq(S), NEW ctx, NEW h, NEW w \in Seq(Marked)
  PROVE  ShowAround(w, lines, h, ctx) \in Seq(Marked)
<1>1. PICK chosen : chosen = {j \in 1..Len(lines) : /\ h - ctx <= j /\ j <= h + ctx
                                                    /\ \A k \in 1..Len(w) : w[k][1] # j}
  OBVIOUS
<1>2. PICK new : new = Among(Indices(lines), chosen)
  OBVIOUS
<1>3. new \in Seq(Int)
  <2>1. Numbers(new, Len(lines), chosen)
    BY <1>2, AmongIndices
  <2> QED BY <2>1 DEF Numbers
<1>4. PICK pairs : pairs = [k \in 1..Len(new) |-> <<new[k], IF new[k] = h THEN Hit ELSE Near>>]
  OBVIOUS
<1>5. pairs \in Seq(Marked)
  <2>1. \A k \in 1..Len(new) : <<new[k], IF new[k] = h THEN Hit ELSE Near>> \in Marked
    BY <1>3 DEF Marked
  <2>2. Len(new) \in Nat
    BY <1>3
  <2> QED BY <1>4, <2>1, <2>2
<1>6. ShowAround(w, lines, h, ctx) = w \o pairs
  BY <1>1, <1>2, <1>4 DEF ShowAround
<1>7. w \o pairs \in Seq(Marked)
  BY <1>5, Behind
<1> QED BY <1>6, <1>7

\* The loop of grepFile.
GrepLoop(lines, ctx, f) ==
  /\ f[0] = <<>>
  /\ \A i \in 1..Len(lines) :
       f[i] = IF lines[i] = "hit" THEN ShowAround(f[i - 1], lines, i, ctx) ELSE f[i - 1]
  /\ GrepFile(lines, ctx) = IF Fits(lines) THEN f[Len(lines)] ELSE <<>>

LEMMA GrepUnfolds ==
  ASSUME NEW S, NEW lines \in Seq(S), NEW ctx
  PROVE  \E f : GrepLoop(lines, ctx, f)
<1>1. PICK n \in Nat : n = Len(lines)
  OBVIOUS
<1>2. PICK g : g = [p \in Seq(Marked) \X (1..n) |->
                      IF lines[p[2]] = "hit" THEN ShowAround(p[1], lines, p[2], ctx) ELSE p[1]]
  OBVIOUS
<1>3. \A w \in Seq(Marked), i \in 1..n : ShowAround(w, lines, i, ctx) \in Seq(Marked)
  BY ShowAroundType
<1>4. g \in [Seq(Marked) \X (1..n) -> Seq(Marked)]
  BY <1>2, <1>3
<1>5. PICK Values, none : Values = Seq(Marked) /\ none = <<>> /\ none \in Values
  <2>1. <<>> \in Seq(Marked)
    OBVIOUS
  <2> QED BY <2>1
<1>6. PICK f \in [0..n -> Values] : f[0] = none /\ \A i \in 1..n : f[i] = g[<<f[i - 1], i>>]
  <2>1. none \in Values /\ g \in Steps(1..n, Values)
    BY <1>4, <1>5 DEF Steps
  <2> QED BY <2>1, IndexRecursion
<1>7. \A i \in 1..n : i - 1 \in 0..n /\ f[i - 1] \in Seq(Marked)
  BY <1>5, <1>6
<1>8. \A i \in 1..n :
        f[i] = IF lines[i] = "hit" THEN ShowAround(f[i - 1], lines, i, ctx) ELSE f[i - 1]
  BY <1>2, <1>6, <1>7
<1>9. f = [i \in 0..n |->
            IF i = 0 THEN <<>>
            ELSE IF lines[i] = "hit" THEN ShowAround(f[i - 1], lines, i, ctx) ELSE f[i - 1]]
  <2>1. \A i \in 0..n : i # 0 => i \in 1..n
    OBVIOUS
  <2> QED BY <1>5, <1>6, <1>8, <2>1
<1> DEFINE Kept == CHOOSE shown : shown = [i \in 0..Len(lines) |->
            IF i = 0 THEN <<>>
            ELSE IF lines[i] = "hit" THEN ShowAround(shown[i - 1], lines, i, ctx) ELSE shown[i - 1]]
<1>10. Kept = [i \in 0..n |->
            IF i = 0 THEN <<>>
            ELSE IF lines[i] = "hit" THEN ShowAround(Kept[i - 1], lines, i, ctx) ELSE Kept[i - 1]]
  BY <1>1, <1>9
<1>11. GrepFile(lines, ctx) = IF Fits(lines) THEN Kept[n] ELSE <<>>
  BY <1>1 DEF GrepFile
<1> HIDE DEF Kept
<1>12. PICK k : k = Kept
  OBVIOUS
<1>13. k[0] = <<>> /\ \A i \in 1..n :
         k[i] = IF lines[i] = "hit" THEN ShowAround(k[i - 1], lines, i, ctx) ELSE k[i - 1]
  <2>1. k = [i \in 0..n |->
              IF i = 0 THEN <<>>
              ELSE IF lines[i] = "hit" THEN ShowAround(k[i - 1], lines, i, ctx) ELSE k[i - 1]]
    BY <1>10, <1>12
  <2>2. 0 \in 0..n /\ \A i \in 1..n : i \in 0..n /\ i # 0
    OBVIOUS
  <2>3. \A i \in 0..n : k[i] = IF i = 0 THEN <<>>
              ELSE IF lines[i] = "hit" THEN ShowAround(k[i - 1], lines, i, ctx) ELSE k[i - 1]
    BY <2>1
  <2> QED BY <2>2, <2>3
<1> QED BY <1>1, <1>11, <1>12, <1>13 DEF GrepLoop

\* A file whose lines fit is shown around all its matches.
LEMMA GrepShows ==
  ASSUME NEW S, NEW lines \in Seq(S), NEW ctx \in Int, Fits(lines)
  PROVE  ShownBy(lines, ctx, Len(lines), GrepFile(lines, ctx))
<1>1. PICK n \in Nat : n = Len(lines)
  OBVIOUS
<1>2. PICK f : GrepLoop(lines, ctx, f)
  BY GrepUnfolds
<1>3. /\ f[0] = <<>> /\ GrepFile(lines, ctx) = f[n]
      /\ \A i \in 1..n :
           f[i] = IF lines[i] = "hit" THEN ShowAround(f[i - 1], lines, i, ctx) ELSE f[i - 1]
  BY <1>1, <1>2 DEF GrepLoop
<1>4. PICK A : A = {i \in Nat : i <= n => ShownBy(lines, ctx, i, f[i])}
  OBVIOUS
<1>5. 0 \in A
  <2>1. PICK w : w = <<>> /\ w \in Seq(Marked) /\ Len(w) = 0
    <3>1. <<>> \in Seq(Marked) /\ Len(<<>>) = 0
      OBVIOUS
    <3> QED BY <3>1
  <2>2. \A a \in 1..Len(w) : FALSE
    BY <2>1
  <2>3. \A h \in 1..0 : FALSE
    OBVIOUS
  <2>4. ShownBy(lines, ctx, 0, w)
    BY <2>1, <2>2, <2>3 DEF ShownBy
  <2> QED BY <1>3, <1>4, <2>1, <2>4
<1>6. ASSUME NEW i \in A PROVE i + 1 \in A
  <2>1. i \in Nat
    BY <1>4
  <2> SUFFICES ASSUME i + 1 <= n PROVE ShownBy(lines, ctx, i + 1, f[i + 1])
    BY <1>4, <2>1
  <2>2. PICK h \in 1..n : h = i + 1
    BY <2>1
  <2>3. h - 1 = i /\ i <= n
    BY <2>1, <2>2
  <2>4. PICK w : w = f[i] /\ ShownBy(lines, ctx, h - 1, w)
    BY <1>4, <2>1, <2>3
  <2>5. f[h] = IF lines[h] = "hit" THEN ShowAround(w, lines, h, ctx) ELSE w
    BY <1>3, <2>3, <2>4
  <2>6. CASE lines[h] = "hit"
    <3>1. ShownBy(lines, ctx, h, ShowAround(w, lines, h, ctx))
      BY <1>1, <2>4, <2>6, AroundShown
    <3> QED BY <2>2, <2>5, <2>6, <3>1
  <2>7. CASE lines[h] # "hit"
    <3>1. \A j \in 1..(h - 1) : j \in 1..h
      OBVIOUS
    <3>2. \A j \in 1..h : lines[j] = "hit" => j \in 1..(h - 1)
      BY <2>7
    <3>3. ShownBy(lines, ctx, h, w)
      BY <2>4, <3>1, <3>2 DEF ShownBy
    <3> QED BY <2>2, <2>5, <2>7, <3>3
  <2> QED BY <2>6, <2>7
<1>7. n \in A
  BY <1>4, <1>5, <1>6, NatInduct
<1> QED BY <1>1, <1>3, <1>4, <1>7

-------------------------------------------------------------------------------
(* Trees of paths.                                                            *)

\* A finite set of sequences has a longest one.
LEMMA Bounded ==
  ASSUME NEW S, NEW D \in SUBSET Seq(S), IsFiniteSet(D)
  PROVE  \E bound \in Nat : \A p \in D : Len(p) <= bound
<1>1. PICK all \in Seq(D) : \A p \in D : \E i \in 1..Len(all) : all[i] = p
  BY DEF IsFiniteSet
<1>2. PICK n \in Nat : n = Len(all) /\ \A i \in 1..n : all[i] \in D
  OBVIOUS
<1>3. PICK A : A = {k \in Nat : k <= n => \E b \in Nat : \A i \in 1..k : Len(all[i]) <= b}
  OBVIOUS
<1>4. 0 \in A
  BY <1>3
<1>5. ASSUME NEW k \in A PROVE k + 1 \in A
  <2>1. k \in Nat
    BY <1>3
  <2>2. ASSUME k + 1 <= n PROVE \E b \in Nat : \A i \in 1..(k + 1) : Len(all[i]) <= b
    <3>1. PICK b \in Nat : \A i \in 1..k : Len(all[i]) <= b
      BY <1>3, <2>1, <2>2
    <3>2. \A i \in 1..(k + 1) : Len(all[i]) \in Nat
      BY <1>2, <2>1, <2>2
    <3>3. PICK l \in Nat : l = Len(all[k + 1])
      BY <2>1, <3>2
    <3>4. b + l \in Nat /\ \A i \in 1..(k + 1) : i \in 1..k \/ i = k + 1
      BY <2>1
    <3>5. \A i \in 1..(k + 1) : Len(all[i]) <= b + l
      BY <3>1, <3>2, <3>3, <3>4
    <3> QED BY <3>4, <3>5
  <2> QED BY <1>3, <2>1, <2>2
<1>6. n \in A
  <2>1. A \in SUBSET Nat
    BY <1>3
  <2>2. A = Nat
    BY <1>4, <1>5, <2>1, NatInduct
  <2> QED BY <2>2
<1>7. PICK b \in Nat : \A i \in 1..n : Len(all[i]) <= b
  BY <1>3, <1>6
<1> QED BY <1>1, <1>2, <1>7

\* c gives the children of a node, which are longer by one.
Children(S, D, bound, c) ==
  /\ D \in SUBSET Seq(S)
  /\ \A p \in D : Len(p) <= bound
  /\ c \in [D -> Seq(D)]
  /\ \A p \in D : \A i \in 1..Len(c[p]) : Len(c[p][i]) = Len(p) + 1

\* What holds of a node whenever it holds of its children holds of all.
Inherited(D, c, A) ==
  A \in SUBSET D /\ \A p \in D : (\A i \in 1..Len(c[p]) : c[p][i] \in A) => p \in A

LEMMA TreeInduct ==
  ASSUME NEW S, NEW D, NEW bound \in Nat, NEW c, Children(S, D, bound, c),
         NEW A, Inherited(D, c, A)
  PROVE  A = D
<1>0. A \in SUBSET D /\ \A p \in D : (\A i \in 1..Len(c[p]) : c[p][i] \in A) => p \in A
  BY DEF Inherited
<1>1. /\ D \in SUBSET Seq(S) /\ c \in [D -> Seq(D)]
      /\ \A p \in D : Len(p) <= bound /\ \A i \in 1..Len(c[p]) : Len(c[p][i]) = Len(p) + 1
  BY DEF Children
<1>2. PICK N : N = {k \in Nat : \A p \in D : Len(p) + k > bound => p \in A}
  OBVIOUS
<1>3. \A p \in D : Len(p) \in Nat
  BY <1>1
<1>4. 0 \in N
  BY <1>1, <1>2, <1>3
<1>5. ASSUME NEW k \in N PROVE k + 1 \in N
  <2>1. k \in Nat
    BY <1>2
  <2>2. ASSUME NEW p \in D, Len(p) + (k + 1) > bound PROVE p \in A
    <3>1. ASSUME NEW i \in 1..Len(c[p]) PROVE c[p][i] \in A
      <4>1. PICK child \in D : child = c[p][i]
        BY <1>1
      <4>2. Len(child) = Len(p) + 1
        BY <1>1, <4>1
      <4>3. Len(child) + k > bound
        BY <1>3, <2>1, <2>2, <4>2
      <4> QED BY <1>2, <4>1, <4>3
    <3> QED BY <1>0, <3>1
  <2> QED BY <1>2, <2>1, <2>2
<1>6. N = Nat
  BY <1>2, <1>4, <1>5, NatInduct
<1>7. bound + 1 \in N
  BY <1>6
<1>8. ASSUME NEW p \in D PROVE p \in A
  <2>1. Len(p) + (bound + 1) > bound
    BY <1>3
  <2> QED BY <1>2, <1>7, <2>1
<1> QED BY <1>0, <1>8

\* A function on the nodes may be defined by what it makes of its values on the children.
Values(c, f, p) == [i \in 1..Len(c[p]) |-> f[c[p][i]]]
Makes(D, T) == [D \X Seq(T) -> T]

Grown(D, c, g, f) == \A p \in D : f[p] = g[<<p, Values(c, f, p)>>]

LEMMA TreeRecursion ==
  ASSUME NEW S, NEW D, NEW bound \in Nat, NEW c, Children(S, D, bound, c),
         NEW T, NEW b \in T, NEW g \in Makes(D, T)
  PROVE  \E f \in [D -> T] : Grown(D, c, g, f)
<1>1. /\ D \in SUBSET Seq(S) /\ c \in [D -> Seq(D)]
      /\ \A p \in D : Len(p) <= bound /\ \A i \in 1..Len(c[p]) : Len(c[p][i]) = Len(p) + 1
  BY DEF Children
<1>2. PICK N : N = {k \in Nat : \E f \in [D -> T] :
                       \A p \in D : Len(p) + k > bound => f[p] = g[<<p, Values(c, f, p)>>]}
  OBVIOUS
<1>3. \A p \in D : Len(p) \in Nat /\ c[p] \in Seq(D) /\ Len(c[p]) \in Nat
  BY <1>1
<1>4. 0 \in N
  <2>1. PICK f : f = [p \in D |-> b]
    OBVIOUS
  <2>2. f \in [D -> T]
    BY <2>1
  <2>3. \A p \in D : ~ (Len(p) + 0 > bound)
    BY <1>1, <1>3
  <2> QED BY <1>2, <2>2, <2>3
<1>5. ASSUME NEW f \in [D -> T], NEW p \in D PROVE Values(c, f, p) \in Seq(T)
  <2>1. \A i \in 1..Len(c[p]) : f[c[p][i]] \in T
    BY <1>3
  <2> QED BY <1>3, <2>1 DEF Values
<1>6. ASSUME NEW k \in N PROVE k + 1 \in N
  <2>1. k \in Nat
    BY <1>2
  <2>2. PICK f \in [D -> T] :
          \A p \in D : Len(p) + k > bound => f[p] = g[<<p, Values(c, f, p)>>]
    BY <1>2
  <2>3. PICK h : h = [p \in D |-> IF Len(p) + k > bound THEN f[p] ELSE g[<<p, Values(c, f, p)>>]]
    OBVIOUS
  <2>4. h \in [D -> T]
    <3>1. \A p \in D : g[<<p, Values(c, f, p)>>] \in T
      BY <1>5 DEF Makes
    <3> QED BY <2>3, <3>1
  <2>5. ASSUME NEW p \in D, Len(p) + (k + 1) > bound
        PROVE  h[p] = g[<<p, Values(c, h, p)>>]
    <3>1. ASSUME NEW i \in 1..Len(c[p]) PROVE h[c[p][i]] = f[c[p][i]]
      <4>1. PICK child \in D : child = c[p][i]
        BY <1>3
      <4>2. Len(child) = Len(p) + 1
        BY <1>1, <4>1
      <4>3. Len(child) + k > bound
        BY <1>3, <2>1, <2>5, <4>2
      <4> QED BY <2>3, <4>1, <4>3
    <3>2. Values(c, h, p) = Values(c, f, p)
      BY <3>1 DEF Values
    <3>3. h[p] = g[<<p, Values(c, f, p)>>]
      BY <2>2, <2>3
    <3> QED BY <3>2, <3>3
  <2> QED BY <1>2, <2>1, <2>4, <2>5
<1>7. N = Nat
  BY <1>2, <1>4, <1>6, NatInduct
<1>8. bound + 1 \in N
  BY <1>7
<1>9. PICK f \in [D -> T] :
        \A p \in D : Len(p) + (bound + 1) > bound => f[p] = g[<<p, Values(c, f, p)>>]
  BY <1>2, <1>8
<1>10. \A p \in D : Len(p) + (bound + 1) > bound
  BY <1>3
<1> QED BY <1>9, <1>10 DEF Grown

-------------------------------------------------------------------------------
(* Sequences, one behind the other.                                           *)

FlattenLoop(seqs, f) ==
  /\ f[0] = <<>> /\ FlattenSeq(seqs) = f[Len(seqs)]
  /\ \A i \in 1..Len(seqs) : f[i] = f[i - 1] \o seqs[i]

LEMMA FlattenUnfolds ==
  ASSUME NEW T, NEW seqs \in Seq(Seq(T))
  PROVE  \E f \in [0..Len(seqs) -> Seq(T)] : FlattenLoop(seqs, f)
<1>0. PICK n \in Nat : n = Len(seqs)
  OBVIOUS
<1>1. \A i \in 1..n : seqs[i] \in Seq(T)
  BY <1>0
<1>2. PICK g : g = [p \in Seq(T) \X (1..n) |-> p[1] \o seqs[p[2]]]
  OBVIOUS
<1>3. g \in [Seq(T) \X (1..n) -> Seq(T)]
  BY <1>1, <1>2
<1>4. PICK Results, none : Results = Seq(T) /\ none = <<>> /\ none \in Results
  <2>1. <<>> \in Seq(T)
    OBVIOUS
  <2> QED BY <2>1
<1>5. PICK f \in [0..n -> Results] : f[0] = none /\ \A i \in 1..n : f[i] = g[<<f[i - 1], i>>]
  <2>1. none \in Results /\ g \in Steps(1..n, Results)
    BY <1>3, <1>4 DEF Steps
  <2> QED BY <2>1, IndexRecursion
<1>6. \A i \in 1..n : i - 1 \in 0..n /\ f[i - 1] \in Seq(T)
  BY <1>4, <1>5
<1>7. \A i \in 1..n : f[i] = f[i - 1] \o seqs[i]
  <2>1. \A q \in Seq(T), i \in 1..n : g[<<q, i>>] = q \o seqs[i]
    BY <1>2
  <2> QED BY <1>5, <1>6, <2>1
<1>8. CASE n = 0
  <2>1. PICK Elems : Elems = Seq(T)
    OBVIOUS
  <2>2. seqs \in Seq(Elems) /\ Len(seqs) = 0
    BY <1>0, <1>8, <2>1
  <2>3. seqs = <<>>
    BY <2>2
  <2>4. FlattenSeq(seqs) = seqs
    BY <2>2 DEF FlattenSeq
  <2> QED BY <1>0, <1>4, <1>5, <1>7, <1>8, <2>3, <2>4 DEF FlattenLoop
<1>9. CASE n # 0
  <2>1. 1 \in 1..n /\ n \in 1..n /\ 1 - 1 = 0
    BY <1>9
  <2>2. f[1] = seqs[1]
    <3>1. f[1] = <<>> \o seqs[1]
      BY <1>4, <1>5, <1>7, <2>1
    <3>2. <<>> \o seqs[1] = seqs[1]
      BY <1>1, <2>1, ConcatEmptySeq
    <3> QED BY <3>1, <3>2
  <2>3. PICK h : h = [i \in 1..n |-> f[i]]
    OBVIOUS
  <2>4. \A i \in 1..n : i # 1 => i - 1 \in 1..n
    OBVIOUS
  <2>5. h = [i \in 1..n |-> IF i = 1 THEN seqs[i] ELSE h[i - 1] \o seqs[i]]
    BY <1>7, <2>1, <2>2, <2>3, <2>4
  <2> DEFINE Flat == CHOOSE flatten :
               flatten = [i \in 1..Len(seqs) |->
                            IF i = 1 THEN seqs[i] ELSE flatten[i - 1] \o seqs[i]]
  <2>6. Flat = [i \in 1..n |-> IF i = 1 THEN seqs[i] ELSE Flat[i - 1] \o seqs[i]]
    BY <1>0, <2>5
  <2>7. FlattenSeq(seqs) = Flat[n]
    BY <1>0, <1>9 DEF FlattenSeq
  <2> HIDE DEF Flat
  <2>8. PICK k : k = Flat
    OBVIOUS
  <2>9. k = [i \in 1..n |-> IF i = 1 THEN seqs[i] ELSE k[i - 1] \o seqs[i]]
    BY <2>6, <2>8
  <2>10. \A i \in 1..n : k[i] = IF i = 1 THEN seqs[i] ELSE k[i - 1] \o seqs[i]
    BY <2>9
  <2>11. PICK A : A = {i \in Nat : i \in 1..n => k[i] = f[i]}
    OBVIOUS
  <2>12. 0 \in A
    BY <2>11
  <2>13. ASSUME NEW i \in A PROVE i + 1 \in A
    <3>1. i \in Nat /\ (i + 1) - 1 = i
      BY <2>11
    <3>2. ASSUME i + 1 \in 1..n PROVE k[i + 1] = f[i + 1]
      <4>1. CASE i = 0
        BY <2>1, <2>2, <2>10, <4>1
      <4>2. CASE i # 0
        <5>1. i \in 1..n /\ i + 1 # 1
          BY <3>1, <3>2, <4>2
        <5>2. k[i] = f[i]
          BY <2>11, <5>1
        <5>3. k[i + 1] = k[i] \o seqs[i + 1]
          BY <2>10, <3>1, <3>2, <5>1
        <5>4. f[i + 1] = f[i] \o seqs[i + 1]
          BY <1>7, <3>1, <3>2
        <5> QED BY <5>2, <5>3, <5>4
      <4> QED BY <4>1, <4>2
    <3> QED BY <2>11, <3>1, <3>2
  <2>14. n \in A
    BY <2>11, <2>12, <2>13, NatInduct
  <2>15. FlattenSeq(seqs) = f[n]
    BY <2>1, <2>7, <2>8, <2>11, <2>14
  <2> QED BY <1>0, <1>4, <1>5, <1>7, <2>15 DEF FlattenLoop
<1> QED BY <1>8, <1>9

\* q has the elements of the first i of seqs: its a-th one comes from the one that o
\* gives, and was the r-th there.
Places(seqs, i, q, o, r) ==
  /\ \A a \in 1..Len(q) : /\ o[a] \in 1..i /\ r[a] \in 1..Len(seqs[o[a]])
                          /\ q[a] = seqs[o[a]][r[a]]
  /\ \A a, b \in 1..Len(q) : a < b => o[a] < o[b] \/ (o[a] = o[b] /\ r[a] < r[b])
  /\ \A j \in 1..i : \A c \in 1..Len(seqs[j]) : \E a \in 1..Len(q) : o[a] = j /\ r[a] = c

LEMMA PlacesLonger ==
  ASSUME NEW T, NEW seqs \in Seq(Seq(T)), NEW i \in Nat, i + 1 <= Len(seqs),
         NEW q \in Seq(T), NEW o, NEW r, Places(seqs, i, q, o, r)
  PROVE  \E u, v : Places(seqs, i + 1, q \o seqs[i + 1], u, v)
<1>1. PICK w \in Seq(T) : w = seqs[i + 1]
  <2>1. i + 1 \in 1..Len(seqs)
    OBVIOUS
  <2> QED BY <2>1
<1>2. PICK l \in Nat, m \in Nat : l = Len(q) /\ m = Len(w)
  OBVIOUS
<1>3. PICK t \in Seq(T) : t = q \o w /\ Joins(t, q, l, w, m)
  BY <1>2, Behind
<1>4. /\ Len(t) = l + m
      /\ \A a \in 1..l : a \in 1..(l + m) /\ t[a] = q[a]
      /\ \A k \in 1..m : l + k \in 1..(l + m) /\ t[l + k] = w[k]
      /\ \A a \in 1..(l + m) : a \in 1..l \/ \E k \in 1..m : a = l + k
  BY <1>3 DEF Joins
<1>5. /\ \A a \in 1..l : /\ o[a] \in 1..i /\ r[a] \in 1..Len(seqs[o[a]])
                         /\ q[a] = seqs[o[a]][r[a]]
      /\ \A a, b \in 1..l : a < b => o[a] < o[b] \/ (o[a] = o[b] /\ r[a] < r[b])
      /\ \A j \in 1..i : \A c \in 1..Len(seqs[j]) : \E a \in 1..l : o[a] = j /\ r[a] = c
  BY <1>2 DEF Places
<1>6. PICK u, v : /\ u = [a \in 1..(l + m) |-> IF a <= l THEN o[a] ELSE i + 1]
                  /\ v = [a \in 1..(l + m) |-> IF a <= l THEN r[a] ELSE a - l]
  OBVIOUS
<1>7. \A a \in 1..l : u[a] = o[a] /\ v[a] = r[a]
  BY <1>4, <1>6
<1>8. \A k \in 1..m : u[l + k] = i + 1 /\ v[l + k] = k
  <2>1. \A k \in 1..m : l + k \in 1..(l + m) /\ ~ (l + k <= l) /\ (l + k) - l = k
    OBVIOUS
  <2> QED BY <1>6, <2>1
<1>9. ASSUME NEW a \in 1..(l + m)
      PROVE  /\ u[a] \in 1..(i + 1) /\ v[a] \in 1..Len(seqs[u[a]])
             /\ t[a] = seqs[u[a]][v[a]]
  <2>1. CASE a \in 1..l
    <3>1. o[a] \in 1..(i + 1)
      BY <1>5, <2>1
    <3> QED BY <1>4, <1>5, <1>7, <2>1, <3>1
  <2>2. CASE a \notin 1..l
    <3>1. PICK k \in 1..m : a = l + k
      BY <1>4, <2>2
    <3>2. u[a] = i + 1 /\ v[a] = k /\ t[a] = w[k]
      BY <1>4, <1>8, <3>1
    <3>3. i + 1 \in 1..(i + 1)
      OBVIOUS
    <3> QED BY <1>1, <1>2, <3>2, <3>3
  <2> QED BY <2>1, <2>2
<1>10. ASSUME NEW a \in 1..(l + m), NEW b \in 1..(l + m), a < b
       PROVE  u[a] < u[b] \/ (u[a] = u[b] /\ v[a] < v[b])
  <2>1. CASE a \in 1..l /\ b \in 1..l
    BY <1>5, <1>7, <1>10, <2>1
  <2>2. CASE a \in 1..l /\ b \notin 1..l
    <3>1. PICK k \in 1..m : b = l + k
      BY <1>4, <2>2
    <3>2. u[b] = i + 1 /\ u[a] = o[a] /\ o[a] \in 1..i
      BY <1>5, <1>7, <1>8, <2>2, <3>1
    <3>3. o[a] < i + 1
      BY <3>2
    <3> QED BY <3>2, <3>3
  <2>3. CASE a \notin 1..l
    <3>1. PICK k \in 1..m : a = l + k
      BY <1>4, <2>3
    <3>2. b \notin 1..l
      BY <1>10, <3>1
    <3>3. PICK c \in 1..m : b = l + c
      BY <1>4, <3>2
    <3>4. k < c
      BY <1>10, <3>1, <3>3
    <3> QED BY <1>8, <3>1, <3>3, <3>4
  <2> QED BY <2>1, <2>2, <2>3
<1>11. ASSUME NEW j \in 1..(i + 1), NEW c \in 1..Len(seqs[j])
       PROVE  \E a \in 1..(l + m) : u[a] = j /\ v[a] = c
  <2>1. CASE j \in 1..i
    <3>1. PICK a \in 1..l : o[a] = j /\ r[a] = c
      BY <1>5, <2>1
    <3> QED BY <1>4, <1>7, <3>1
  <2>2. CASE j = i + 1
    <3>1. c \in 1..m
      BY <1>1, <1>2, <2>2
    <3> QED BY <1>4, <1>8, <2>2, <3>1
  <2> QED BY <2>1, <2>2
<1>12. Places(seqs, i + 1, t, u, v)
  BY <1>4, <1>9, <1>10, <1>11 DEF Places
<1> QED BY <1>1, <1>3, <1>12

LEMMA FlattenPlaces ==
  ASSUME NEW T, NEW seqs \in Seq(Seq(T))
  PROVE  /\ FlattenSeq(seqs) \in Seq(T)
         /\ \E o, r : Places(seqs, Len(seqs), FlattenSeq(seqs), o, r)
<1>1. PICK n \in Nat : n = Len(seqs)
  OBVIOUS
<1>2. PICK f \in [0..n -> Seq(T)] : /\ f[0] = <<>> /\ FlattenSeq(seqs) = f[n]
                                    /\ \A i \in 1..n : f[i] = f[i - 1] \o seqs[i]
  <2>1. PICK f \in [0..n -> Seq(T)] : FlattenLoop(seqs, f)
    BY <1>1, FlattenUnfolds
  <2> QED BY <1>1, <2>1 DEF FlattenLoop
<1>3. PICK A : A = {i \in Nat : i <= n => \E o, r : Places(seqs, i, f[i], o, r)}
  OBVIOUS
<1>4. 0 \in A
  <2>1. PICK q : q = <<>> /\ Len(q) = 0
    OBVIOUS
  <2>2. 1..0 = {}
    OBVIOUS
  <2>3. Places(seqs, 0, q, <<>>, <<>>)
    BY <2>1, <2>2 DEF Places
  <2> QED BY <1>2, <1>3, <2>1, <2>3
<1>5. ASSUME NEW i \in A PROVE i + 1 \in A
  <2>1. i \in Nat /\ (i + 1) - 1 = i
    BY <1>3
  <2> SUFFICES ASSUME i + 1 <= n PROVE \E o, r : Places(seqs, i + 1, f[i + 1], o, r)
    BY <1>3, <2>1
  <2>2. i + 1 \in 1..n /\ i <= n /\ i \in 0..n
    BY <2>1
  <2>3. PICK o, r : Places(seqs, i, f[i], o, r)
    BY <1>3, <2>2
  <2>4. PICK q \in Seq(T) : q = f[i]
    BY <2>2
  <2>5. \E u, v : Places(seqs, i + 1, q \o seqs[i + 1], u, v)
    BY <1>1, <2>1, <2>3, <2>4, PlacesLonger
  <2>6. f[i + 1] = q \o seqs[i + 1]
    BY <1>2, <2>1, <2>2, <2>4
  <2> QED BY <2>5, <2>6
<1>6. n \in A
  <2>1. A \in SUBSET Nat
    BY <1>3
  <2>2. A = Nat
    BY <1>4, <1>5, <2>1, NatInduct
  <2> QED BY <2>2
<1>7. n \in 0..n
  OBVIOUS
<1> QED BY <1>1, <1>2, <1>3, <1>6, <1>7

-------------------------------------------------------------------------------
(* Disks.                                                                     *)

LEMMA CutFacts ==
  ASSUME NEW S, NEW q \in Seq(S), NEW i \in 0..Len(q)
  PROVE  /\ SubSeq(q, 1, i) \in Seq(S) /\ Len(SubSeq(q, 1, i)) = i
         /\ \A j \in 1..i : SubSeq(q, 1, i)[j] = q[j]
<1>1. PICK n \in Nat : n = Len(q)
  OBVIOUS
<1>2. i \in Nat /\ i <= n
  BY <1>1
<1>3. SubSeq(q, 1, i) = [j \in 1..i |-> q[j]]
  BY <1>1, <1>2
<1>4. \A j \in 1..i : q[j] \in S
  BY <1>1, <1>2
<1>5. PICK t : t = [j \in 1..i |-> q[j]]
  OBVIOUS
<1>6. t \in Seq(S) /\ Len(t) = i /\ \A j \in 1..i : t[j] = q[j]
  BY <1>2, <1>4, <1>5
<1> QED BY <1>3, <1>5, <1>6

\* What is above a path of a disk is a directory of it.
LEMMA AboveIsDir ==
  ASSUME NEW disk, IsDisk(disk), NEW q \in DOMAIN disk, NEW i \in 0..Len(q)
  PROVE  SubSeq(q, 1, i) \in DOMAIN disk /\ (i < Len(q) => IsDir(disk, SubSeq(q, 1, i)))
<1>1. PICK D : D = DOMAIN disk /\ D \in SUBSET Seq(Names)
  BY EscapeIsNoPath
<1>2. PICK n \in Nat : n = Len(q) /\ q \in Seq(Names)
  BY <1>1
<1>3. PICK A : A = {k \in Nat : k <= n =>
                      /\ SubSeq(q, 1, n - k) \in D
                      /\ k # 0 => IsDir(disk, SubSeq(q, 1, n - k))}
  OBVIOUS
<1>4. 0 \in A
  <2>1. n - 0 = n /\ n \in 0..Len(q)
    BY <1>2
  <2>2. PICK u \in Seq(Names) : u = SubSeq(q, 1, n) /\ Len(u) = n /\ \A j \in 1..n : u[j] = q[j]
    BY <1>2, <2>1, CutFacts
  <2>3. u = q
    BY <1>2, <2>2, SeqEqual
  <2>4. SubSeq(q, 1, n - 0) \in D
    BY <1>1, <2>1, <2>2, <2>3
  <2> QED BY <1>3, <2>4
<1>5. ASSUME NEW k \in A PROVE k + 1 \in A
  <2>1. k \in Nat /\ k + 1 # 0
    BY <1>3
  <2> SUFFICES ASSUME k + 1 <= n PROVE IsDir(disk, SubSeq(q, 1, n - (k + 1)))
    BY <1>1, <1>3, <2>1 DEF IsDir
  <2>2. PICK m \in Nat : m = n - (k + 1) /\ m + 1 = n - k /\ m + 1 <= n
    BY <2>1
  <2>3. PICK u \in Seq(Names) : /\ u = SubSeq(q, 1, m + 1) /\ Len(u) = m + 1
                                /\ \A j \in 1..(m + 1) : u[j] = q[j]
    <3>1. m + 1 \in 0..Len(q)
      BY <1>2, <2>2
    <3> QED BY <1>2, <3>1, CutFacts
  <2>4. u \in D
    <3>1. k <= n
      BY <2>1
    <3> QED BY <1>3, <2>2, <2>3, <3>1
  <2>5. u # <<>>
    <3>1. Len(u) # 0
      BY <2>3
    <3> QED BY <3>1
  <2>6. IsDir(disk, Front(u))
    BY <1>1, <2>4, <2>5 DEF IsDisk
  <2>7. Front(u) = SubSeq(u, 1, m)
    BY <2>3 DEF Front
  <2>8. SubSeq(u, 1, m) = SubSeq(q, 1, m)
    <3>1. m \in 0..Len(u) /\ m \in 0..Len(q)
      BY <1>2, <2>2, <2>3
    <3>2. PICK v \in Seq(Names) : /\ v = SubSeq(u, 1, m) /\ Len(v) = m
                                  /\ \A j \in 1..m : v[j] = u[j]
      BY <3>1, CutFacts
    <3>3. PICK w \in Seq(Names) : /\ w = SubSeq(q, 1, m) /\ Len(w) = m
                                  /\ \A j \in 1..m : w[j] = q[j]
      BY <1>2, <3>1, CutFacts, ZenonT(40)
    <3>4. \A j \in 1..m : v[j] = w[j]
      BY <2>3, <3>2, <3>3
    <3>5. v = w
      BY <3>2, <3>3, <3>4, SeqEqual
    <3> QED BY <3>2, <3>3, <3>5
  <2> QED BY <2>2, <2>6, <2>7, <2>8
<1>6. A = Nat
  <2>1. A \in SUBSET Nat
    BY <1>3
  <2> QED BY <1>4, <1>5, <2>1, NatInduct
<1>7. PICK k \in Nat : k = n - i /\ n - k = i /\ k <= n /\ (i < n => k # 0)
  <2>1. i \in Nat /\ i <= n
    BY <1>2
  <2>2. n - i \in Nat /\ n - (n - i) = i /\ n - i <= n /\ (i < n => n - i # 0)
    BY <2>1
  <2> QED BY <2>2
<1>8. k \in A
  BY <1>6
<1> QED BY <1>1, <1>2, <1>3, <1>7, <1>8

LEMMA RankOfOrder ==
  /\ \A k \in 1..Len(Order) : Rank(Order[k]) = k /\ Order[k] \in Names
  /\ \A n \in ToSet(Order) : \E k \in 1..Len(Order) : Order[k] = n
<1>1. ASSUME NEW k \in 1..Len(Order) PROVE Rank(Order[k]) = k
  BY OrderAssumption DEF Rank
<1>2. \A k \in 1..Len(Order) : Order[k] \in Names
  BY OrderAssumption
<1>3. \A n \in ToSet(Order) : \E k \in 1..Len(Order) : Order[k] = n
  BY OrderAssumption DEF ToSet
<1> QED BY <1>1, <1>2, <1>3

\* The entries of a directory, all of them and sorted.
Ranked(e) == \A a, b \in 1..Len(e) : a < b => Rank(e[a]) < Rank(e[b]) /\ e[a] # e[b]
Listing(disk, p, e) ==
  /\ e \in Seq(Names) /\ Ranked(e)
  /\ \A i \in 1..Len(e) : e[i] \in Names /\ Rank(e[i]) \in Int /\ Append(p, e[i]) \in DOMAIN disk
  /\ \A x \in Names : Append(p, x) \in DOMAIN disk => \E i \in 1..Len(e) : e[i] = x

LEMMA EntriesListing ==
  ASSUME NEW disk, IsDisk(disk), NEW p \in DOMAIN disk
  PROVE  Listing(disk, p, Entries(disk, p))
<1>1. PICK chosen : chosen = {n \in Names : Append(p, n) \in DOMAIN disk}
  OBVIOUS
<1>2. PICK e : e = Entries(disk, p)
  OBVIOUS
<1>3. PICK l \in Nat : l = Len(Order) /\ Order \in Seq(Names)
  BY OrderAssumption
<1>4. e \in Seq(Names) /\ \E m : Picks(Order, chosen, l, e, m)
  <2>1. Entries(disk, p) = Among(Order, chosen)
    BY <1>1 DEF Entries
  <2> QED BY <1>2, <1>3, <2>1, AmongPicks
<1>5. PICK m : Picks(Order, chosen, l, e, m)
  BY <1>4
<1>6. \A a \in 1..Len(e) : m[a] \in 1..l
  <2>1. m \in [1..Len(e) -> 1..l]
    BY <1>5 DEF Picks
  <2> QED BY <2>1
<1>7. \A a \in 1..Len(e) : e[a] = Order[m[a]] /\ e[a] \in chosen /\ Rank(e[a]) = m[a]
  BY <1>3, <1>5, <1>6, RankOfOrder DEF Picks
<1>8. Ranked(e)
  <2>1. ASSUME NEW a \in 1..Len(e), NEW b \in 1..Len(e), a < b
        PROVE  Rank(e[a]) < Rank(e[b]) /\ e[a] # e[b]
    <3>1. m[a] < m[b]
      BY <1>5, <2>1 DEF Picks
    <3>2. PICK x \in 1..l, y \in 1..l : x = m[a] /\ y = m[b]
      BY <1>6
    <3>3. x < y /\ x # y
      BY <3>1, <3>2
    <3> QED BY <1>7, <3>2, <3>3
  <2> QED BY <2>1 DEF Ranked
<1>9. \A i \in 1..Len(e) : e[i] \in Names /\ Rank(e[i]) \in Int /\ Append(p, e[i]) \in DOMAIN disk
  <2>1. \A x \in 1..l : x \in Int
    OBVIOUS
  <2> QED BY <1>1, <1>6, <1>7, <2>1
<1>10. ASSUME NEW x \in Names, Append(p, x) \in DOMAIN disk PROVE \E i \in 1..Len(e) : e[i] = x
  <2>1. PICK q : q = Append(p, x) /\ q \in Seq(ToSet(Order))
    BY <1>10 DEF IsDisk
  <2>2. p \in Seq(Names) /\ Last(q) = x /\ q # <<>>
    <3>1. p \in Seq(Names)
      BY EscapeIsNoPath
    <3> QED BY <2>1, <3>1, FrontAppend
  <2>3. x \in ToSet(Order)
    <3>1. Last(q) \in ToSet(Order)
      BY <2>1, <2>2, FrontLast
    <3> QED BY <2>2, <3>1
  <2>4. PICK k \in 1..l : Order[k] = x
    BY <1>3, <2>3, RankOfOrder
  <2>5. Order[k] \in chosen
    BY <1>1, <1>10, <2>4
  <2>6. PICK a \in 1..Len(e) : m[a] = k
    BY <1>5, <2>5 DEF Picks
  <2> QED BY <1>7, <2>4, <2>6
<1>11. Listing(disk, p, e)
  BY <1>4, <1>8, <1>9, <1>10 DEF Listing
<1> QED BY <1>2, <1>11

-------------------------------------------------------------------------------
(* The order of a walk.                                                       *)

LEMMA CutStarts ==
  ASSUME NEW S, NEW p \in Seq(S), NEW u \in Seq(S)
  PROVE  Starts(p, u) <=> Len(p) <= Len(u) /\ SubSeq(u, 1, Len(p)) = p
<1>1. PICK l \in Nat, m \in Nat : l = Len(p) /\ m = Len(u)
  OBVIOUS
<1>2. ASSUME Starts(p, u) PROVE l <= m /\ SubSeq(u, 1, l) = p
  <2>1. l <= m /\ \A i \in 1..l : u[i] = p[i]
    BY <1>1, <1>2 DEF Starts
  <2>2. l \in 0..Len(u)
    BY <1>1, <2>1
  <2>3. PICK v \in Seq(S) : v = SubSeq(u, 1, l) /\ Len(v) = l /\ \A j \in 1..l : v[j] = u[j]
    BY <2>2, CutFacts
  <2>4. v = p
    BY <1>1, <2>1, <2>3, SeqEqual
  <2> QED BY <2>1, <2>3, <2>4
<1>3. ASSUME l <= m, SubSeq(u, 1, l) = p PROVE Starts(p, u)
  <2>1. l \in 0..Len(u)
    BY <1>1, <1>3
  <2>2. PICK v \in Seq(S) : v = SubSeq(u, 1, l) /\ Len(v) = l /\ \A j \in 1..l : v[j] = u[j]
    BY <2>1, CutFacts
  <2>3. \A j \in 1..l : u[j] = p[j]
    BY <1>3, <2>2
  <2> QED BY <1>1, <1>3, <2>3 DEF Starts
<1> QED BY <1>1, <1>2, <1>3

LEMMA BeforeChild ==
  ASSUME NEW p \in Seq(Names), NEW u \in Seq(Names), Starts(p, u), Len(p) < Len(u)
  PROVE  Before(p, u)
BY CutStarts DEF Before

\* What a name more adds to what a path starts with.
LEMMA StartsLonger ==
  ASSUME NEW S, NEW p \in Seq(S), NEW x \in S, NEW u \in Seq(S)
  PROVE  Starts(Append(p, x), u) <=> Starts(p, u) /\ Len(p) < Len(u) /\ u[Len(p) + 1] = x
<1>1. PICK l \in Nat, m \in Nat : l = Len(p) /\ m = Len(u)
  OBVIOUS
<1>2. PICK t : t = Append(p, x) /\ Len(t) = l + 1 /\ t[l + 1] = x /\ \A i \in 1..l : t[i] = p[i]
  <2>1. PICK t : t = Append(p, x)
    OBVIOUS
  <2>2. /\ t \in Seq(S) /\ Len(t) = l + 1 /\ t[l + 1] = x
        /\ \A i \in 1..l : t[i] = p[i]
    BY <1>1, <2>1, AppendProperties
  <2> QED BY <2>1, <2>2
<1>3. \A i \in 1..(l + 1) : i \in 1..l \/ i = l + 1
  OBVIOUS
<1>4. l + 1 \in 1..(l + 1) /\ \A i \in 1..l : i \in 1..(l + 1)
  OBVIOUS
<1>5. Starts(t, u) <=> m >= l + 1 /\ \A i \in 1..(l + 1) : u[i] = t[i]
  BY <1>1, <1>2 DEF Starts
<1>6. Starts(p, u) <=> m >= l /\ \A i \in 1..l : u[i] = p[i]
  BY <1>1 DEF Starts
<1>7. (\A i \in 1..(l + 1) : u[i] = t[i]) <=> (\A i \in 1..l : u[i] = p[i]) /\ u[l + 1] = x
  BY <1>2, <1>3, <1>4
<1>8. m >= l + 1 <=> m >= l /\ l < m
  OBVIOUS
<1>9. Starts(t, u) <=> Starts(p, u) /\ l < m /\ u[l + 1] = x
  BY <1>5, <1>6, <1>7, <1>8
<1> QED BY <1>1, <1>2, <1>9

LEMMA BeforeSibling ==
  ASSUME NEW p \in Seq(Names), NEW x \in Names, NEW y \in Names, x # y, Rank(x) < Rank(y),
         NEW u \in Seq(Names), NEW v \in Seq(Names),
         Starts(Append(p, x), u), Starts(Append(p, y), v)
  PROVE  Before(u, v)
<1>1. PICK l \in Nat, m \in Nat, n \in Nat : l = Len(p) /\ m = Len(u) /\ n = Len(v)
  OBVIOUS
<1>2. Starts(p, u) /\ l < m /\ u[l + 1] = x
  BY <1>1, StartsLonger
<1>3. Starts(p, v) /\ l < n /\ v[l + 1] = y
  BY <1>1, StartsLonger
<1>4. SubSeq(u, 1, l) = p /\ SubSeq(v, 1, l) = p
  BY <1>1, <1>2, <1>3, CutStarts
<1>5. PICK i \in 1..m : i = l + 1 /\ i - 1 = l /\ i <= n
  BY <1>2, <1>3
<1> QED BY <1>1, <1>2, <1>3, <1>4, <1>5 DEF Before

\* Pieces that are sorted, each from below one of the sorted names, are sorted one behind
\* the other; path gives the path of an element.
LEMMA FlatSorted ==
  ASSUME NEW T, NEW seqs \in Seq(Seq(T)), NEW path, NEW p \in Seq(Names),
         NEW e \in Seq(Names), Ranked(e), Len(seqs) = Len(e),
         \A i \in 1..Len(e) : \A b \in 1..Len(seqs[i]) :
           path[seqs[i][b]] \in Seq(Names) /\ Starts(Append(p, e[i]), path[seqs[i][b]]),
         \A i \in 1..Len(e) : \A a, b \in 1..Len(seqs[i]) :
           a < b => Before(path[seqs[i][a]], path[seqs[i][b]]),
         NEW o, NEW r, NEW flat, Places(seqs, Len(e), flat, o, r)
  PROVE  \A a, b \in 1..Len(flat) : a < b => Before(path[flat[a]], path[flat[b]])
<1> SUFFICES ASSUME NEW a \in 1..Len(flat), NEW b \in 1..Len(flat), a < b
             PROVE  Before(path[flat[a]], path[flat[b]])
  OBVIOUS
<1>1. PICK n \in Nat : n = Len(e)
  OBVIOUS
<1>2. PICK i \in 1..n, j \in 1..n : i = o[a] /\ j = o[b]
  BY <1>1 DEF Places
<1>3. /\ r[a] \in 1..Len(seqs[i]) /\ flat[a] = seqs[i][r[a]]
      /\ r[b] \in 1..Len(seqs[j]) /\ flat[b] = seqs[j][r[b]]
  BY <1>2 DEF Places
<1>4. CASE i = j /\ r[a] < r[b]
  BY <1>1, <1>3, <1>4
<1>5. CASE i < j
  <2>1. PICK u \in Seq(Names), v \in Seq(Names) : u = path[flat[a]] /\ v = path[flat[b]]
    BY <1>1, <1>3
  <2>2. Starts(Append(p, e[i]), u) /\ Starts(Append(p, e[j]), v)
    BY <1>1, <1>3, <2>1
  <2>3. PICK x \in Names, y \in Names : x = e[i] /\ y = e[j]
    BY <1>1
  <2>4. Rank(x) < Rank(y) /\ x # y
    BY <1>1, <1>5, <2>3 DEF Ranked
  <2>5. Before(u, v)
    BY <2>2, <2>3, <2>4, BeforeSibling
  <2> QED BY <2>1, <2>5
<1>6. i < j \/ (i = j /\ r[a] < r[b])
  BY <1>2 DEF Places
<1> QED BY <1>4, <1>5, <1>6

\* The paths that the lists of L lead to from each path.
Offspring(D, L) == [p \in D |-> [i \in 1..Len(L[p]) |-> Append(p, L[p][i])]]

LEMMA OffspringChildren ==
  ASSUME NEW disk, IsDisk(disk), NEW L,
         \A p \in DOMAIN disk : /\ L[p] \in Seq(Names)
                                /\ \A i \in 1..Len(L[p]) : Append(p, L[p][i]) \in DOMAIN disk
  PROVE  \E bound \in Nat : Children(Names, DOMAIN disk, bound, Offspring(DOMAIN disk, L))
<1>1. PICK D : D = DOMAIN disk /\ D \in SUBSET Seq(Names)
  BY EscapeIsNoPath
<1>2. PICK bound \in Nat : \A p \in D : Len(p) <= bound
  <2>1. IsFiniteSet(D)
    BY <1>1 DEF IsDisk
  <2> QED BY <1>1, <2>1, Bounded
<1>3. PICK c : c = Offspring(D, L)
  OBVIOUS
<1>4. ASSUME NEW p \in D
      PROVE  /\ c[p] \in Seq(D) /\ Len(c[p]) = Len(L[p])
             /\ \A i \in 1..Len(L[p]) : c[p][i] = Append(p, L[p][i]) /\ Len(c[p][i]) = Len(p) + 1
  <2>1. PICK e \in Seq(Names) : e = L[p] /\ \A i \in 1..Len(e) : Append(p, e[i]) \in D
    BY <1>1
  <2>2. PICK t : t = [i \in 1..Len(e) |-> Append(p, e[i])]
    OBVIOUS
  <2>3. t \in Seq(D) /\ Len(t) = Len(e) /\ \A i \in 1..Len(e) : t[i] = Append(p, e[i])
    <3>1. Len(e) \in Nat
      OBVIOUS
    <3> QED BY <2>1, <2>2, <3>1
  <2>4. ASSUME NEW i \in 1..Len(e) PROVE Len(Append(p, e[i])) = Len(p) + 1
    <3>1. e[i] \in Names /\ p \in Seq(Names)
      BY <1>1
    <3> QED BY <3>1, AppendProperties
  <2>5. c[p] = t
    BY <1>3, <2>1, <2>2 DEF Offspring
  <2> QED BY <2>1, <2>3, <2>4, <2>5
<1>5. c \in [D -> Seq(D)]
  <2>1. c = [p \in D |-> c[p]]
    BY <1>3 DEF Offspring
  <2> QED BY <1>4, <2>1
<1>6. Children(Names, D, bound, c)
  BY <1>1, <1>2, <1>4, <1>5 DEF Children
<1> QED BY <1>1, <1>3, <1>6

-------------------------------------------------------------------------------
(* filepath.WalkDir.                                                          *)

\* What a walk makes of a path and of the walks of its entries.
WalkValue(disk, prune, p, walks) ==
  IF ~ IsDir(disk, p) THEN <<p>>
  ELSE IF Base(p) \in prune THEN <<>> ELSE <<p>> \o FlattenSeq(walks)

LEMMA WalkValueType ==
  ASSUME NEW disk, NEW prune, NEW p \in DOMAIN disk, NEW walks \in Seq(Seq(DOMAIN disk))
  PROVE  WalkValue(disk, prune, p, walks) \in Seq(DOMAIN disk)
<1>1. PICK D : D = DOMAIN disk
  OBVIOUS
<1>2. <<p>> \in Seq(D) /\ <<>> \in Seq(D)
  BY <1>1
<1>3. FlattenSeq(walks) \in Seq(D)
  BY <1>1, FlattenPlaces
<1>4. <<p>> \o FlattenSeq(walks) \in Seq(D)
  BY <1>2, <1>3, Behind
<1> QED BY <1>1, <1>2, <1>4 DEF WalkValue

\* The values on the children that the lists of L lead to.
LEMMA OffspringValues ==
  ASSUME NEW D, NEW L, NEW p \in D, L[p] \in Seq(Names), NEW f
  PROVE  Values(Offspring(D, L), f, p) = [i \in 1..Len(L[p]) |-> f[Append(p, L[p][i])]]
<1>1. PICK c : c = Offspring(D, L)
  OBVIOUS
<1>2. PICK e \in Seq(Names), n \in Nat : e = L[p] /\ n = Len(e)
  OBVIOUS
<1>3. c[p] = [i \in 1..n |-> Append(p, e[i])]
  BY <1>1, <1>2 DEF Offspring
<1>4. PICK t : t = [i \in 1..n |-> Append(p, e[i])]
  OBVIOUS
<1>5. Len(t) = n /\ \A i \in 1..n : t[i] = Append(p, e[i])
  BY <1>4
<1>6. Values(c, f, p) = [i \in 1..n |-> f[t[i]]]
  BY <1>3, <1>4, <1>5 DEF Values
<1>7. [i \in 1..n |-> f[t[i]]] = [i \in 1..n |-> f[Append(p, e[i])]]
  BY <1>5
<1> QED BY <1>1, <1>2, <1>6, <1>7

OnEach(W, p, e) == [i \in 1..Len(e) |-> W[Append(p, e[i])]]

LEMMA WalkUnfolds ==
  ASSUME NEW disk, IsDisk(disk), NEW prune
  PROVE  \A p \in DOMAIN disk :
           Walked(disk, prune)[p] =
             WalkValue(disk, prune, p, OnEach(Walked(disk, prune), p, Entries(disk, p)))
<1>1. PICK D : D = DOMAIN disk /\ D \in SUBSET Seq(Names)
  BY EscapeIsNoPath
<1>2. PICK L : L = [p \in D |-> Entries(disk, p)]
  OBVIOUS
<1>3. \A p \in D : /\ L[p] = Entries(disk, p) /\ L[p] \in Seq(Names)
                   /\ \A i \in 1..Len(L[p]) : Append(p, L[p][i]) \in D
  BY <1>1, <1>2, EntriesListing DEF Listing
<1>4. PICK c : c = Offspring(D, L)
  OBVIOUS
<1>5. PICK bound \in Nat : Children(Names, D, bound, c)
  <2>1. \E bound \in Nat : Children(Names, DOMAIN disk, bound, Offspring(DOMAIN disk, L))
    BY <1>1, <1>3, OffspringChildren
  <2> QED BY <1>1, <1>4, <2>1
<1>6. PICK T, none : T = Seq(D) /\ none = <<>> /\ none \in T
  <2>1. <<>> \in Seq(D)
    OBVIOUS
  <2> QED BY <2>1
<1>7. PICK g : g = [x \in D \X Seq(T) |-> WalkValue(disk, prune, x[1], x[2])]
  OBVIOUS
<1>8. g \in Makes(D, T)
  <2>1. \A p \in D, walks \in Seq(T) : WalkValue(disk, prune, p, walks) \in T
    BY <1>1, <1>6, WalkValueType
  <2> QED BY <1>7, <2>1 DEF Makes
<1>9. PICK f \in [D -> T] : \A p \in D : f[p] = g[<<p, Values(c, f, p)>>]
  <2>1. none \in T
    BY <1>6
  <2>2. \E f \in [D -> T] : Grown(D, c, g, f)
    BY <1>5, <1>8, <2>1, TreeRecursion
  <2> QED BY <2>2 DEF Grown
<1>10. ASSUME NEW p \in D
       PROVE  f[p] = WalkValue(disk, prune, p, OnEach(f, p, Entries(disk, p)))
  <2>1. PICK e \in Seq(Names) : e = Entries(disk, p) /\ \A i \in 1..Len(e) : Append(p, e[i]) \in D
    BY <1>3
  <2>2. PICK walks : walks = OnEach(f, p, e)
    OBVIOUS
  <2>3. Values(c, f, p) = walks
    <3>1. Values(Offspring(D, L), f, p) = [i \in 1..Len(L[p]) |-> f[Append(p, L[p][i])]]
      <4>1. L[p] \in Seq(Names)
        BY <1>3
      <4> QED BY <4>1, OffspringValues
    <3>2. L[p] = e
      BY <1>3, <2>1
    <3>3. Values(c, f, p) = [i \in 1..Len(e) |-> f[Append(p, e[i])]]
      BY <1>4, <3>1, <3>2
    <3> QED BY <2>2, <3>3 DEF OnEach
  <2>4. walks \in Seq(T)
    <3>1. \A i \in 1..Len(e) : f[Append(p, e[i])] \in T
      BY <2>1
    <3>2. Len(e) \in Nat
      OBVIOUS
    <3> QED BY <2>2, <3>1, <3>2 DEF OnEach
  <2>5. g[<<p, walks>>] = WalkValue(disk, prune, p, walks)
    BY <1>7, <2>4
  <2> QED BY <1>9, <2>1, <2>2, <2>3, <2>5
<1> DEFINE Walk == CHOOSE walk : walk = [p \in DOMAIN disk |->
             IF ~ IsDir(disk, p) THEN <<p>>
             ELSE IF Base(p) \in prune THEN <<>>
             ELSE LET entries == Entries(disk, p) IN
                    <<p>> \o FlattenSeq([i \in 1..Len(entries) |-> walk[Append(p, entries[i])]])]
<1>11. f = [p \in DOMAIN disk |->
             IF ~ IsDir(disk, p) THEN <<p>>
             ELSE IF Base(p) \in prune THEN <<>>
             ELSE LET entries == Entries(disk, p) IN
                    <<p>> \o FlattenSeq([i \in 1..Len(entries) |-> f[Append(p, entries[i])]])]
  BY <1>1, <1>9, <1>10 DEF WalkValue, OnEach
<1>12. Walk = [p \in DOMAIN disk |->
             IF ~ IsDir(disk, p) THEN <<p>>
             ELSE IF Base(p) \in prune THEN <<>>
             ELSE LET entries == Entries(disk, p) IN
                    <<p>> \o FlattenSeq([i \in 1..Len(entries) |-> Walk[Append(p, entries[i])]])]
  BY <1>11
<1>13. Walked(disk, prune) = Walk
  BY DEF Walked
<1> HIDE DEF Walk
<1>14. ASSUME NEW p \in DOMAIN disk
       PROVE  Walk[p] = WalkValue(disk, prune, p, OnEach(Walk, p, Entries(disk, p)))
  BY <1>12 DEF WalkValue, OnEach
<1> QED BY <1>13, <1>14

\* The walk from p gets to q: no directory on the way is left out.
Reached(disk, prune, p, q) ==
  /\ Starts(p, q)
  /\ \A i \in Len(p)..Len(q) :
       IsDir(disk, SubSeq(q, 1, i)) => Base(SubSeq(q, 1, i)) \notin prune

\* w is what a walk from p should find.
Walks(disk, prune, p, w) ==
  /\ w \in Seq(DOMAIN disk)
  /\ \A a, b \in 1..Len(w) : a < b => Before(w[a], w[b])
  /\ \A q \in DOMAIN disk : (\E a \in 1..Len(w) : w[a] = q) <=> Reached(disk, prune, p, q)

\* A path of a disk that starts with one of the same length is that one.
LEMMA SameLength ==
  ASSUME NEW S, NEW p \in Seq(S), NEW q \in Seq(S), Starts(p, q), ~ (Len(p) < Len(q))
  PROVE  q = p
<1>1. PICK l \in Nat, m \in Nat : l = Len(p) /\ m = Len(q)
  OBVIOUS
<1>2. l = m /\ \A i \in 1..l : q[i] = p[i]
  BY <1>1 DEF Starts
<1> QED BY <1>1, <1>2, SeqEqual

LEMMA CutWhole ==
  ASSUME NEW S, NEW p \in Seq(S)
  PROVE  SubSeq(p, 1, Len(p)) = p /\ Starts(p, p)
<1>1. Starts(p, p)
  BY DEF Starts
<1> QED BY <1>1, CutStarts

LEMMA ReachedFurther ==
  ASSUME NEW disk, IsDisk(disk), NEW prune, NEW p \in DOMAIN disk, NEW q \in DOMAIN disk,
         IsDir(disk, p), Base(p) \notin prune, NEW e, Listing(disk, p, e)
  PROVE  Reached(disk, prune, p, q)
           <=> q = p \/ \E i \in 1..Len(e) : Reached(disk, prune, Append(p, e[i]), q)
<1>1. p \in Seq(Names) /\ q \in Seq(Names)
  BY EscapeIsNoPath
<1>2. PICK l \in Nat, m \in Nat : l = Len(p) /\ m = Len(q)
  BY <1>1
<1>3. Reached(disk, prune, p, p)
  <2>1. \A i \in l..l : i = l
    OBVIOUS
  <2>2. SubSeq(p, 1, l) = p /\ Starts(p, p)
    BY <1>1, <1>2, CutWhole
  <2> QED BY <1>2, <2>1, <2>2 DEF Reached
<1>4. ASSUME NEW x \in Names
      PROVE  Len(Append(p, x)) = l + 1
             /\ (Starts(Append(p, x), q) <=> Starts(p, q) /\ l < m /\ q[l + 1] = x)
  BY <1>1, <1>2, AppendProperties, StartsLonger
<1>5. ASSUME Starts(p, q), l < m, NEW i \in l..m
      PROVE  IsDir(disk, SubSeq(q, 1, i)) /\ i = l => Base(SubSeq(q, 1, i)) \notin prune
  <2>1. SubSeq(q, 1, l) = p
    BY <1>1, <1>2, <1>5, CutStarts
  <2> QED BY <2>1
<1>6. ASSUME Reached(disk, prune, p, q), q # p
      PROVE  \E i \in 1..Len(e) : Reached(disk, prune, Append(p, e[i]), q)
  <2>1. Starts(p, q) /\ \A i \in l..m : IsDir(disk, SubSeq(q, 1, i)) => Base(SubSeq(q, 1, i)) \notin prune
    BY <1>2, <1>6 DEF Reached
  <2>2. l < m
    BY <1>1, <1>2, <1>6, <2>1, SameLength
  <2>3. PICK x \in Names : x = q[l + 1]
    <3>1. l + 1 \in 1..m
      BY <2>2
    <3> QED BY <1>1, <1>2, <3>1
  <2>4. Starts(Append(p, x), q) /\ Len(Append(p, x)) = l + 1 /\ Append(p, x) \in Seq(Names)
    BY <1>1, <1>4, <2>1, <2>2, <2>3, FrontAppend
  <2>5. Append(p, x) \in DOMAIN disk
    <3>1. SubSeq(q, 1, l + 1) = Append(p, x)
      BY <1>1, <2>4, CutStarts
    <3>2. l + 1 \in 0..Len(q)
      BY <1>2, <2>2
    <3>3. SubSeq(q, 1, l + 1) \in DOMAIN disk
      BY <3>2, AboveIsDir
    <3> QED BY <3>1, <3>3
  <2>6. PICK i \in 1..Len(e) : e[i] = x
    BY <2>5 DEF Listing
  <2>7. \A j \in (l + 1)..m : j \in l..m
    OBVIOUS
  <2>8. Reached(disk, prune, Append(p, x), q)
    BY <1>2, <2>1, <2>4, <2>7 DEF Reached
  <2> QED BY <2>6, <2>8
<1>7. ASSUME NEW i \in 1..Len(e), Reached(disk, prune, Append(p, e[i]), q)
      PROVE  Reached(disk, prune, p, q)
  <2>1. PICK x \in Names : x = e[i]
    BY DEF Listing
  <2>2. /\ Starts(Append(p, x), q) /\ Len(Append(p, x)) = l + 1
        /\ \A j \in (l + 1)..m :
             IsDir(disk, SubSeq(q, 1, j)) => Base(SubSeq(q, 1, j)) \notin prune
    BY <1>2, <1>4, <1>7, <2>1 DEF Reached
  <2>3. Starts(p, q) /\ l < m
    BY <1>4, <2>2
  <2>4. \A j \in l..m : j = l \/ j \in (l + 1)..m
    OBVIOUS
  <2>5. \A j \in l..m : IsDir(disk, SubSeq(q, 1, j)) => Base(SubSeq(q, 1, j)) \notin prune
    BY <1>5, <2>2, <2>3, <2>4
  <2> QED BY <1>2, <2>3, <2>5 DEF Reached
<1> QED BY <1>3, <1>6, <1>7

LEMMA WalkStep ==
  ASSUME NEW disk, IsDisk(disk), NEW prune, NEW p \in DOMAIN disk, NEW W, NEW e,
         Listing(disk, p, e),
         \A i \in 1..Len(e) : Walks(disk, prune, Append(p, e[i]), W[Append(p, e[i])])
  PROVE  Walks(disk, prune, p, WalkValue(disk, prune, p, OnEach(W, p, e)))
<1>1. PICK D : D = DOMAIN disk /\ D \in SUBSET Seq(Names)
  BY EscapeIsNoPath
<1>2. PICK l \in Nat : l = Len(p) /\ p \in Seq(Names)
  BY <1>1
<1>3. PICK w : w = WalkValue(disk, prune, p, OnEach(W, p, e))
  OBVIOUS
<1>4. CASE ~ IsDir(disk, p)
  <2>1. w = <<p>>
    BY <1>3, <1>4 DEF WalkValue
  <2>2. w \in Seq(D) /\ Len(w) = 1 /\ w[1] = p
    BY <1>1, <2>1
  <2>3. \A a \in 1..Len(w) : a = 1 /\ w[a] = p
    BY <2>2
  <2>4. ASSUME NEW q \in D, Reached(disk, prune, p, q) PROVE q = p
    <3>1. Starts(p, q) /\ q \in Seq(Names)
      BY <1>1, <2>4 DEF Reached
    <3>2. ASSUME Len(p) < Len(q) PROVE FALSE
      <4>1. SubSeq(q, 1, Len(p)) = p
        BY <1>2, <3>1, CutStarts
      <4>2. Len(p) \in 0..Len(q)
        BY <1>2, <3>1, <3>2
      <4>3. IsDir(disk, SubSeq(q, 1, Len(p)))
        BY <1>1, <3>2, <4>2, AboveIsDir
      <4> QED BY <1>4, <4>1, <4>3
    <3> QED BY <1>2, <3>1, <3>2, SameLength
  <2>5. Reached(disk, prune, p, p)
    <3>1. \A i \in l..l : i = l
      OBVIOUS
    <3>2. SubSeq(p, 1, l) = p /\ Starts(p, p)
      BY <1>2, CutWhole
    <3> QED BY <1>2, <1>4, <3>1, <3>2 DEF Reached
  <2>6. \A q \in D : (\E a \in 1..Len(w) : w[a] = q) <=> Reached(disk, prune, p, q)
    <3>1. 1 \in 1..Len(w)
      BY <2>2
    <3> QED BY <2>3, <2>4, <2>5, <3>1
  <2>7. \A a, b \in 1..Len(w) : ~ (a < b)
    BY <2>2
  <2>8. Walks(disk, prune, p, w)
    BY <1>1, <2>2, <2>6, <2>7 DEF Walks
  <2> QED BY <1>3, <2>8
<1>5. CASE IsDir(disk, p) /\ Base(p) \in prune
  <2>1. w = <<>>
    BY <1>3, <1>5 DEF WalkValue
  <2>2. w \in Seq(D) /\ \A a \in 1..Len(w) : FALSE
    BY <2>1
  <2>3. ASSUME NEW q \in D, Reached(disk, prune, p, q) PROVE FALSE
    <3>1. Starts(p, q) /\ q \in Seq(Names)
      BY <1>1, <2>3 DEF Reached
    <3>2. SubSeq(q, 1, l) = p /\ l <= Len(q)
      BY <1>2, <3>1, CutStarts
    <3>3. l \in l..Len(q)
      BY <3>1, <3>2
    <3>4. IsDir(disk, SubSeq(q, 1, l)) => Base(SubSeq(q, 1, l)) \notin prune
      BY <1>2, <2>3, <3>3 DEF Reached
    <3> QED BY <1>5, <3>2, <3>4
  <2>4. Walks(disk, prune, p, w)
    BY <1>1, <2>2, <2>3 DEF Walks
  <2> QED BY <1>3, <2>4
<1>6. CASE IsDir(disk, p) /\ Base(p) \notin prune
  <2>1. PICK n \in Nat : n = Len(e) /\ e \in Seq(Names) /\ Ranked(e)
    BY DEF Listing
  <2>2. PICK seqs : seqs = OnEach(W, p, e)
    OBVIOUS
  <2>3. ASSUME NEW i \in 1..n
        PROVE  /\ Append(p, e[i]) \in D /\ seqs[i] = W[Append(p, e[i])]
               /\ Walks(disk, prune, Append(p, e[i]), seqs[i]) /\ seqs[i] \in Seq(D)
    <3>1. seqs[i] = W[Append(p, e[i])]
      BY <2>1, <2>2 DEF OnEach
    <3>2. Append(p, e[i]) \in D
      BY <1>1, <2>1 DEF Listing
    <3>3. Walks(disk, prune, Append(p, e[i]), seqs[i])
      BY <2>1, <3>1
    <3>4. seqs[i] \in Seq(D)
      BY <1>1, <3>3 DEF Walks
    <3> QED BY <3>1, <3>2, <3>3, <3>4
  <2>4. seqs \in Seq(Seq(D)) /\ Len(seqs) = n
    <3>1. seqs = [i \in 1..n |-> seqs[i]]
      BY <2>1, <2>2 DEF OnEach
    <3> QED BY <2>3, <3>1
  <2>5. PICK flat, o, r : /\ flat \in Seq(D) /\ flat = FlattenSeq(seqs)
                          /\ Places(seqs, n, flat, o, r)
    <3>1. FlattenSeq(seqs) \in Seq(D) /\ \E o, r : Places(seqs, n, FlattenSeq(seqs), o, r)
      BY <2>4, FlattenPlaces
    <3> QED BY <3>1
  <2>6. /\ \A a \in 1..Len(flat) : /\ o[a] \in 1..n /\ r[a] \in 1..Len(seqs[o[a]])
                                   /\ flat[a] = seqs[o[a]][r[a]]
        /\ \A j \in 1..n : \A c \in 1..Len(seqs[j]) :
             \E a \in 1..Len(flat) : o[a] = j /\ r[a] = c
    BY <2>5 DEF Places
  <2>7. ASSUME NEW q \in D
        PROVE  (\E a \in 1..Len(flat) : flat[a] = q)
                 <=> \E i \in 1..n : Reached(disk, prune, Append(p, e[i]), q)
    <3>1. \A i \in 1..n : (\E b \in 1..Len(seqs[i]) : seqs[i][b] = q)
                            <=> Reached(disk, prune, Append(p, e[i]), q)
      BY <1>1, <2>3 DEF Walks
    <3>2. (\E a \in 1..Len(flat) : flat[a] = q)
            <=> \E i \in 1..n : \E b \in 1..Len(seqs[i]) : seqs[i][b] = q
      <4>1. ASSUME NEW a \in 1..Len(flat), flat[a] = q
            PROVE  \E i \in 1..n : \E b \in 1..Len(seqs[i]) : seqs[i][b] = q
        <5>1. /\ o[a] \in 1..n /\ r[a] \in 1..Len(seqs[o[a]])
              /\ seqs[o[a]][r[a]] = q
          BY <2>6, <4>1
        <5> QED BY <5>1
      <4>2. ASSUME NEW i \in 1..n, NEW b \in 1..Len(seqs[i]), seqs[i][b] = q
            PROVE  \E a \in 1..Len(flat) : flat[a] = q
        <5>1. PICK a \in 1..Len(flat) : o[a] = i /\ r[a] = b
          BY <2>6
        <5> QED BY <2>6, <4>2, <5>1
      <4> QED BY <4>1, <4>2
    <3> QED BY <3>1, <3>2
  <2>8. ASSUME NEW i \in 1..n, NEW b \in 1..Len(seqs[i])
        PROVE  seqs[i][b] \in Seq(Names) /\ Starts(Append(p, e[i]), seqs[i][b])
    <3>1. PICK q \in D : q = seqs[i][b]
      BY <2>3
    <3>2. Reached(disk, prune, Append(p, e[i]), q)
      BY <1>1, <2>3, <3>1 DEF Walks
    <3> QED BY <1>1, <3>1, <3>2 DEF Reached
  <2>9. \A a, b \in 1..Len(flat) : a < b => Before(flat[a], flat[b])
    <3>1. PICK path : path = [q \in D |-> q]
      OBVIOUS
    <3>2. \A i \in 1..n : \A b \in 1..Len(seqs[i]) : seqs[i][b] \in D /\ path[seqs[i][b]] = seqs[i][b]
      BY <2>3, <3>1
    <3>3. \A i \in 1..Len(e) : \A b \in 1..Len(seqs[i]) :
            path[seqs[i][b]] \in Seq(Names) /\ Starts(Append(p, e[i]), path[seqs[i][b]])
      BY <2>1, <2>8, <3>2
    <3>4. \A i \in 1..Len(e) : \A a, b \in 1..Len(seqs[i]) :
            a < b => Before(path[seqs[i][a]], path[seqs[i][b]])
      <4>1. ASSUME NEW i \in 1..n, NEW a \in 1..Len(seqs[i]), NEW b \in 1..Len(seqs[i]), a < b
            PROVE  Before(path[seqs[i][a]], path[seqs[i][b]])
        <5>1. Before(seqs[i][a], seqs[i][b])
          BY <2>3, <4>1 DEF Walks
        <5> QED BY <3>2, <5>1
      <4> QED BY <2>1, <4>1
    <3>5. Places(seqs, Len(e), flat, o, r)
      BY <2>1, <2>5
    <3>6. Len(seqs) = Len(e)
      BY <2>1, <2>4
    <3>7. \A a, b \in 1..Len(flat) : a < b => Before(path[flat[a]], path[flat[b]])
      BY <1>2, <2>1, <2>4, <3>3, <3>4, <3>5, <3>6, FlatSorted
    <3>8. \A a \in 1..Len(flat) : path[flat[a]] = flat[a]
      BY <2>5, <3>1
    <3> QED BY <3>7, <3>8
  <2>10. PICK s, m : s = <<p>> /\ m = Len(flat) /\ m \in Nat
    <3>1. Len(flat) \in Nat
      BY <2>5
    <3> QED BY <3>1
  <2>11. s \in Seq(D) /\ Len(s) = 1 /\ s[1] = p
    BY <1>1, <2>10
  <2>12. w \in Seq(D) /\ Joins(w, s, 1, flat, m)
    <3>1. w = s \o flat
      BY <1>3, <1>6, <2>2, <2>5, <2>10 DEF WalkValue
    <3>2. s \o flat \in Seq(D) /\ Joins(s \o flat, s, Len(s), flat, Len(flat))
      BY <2>5, <2>11, Behind
    <3> QED BY <2>10, <2>11, <3>1, <3>2
  <2>13. /\ Len(w) = 1 + m /\ 1 \in 1..(1 + m) /\ w[1] = p
         /\ \A k \in 1..m : 1 + k \in 1..(1 + m) /\ w[1 + k] = flat[k]
         /\ \A a \in 1..(1 + m) : a = 1 \/ \E k \in 1..m : a = 1 + k
    <3>1. 1 \in 1..1 /\ \A a \in 1..1 : a = 1
      OBVIOUS
    <3> QED BY <2>11, <2>12, <3>1 DEF Joins
  <2>14. \A q \in D : (\E a \in 1..Len(w) : w[a] = q) <=> Reached(disk, prune, p, q)
    <3>1. ASSUME NEW q \in D
          PROVE  (\E a \in 1..Len(w) : w[a] = q) <=> Reached(disk, prune, p, q)
      <4>1. (\E a \in 1..Len(w) : w[a] = q) <=> q = p \/ \E a \in 1..m : flat[a] = q
        <5>1. ASSUME NEW a \in 1..Len(w), w[a] = q, q # p PROVE \E b \in 1..m : flat[b] = q
          <6>1. a # 1 /\ a \in 1..(1 + m)
            BY <2>13, <5>1
          <6>2. PICK k \in 1..m : a = 1 + k
            BY <2>13, <6>1
          <6> QED BY <2>13, <5>1, <6>2
        <5>2. \A k \in 1..m : 1 + k \in 1..Len(w) /\ w[1 + k] = flat[k]
          BY <2>13
        <5>3. 1 \in 1..Len(w) /\ w[1] = p
          BY <2>13
        <5> QED BY <5>1, <5>2, <5>3
      <4>2. Reached(disk, prune, p, q)
              <=> q = p \/ \E i \in 1..Len(e) : Reached(disk, prune, Append(p, e[i]), q)
        BY <1>1, <1>6, ReachedFurther
      <4> QED BY <2>1, <2>7, <2>10, <4>1, <4>2
    <3> QED BY <3>1
  <2>15. ASSUME NEW k \in 1..m PROVE Before(p, flat[k])
    <3>1. PICK q \in D : q = flat[k]
      BY <2>5, <2>10
    <3>2. PICK i \in 1..n : \E b \in 1..Len(seqs[i]) : q = seqs[i][b]
      BY <2>6, <2>10, <3>1, SMTT(20)
    <3>3. Starts(Append(p, e[i]), q) /\ q \in Seq(Names) /\ e[i] \in Names
      BY <2>1, <2>8, <3>2
    <3>4. Starts(p, q) /\ Len(p) < Len(q)
      BY <1>2, <3>3, StartsLonger
    <3>5. Before(p, q)
      BY <1>2, <3>3, <3>4, BeforeChild
    <3> QED BY <3>1, <3>5
  <2>16. ASSUME NEW a \in 1..Len(w), NEW b \in 1..Len(w), a < b PROVE Before(w[a], w[b])
    <3>1. b # 1
      BY <2>13, <2>16
    <3>2. PICK k \in 1..m : b = 1 + k
      BY <2>13, <3>1
    <3>3. CASE a = 1
      BY <2>13, <2>15, <3>2, <3>3
    <3>4. CASE a # 1
      <4>1. PICK c \in 1..m : a = 1 + c
        BY <2>13, <3>4
      <4>2. c < k
        BY <2>16, <3>2, <4>1
      <4> QED BY <2>9, <2>10, <2>13, <3>2, <4>1, <4>2
    <3> QED BY <3>3, <3>4
  <2>17. Walks(disk, prune, p, w)
    BY <1>1, <2>12, <2>14, <2>16 DEF Walks
  <2> QED BY <1>3, <2>17
<1> QED BY <1>4, <1>5, <1>6

\* The walk from any path finds what it should, nothing if there is nothing.
LEMMA WalkedWalks ==
  ASSUME NEW disk, IsDisk(disk), NEW prune, NEW p \in DOMAIN disk
  PROVE  Walks(disk, prune, p, Walked(disk, prune)[p])
<1>1. PICK D, W : D = DOMAIN disk /\ W = Walked(disk, prune)
  OBVIOUS
<1>2. PICK L : L = [q \in D |-> Entries(disk, q)]
  OBVIOUS
<1>3. \A q \in D : Listing(disk, q, L[q]) /\ L[q] = Entries(disk, q)
  BY <1>1, <1>2, EntriesListing
<1>4. PICK bound \in Nat : Children(Names, D, bound, Offspring(D, L))
  <2>1. \A q \in DOMAIN disk : /\ L[q] \in Seq(Names)
                               /\ \A i \in 1..Len(L[q]) : Append(q, L[q][i]) \in DOMAIN disk
    BY <1>1, <1>3 DEF Listing
  <2>2. \E bound \in Nat : Children(Names, DOMAIN disk, bound, Offspring(DOMAIN disk, L))
    BY <2>1, OffspringChildren
  <2> QED BY <1>1, <2>2
<1>5. PICK c : c = Offspring(D, L)
  OBVIOUS
<1>6. PICK A : A = {q \in D : Walks(disk, prune, q, W[q])}
  OBVIOUS
<1>7. ASSUME NEW q \in D, \A i \in 1..Len(c[q]) : c[q][i] \in A PROVE q \in A
  <2>1. PICK e : e = Entries(disk, q) /\ e = L[q] /\ Listing(disk, q, e)
    BY <1>3
  <2>2. c[q] = [i \in 1..Len(e) |-> Append(q, e[i])]
    BY <1>5, <2>1 DEF Offspring
  <2>3. Len(c[q]) = Len(e)
    <3>1. PICK n \in Nat : n = Len(e)
      <4>1. e \in Seq(Names)
        BY <2>1 DEF Listing
      <4> QED BY <4>1
    <3>2. PICK t : t = [i \in 1..n |-> Append(q, e[i])]
      OBVIOUS
    <3>3. Len(t) = n
      BY <3>2
    <3> QED BY <2>2, <3>1, <3>2, <3>3
  <2>4. \A i \in 1..Len(e) : Walks(disk, prune, Append(q, e[i]), W[Append(q, e[i])])
    BY <1>6, <1>7, <2>2, <2>3
  <2>5. Walks(disk, prune, q, WalkValue(disk, prune, q, OnEach(W, q, e)))
    BY <1>1, <2>1, <2>4, WalkStep
  <2>6. W[q] = WalkValue(disk, prune, q, OnEach(W, q, e))
    BY <1>1, <2>1, WalkUnfolds
  <2> QED BY <1>6, <2>5, <2>6
<1>8. A = D
  <2>1. A \in SUBSET D
    BY <1>6
  <2>2. Children(Names, D, bound, c)
    BY <1>4, <1>5
  <2>3. \A q \in D : (\A i \in 1..Len(c[q]) : c[q][i] \in A) => q \in A
    BY <1>7
  <2>4. Inherited(D, c, A)
    BY <2>1, <2>3 DEF Inherited
  <2> QED BY <2>2, <2>4, TreeInduct
<1> QED BY <1>1, <1>6, <1>8

LEMMA WalkDirWalks ==
  ASSUME NEW disk, IsDisk(disk), NEW prune, NEW root \in Seq(Names)
  PROVE  Walks(disk, prune, root, WalkDir(disk, root, prune))
<1>1. CASE root \in DOMAIN disk
  BY <1>1, WalkedWalks DEF WalkDir
<1>2. CASE root \notin DOMAIN disk
  <2>1. PICK w : w = WalkDir(disk, root, prune) /\ w = <<>>
    BY <1>2 DEF WalkDir
  <2>2. w \in Seq(DOMAIN disk) /\ \A a \in 1..Len(w) : FALSE
    BY <2>1
  <2>3. ASSUME NEW q \in DOMAIN disk, Reached(disk, prune, root, q) PROVE FALSE
    <3>1. q \in Seq(Names) /\ Starts(root, q)
      BY <2>3, EscapeIsNoPath DEF Reached
    <3>2. SubSeq(q, 1, Len(root)) = root /\ Len(root) <= Len(q)
      BY <3>1, CutStarts
    <3>3. Len(root) \in 0..Len(q)
      BY <3>1, <3>2
    <3>4. SubSeq(q, 1, Len(root)) \in DOMAIN disk
      BY <3>3, AboveIsDir
    <3> QED BY <1>2, <3>2, <3>4
  <2>4. Walks(disk, prune, root, w)
    BY <2>2, <2>3 DEF Walks
  <2> QED BY <2>1, <2>4
<1> QED BY <1>1, <1>2

\* What a loop over a walk keeps.
LEMMA WalkKept ==
  ASSUME NEW disk, NEW prune, NEW root, NEW w, Walks(disk, prune, root, w), NEW chosen
  PROVE  /\ Among(w, chosen) \in Seq(DOMAIN disk) /\ Sorted(Among(w, chosen))
         /\ \A q \in DOMAIN disk : (\E a \in 1..Len(Among(w, chosen)) : Among(w, chosen)[a] = q)
                                     <=> Reached(disk, prune, root, q) /\ q \in chosen
<1>1. PICK D, r : D = DOMAIN disk /\ r = Among(w, chosen)
  OBVIOUS
<1>2. /\ w \in Seq(D)
      /\ \A a, b \in 1..Len(w) : a < b => Before(w[a], w[b])
      /\ \A q \in D : (\E a \in 1..Len(w) : w[a] = q) <=> Reached(disk, prune, root, q)
  BY <1>1 DEF Walks
<1>3. r \in Seq(D) /\ \E m : Picks(w, chosen, Len(w), r, m)
  BY <1>1, <1>2, AmongPicks
<1>4. PICK m : Picks(w, chosen, Len(w), r, m)
  BY <1>3
<1>5. \A a \in 1..Len(r) : m[a] \in 1..Len(w)
  <2>1. m \in [1..Len(r) -> 1..Len(w)]
    BY <1>4 DEF Picks
  <2> QED BY <2>1
<1>6. /\ \A a \in 1..Len(r) : r[a] = w[m[a]] /\ r[a] \in chosen
      /\ \A a, b \in 1..Len(r) : a < b => m[a] < m[b]
      /\ \A j \in 1..Len(w) : w[j] \in chosen => \E a \in 1..Len(r) : m[a] = j
  BY <1>4 DEF Picks
<1>7. Sorted(r)
  BY <1>2, <1>5, <1>6 DEF Sorted
<1>8. ASSUME NEW q \in D
      PROVE  (\E a \in 1..Len(r) : r[a] = q) <=> Reached(disk, prune, root, q) /\ q \in chosen
  <2>1. ASSUME NEW a \in 1..Len(r), r[a] = q PROVE Reached(disk, prune, root, q) /\ q \in chosen
    BY <1>2, <1>5, <1>6, <2>1
  <2>2. ASSUME Reached(disk, prune, root, q), q \in chosen PROVE \E a \in 1..Len(r) : r[a] = q
    <3>1. PICK j \in 1..Len(w) : w[j] = q
      BY <1>2, <2>2
    <3>2. PICK a \in 1..Len(r) : m[a] = j
      BY <1>6, <2>2, <3>1
    <3> QED BY <1>6, <3>1, <3>2
  <2> QED BY <2>1, <2>2
<1> QED BY <1>1, <1>3, <1>7, <1>8

\* What Success leaves as it is.
LEMMA SuccessWhole ==
  ASSUME NEW S, NEW body \in Seq(S), ~ Success(body).truncated
  PROVE  Success(body).body = body
<1>1. PICK n \in Nat : n = Len(body)
  OBVIOUS
<1>2. ~ (n > MaxOutput)
  BY <1>1 DEF Success
<1>3. Min({n, MaxOutput}) = n
  <2>1. MaxOutput \in Nat
    BY LimitAssumption
  <2>2. Min({n, MaxOutput}) = IF n <= MaxOutput THEN n ELSE MaxOutput
    BY <2>1, TwoBounds
  <2> QED BY <1>2, <2>1, <2>2
<1>4. SubSeq(body, 1, n) = body
  BY <1>1, CutWhole
<1> QED BY <1>1, <1>3, <1>4 DEF Success

\* The root of a command, in the sandbox or refused.
LEMMA RootIsPath ==
  ASSUME NEW workdir \in Seq(Names), NEW path, path.names \in Seq(Names \cup Dots),
         Resolve(workdir, path) # Escape
  PROVE  Resolve(workdir, path) \in Seq(Names)
<1>1. PICK names : names = IF path.abs THEN path.names ELSE workdir \o path.names
  OBVIOUS
<1>2. names \in Seq(Names \cup Dots)
  <2>1. workdir \in Seq(Names \cup Dots)
    OBVIOUS
  <2> QED BY <1>1, <2>1
<1>3. Clean(names) \in Seq(Names)
  BY <1>2, CleanType
<1> QED BY <1>1, <1>3 DEF Resolve

\* What the property calls searchable is what the walk reaches.
LEMMA SearchableReached ==
  ASSUME IsDisk(request.disk), Root \in Seq(Names)
  PROVE  Searchable = {p \in DOMAIN request.disk : Reached(request.disk, Pruned, Root, p)}
<1>1. PICK root, disk : root = Root /\ disk = request.disk
  OBVIOUS
<1>2. ASSUME NEW p \in DOMAIN disk PROVE IsPrefix(root, p) <=> Starts(root, p)
  <2>1. p \in Seq(Names) /\ root \in Seq(Names)
    BY <1>1, EscapeIsNoPath
  <2> QED BY <2>1, PrefixStarts
<1>3. Searchable = {p \in DOMAIN disk :
        /\ IsPrefix(root, p)
        /\ \A i \in Len(root)..Len(p) :
             IsDir(disk, SubSeq(p, 1, i)) => Base(SubSeq(p, 1, i)) \notin Pruned}
  BY <1>1 DEF Searchable
<1> QED BY <1>1, <1>2, <1>3 DEF Reached

\* A file is searched if its lines fit and one of them matches.
LEMMA GrepFinds ==
  ASSUME NEW S, NEW lines \in Seq(S), NEW ctx \in Int
  PROVE  GrepFile(lines, ctx) # <<>>
           <=> Fits(lines) /\ ctx >= 0 /\ \E i \in 1..Len(lines) : lines[i] = "hit"
<1>1. ~ Fits(lines) => GrepFile(lines, ctx) = <<>>
  BY DEF GrepFile
<1>2. ASSUME Fits(lines)
      PROVE  GrepFile(lines, ctx) # <<>> <=> ctx >= 0 /\ \E i \in 1..Len(lines) : lines[i] = "hit"
  <2>1. PICK w : w = GrepFile(lines, ctx) /\ ShownBy(lines, ctx, Len(lines), w)
    BY <1>2, GrepShows
  <2>2. PICK n \in Nat : n = Len(lines)
    OBVIOUS
  <2>3. /\ w \in Seq(Marked)
        /\ \A a \in 1..Len(w) : \E h \in 1..n : lines[h] = "hit" /\ w[a][1] \in NearTo(lines, ctx, h)
        /\ \A h \in 1..n : lines[h] = "hit" =>
             \A j \in NearTo(lines, ctx, h) : \E a \in 1..Len(w) : w[a][1] = j
    BY <2>1, <2>2 DEF ShownBy
  <2>4. ASSUME w # <<>> PROVE ctx >= 0 /\ \E i \in 1..n : lines[i] = "hit"
    <3>1. 1 \in 1..Len(w)
      BY <2>3, <2>4
    <3>2. PICK h \in 1..n : lines[h] = "hit" /\ w[1][1] \in NearTo(lines, ctx, h)
      BY <2>3, <3>1
    <3>3. PICK j \in 1..n : h - ctx <= j /\ j <= h + ctx
      BY <2>2, <3>2 DEF NearTo
    <3> QED BY <3>2, <3>3
  <2>5. ASSUME ctx >= 0, NEW i \in 1..n, lines[i] = "hit" PROVE w # <<>>
    <3>1. i \in NearTo(lines, ctx, i)
      BY <2>2, <2>5 DEF NearTo
    <3>2. PICK a \in 1..Len(w) : w[a][1] = i
      BY <2>3, <2>5, <3>1
    <3>3. Len(w) # 0
      BY <2>3, <3>2
    <3>4. Len(<<>>) = 0
      OBVIOUS
    <3> QED BY <3>3, <3>4
  <2> QED BY <2>1, <2>2, <2>4, <2>5
<1> QED BY <1>1, <1>2

\* What grep looks into, and what it answers.
Searchworthy ==
  {p \in DOMAIN request.disk :
     /\ Reached(request.disk, Pruned, Root, p) /\ IsFile(request.disk, p)
     /\ request.ext = {} \/ Extension[Last(p)] \in request.ext
     /\ GrepFile(request.disk[p], request.context) # <<>>}

Greps(files) ==
  /\ files \in Seq(DOMAIN request.disk)
  /\ {files[k] : k \in 1..Len(files)} = Searchworthy
  /\ Len(answer.body) = Len(files)
  /\ \A k \in 1..Len(files) :
       /\ answer.body[k].file = files[k]
       /\ answer.body[k].shown = GrepFile(request.disk[files[k]], request.context)

LEMMA GrepAnswers ==
  ASSUME Served, Shown("grep")
  PROVE  /\ IsDisk(request.disk) /\ Root \in Seq(Names) /\ request.context \in Int
         /\ \E files : Greps(files)
<1>1. request.kind = "grep" /\ request \in Requests /\ answer = Serve(request)
      /\ answer.ok /\ ~ answer.truncated
  BY DEF Served, Shown, Asked
<1>2. answer = Grep(request.disk, request.workdir, request)
  BY <1>1 DEF Serve
<1>3. /\ IsDisk(request.disk) /\ request.context \in Int
      /\ request.workdir \in Seq(Names) /\ request.path.names \in Seq(Names \cup Dots)
  BY <1>1, RequestAssumption
<1>4. PICK disk, ctx, root : disk = request.disk /\ ctx = request.context /\ root = Root
  OBVIOUS
<1>5. PICK w : w = WalkDir(disk, root, Pruned)
  OBVIOUS
<1>6. PICK chosen : chosen = {p \in DOMAIN disk :
          /\ IsFile(disk, p) /\ (request.ext = {} \/ Extension[Last(p)] \in request.ext)
          /\ GrepFile(disk[p], ctx) # <<>>}
  OBVIOUS
<1>7. PICK files : files = Among(w, chosen)
  OBVIOUS
<1>8. PICK body : body = [k \in 1..Len(files) |->
                            [file |-> files[k], shown |-> GrepFile(disk[files[k]], ctx)]]
  OBVIOUS
<1>9. root # Escape /\ answer = Success(body)
  <2>1. \A code : ~ Failure(code).ok
    BY DEF Failure
  <2> QED BY <1>1, <1>2, <1>4, <1>5, <1>6, <1>7, <1>8, <2>1 DEF Grep, Root
<1>10. root \in Seq(Names)
  BY <1>3, <1>4, <1>9, RootIsPath DEF Root
<1>11. Walks(disk, Pruned, root, w)
  BY <1>3, <1>4, <1>5, <1>10, WalkDirWalks
<1>12. /\ files \in Seq(DOMAIN disk)
       /\ \A q \in DOMAIN disk : (\E a \in 1..Len(files) : files[a] = q)
                                   <=> Reached(disk, Pruned, root, q) /\ q \in chosen
  BY <1>7, <1>11, WalkKept
<1>13. {files[k] : k \in 1..Len(files)} = Searchworthy
  <2>1. Searchworthy = {q \in DOMAIN disk : Reached(disk, Pruned, root, q) /\ q \in chosen}
    BY <1>4, <1>6 DEF Searchworthy
  <2> QED BY <1>12, <2>1
<1>14. PICK n \in Nat : n = Len(files)
  BY <1>12
<1>15. PICK Elems : Elems = {body[k] : k \in 1..n}
  OBVIOUS
<1>16. body \in Seq(Elems) /\ Len(body) = n
  BY <1>8, <1>14, <1>15
<1>17. answer.body = body
  BY <1>1, <1>9, <1>16, SuccessWhole
<1>18. \A k \in 1..n : body[k].file = files[k] /\ body[k].shown = GrepFile(disk[files[k]], ctx)
  BY <1>8, <1>14
<1>19. Greps(files)
  BY <1>4, <1>12, <1>13, <1>14, <1>16, <1>17, <1>18 DEF Greps
<1> QED BY <1>3, <1>4, <1>10, <1>19

\* grepFile, grep.go:83-123: with any number of matches, however near to each other and
\* to the ends of the file, and any context, the answer has each line near a match once
\* and in order, and a match has lost its mark only to an earlier one.
THEOREM GrepCorrect == Spec => []GrepShowsNeighbours
<1>1. Served => GrepShowsNeighbours
  <2> SUFFICES ASSUME Served, Shown("grep") PROVE GrepShowsNeighbours
    BY DEF GrepShowsNeighbours
  <2>1. PICK files : Greps(files)
    BY GrepAnswers
  <2>2. IsDisk(request.disk) /\ request.context \in Int
    BY GrepAnswers
  <2>3. ASSUME NEW k \in 1..Len(answer.body)
        PROVE  LET lines == request.disk[answer.body[k].file]
                   shown == answer.body[k].shown
                   near(i) == {j \in 1..Len(lines) :
                                 i - request.context <= j /\ j <= i + request.context}
                   hits == {i \in 1..Len(lines) : lines[i] = "hit"}
               IN /\ \A a, b \in 1..Len(shown) : a < b => shown[a][1] < shown[b][1]
                  /\ {shown[a][1] : a \in 1..Len(shown)} = UNION {near(i) : i \in hits}
                  /\ \A a \in 1..Len(shown) :
                       (shown[a][2] = Hit) # (shown[a][1] \in hits)
                         => /\ shown[a][1] \in hits
                            /\ \E i \in hits : i < shown[a][1] /\ shown[a][1] \in near(i)
    <3> DEFINE lines == request.disk[answer.body[k].file]
               w == answer.body[k].shown
               hits == {i \in 1..Len(lines) : lines[i] = "hit"}
    <3>1. PICK ctx : ctx = request.context
      OBVIOUS
    <3> HIDE DEF lines, w, hits
    <3>2. k \in 1..Len(files) /\ files[k] \in Searchworthy /\ files[k] = answer.body[k].file
          /\ w = GrepFile(lines, ctx)
      BY <2>1, <3>1 DEF Greps, lines, w
    <3>3. IsFile(request.disk, files[k]) /\ w # <<>>
      BY <3>1, <3>2 DEF Searchworthy, lines
    <3>4. lines \in Seq(STRING)
      BY <2>2, <3>2, <3>3, FileLines DEF lines
    <3>5. Fits(lines)
      BY <3>2, <3>3 DEF GrepFile
    <3>6. PICK n \in Nat : n = Len(lines)
      BY <3>4
    <3>7. ShownBy(lines, ctx, n, w)
      BY <2>2, <3>1, <3>2, <3>4, <3>5, <3>6, GrepShows
    <3>8. /\ w \in Seq(Marked)
          /\ \A a, b \in 1..Len(w) : a < b => w[a][1] < w[b][1]
          /\ \A a \in 1..Len(w) : \E h \in 1..n : lines[h] = "hit" /\ w[a][1] \in NearTo(lines, ctx, h)
          /\ \A h \in 1..n : lines[h] = "hit" =>
               \A j \in NearTo(lines, ctx, h) : \E a \in 1..Len(w) : w[a][1] = j
          /\ \A a \in 1..Len(w) : w[a][2] = Hit => lines[w[a][1]] = "hit"
          /\ \A a \in 1..Len(w) : lines[w[a][1]] = "hit" /\ w[a][2] # Hit =>
               \E h \in 1..n : lines[h] = "hit" /\ h < w[a][1] /\ w[a][1] \in NearTo(lines, ctx, h)
      BY <3>7 DEF ShownBy
    <3>9. hits = {i \in 1..n : lines[i] = "hit"}
      BY <3>6 DEF hits
    <3>10. {w[a][1] : a \in 1..Len(w)} = UNION {NearTo(lines, ctx, i) : i \in hits}
      <4>1. \A a \in 1..Len(w) : w[a][1] \in UNION {NearTo(lines, ctx, i) : i \in hits}
        BY <3>8, <3>9
      <4>2. \A j \in UNION {NearTo(lines, ctx, i) : i \in hits} : \E a \in 1..Len(w) : w[a][1] = j
        BY <3>8, <3>9
      <4> QED BY <4>1, <4>2
    <3>11. \A a \in 1..Len(w) : w[a][1] \in 1..n
      BY <3>6, <3>8 DEF NearTo
    <3>12. \A a \in 1..Len(w) : w[a][2] = Hit => w[a][1] \in hits
      BY <3>8, <3>9, <3>11
    <3>13. \A a \in 1..Len(w) : w[a][1] \in hits /\ w[a][2] # Hit =>
             \E h \in hits : h < w[a][1] /\ w[a][1] \in NearTo(lines, ctx, h)
      BY <3>8, <3>9
    <3>14. ASSUME NEW a \in 1..Len(w), (w[a][2] = Hit) # (w[a][1] \in hits)
           PROVE  /\ w[a][1] \in hits
                  /\ \E i \in hits : i < w[a][1] /\ w[a][1] \in NearTo(lines, ctx, i)
      <4>1. CASE w[a][2] = Hit
        BY <3>12, <3>14, <4>1
      <4>2. CASE w[a][2] # Hit
        <5>1. w[a][1] \in hits
          BY <3>14, <4>2
        <5> QED BY <3>13, <4>2, <5>1
      <4> QED BY <4>1, <4>2
    <3>15. /\ \A a, b \in 1..Len(w) : a < b => w[a][1] < w[b][1]
           /\ {w[a][1] : a \in 1..Len(w)} = UNION {NearTo(lines, ctx, i) : i \in hits}
           /\ \A a \in 1..Len(w) :
                (w[a][2] = Hit) # (w[a][1] \in hits)
                  => /\ w[a][1] \in hits
                     /\ \E i \in hits : i < w[a][1] /\ w[a][1] \in NearTo(lines, ctx, i)
      BY <3>8, <3>10, <3>14
    <3>16. /\ \A a, b \in 1..Len(w) : a < b => w[a][1] < w[b][1]
           /\ {w[a][1] : a \in 1..Len(w)} = UNION {NearTo(lines, request.context, i) : i \in hits}
           /\ \A a \in 1..Len(w) :
                (w[a][2] = Hit) # (w[a][1] \in hits)
                  => /\ w[a][1] \in hits
                     /\ \E i \in hits : /\ i < w[a][1]
                                        /\ w[a][1] \in NearTo(lines, request.context, i)
      BY <3>1, <3>15
    <3> QED BY ONLY <3>16 DEF lines, w, hits, NearTo
  <2> QED BY <2>3 DEF GrepShowsNeighbours
<1> QED BY <1>1, AlwaysServed, PTL

\* find and grep, find.go and grep.go:40-80 with filepath.WalkDir: whatever tree the disk
\* holds, wherever pruned names stand in it and wherever the walk begins, each entry that
\* is not in a pruned directory is visited once, in the sorted order.
THEOREM WalkCorrect == Spec => []WalkIsComplete
<1>1. ASSUME Served, Shown("find")
      PROVE  /\ Sorted(answer.body)
             /\ ToSet(answer.body) = {p \in Searchable : request.name = Unset \/ Base(p) = request.name}
  <2>1. request.kind = "find" /\ request \in Requests /\ answer = Serve(request)
        /\ answer.ok /\ ~ answer.truncated
    BY <1>1 DEF Served, Shown, Asked
  <2>2. answer = Find(request.disk, request.workdir, request)
    BY <2>1 DEF Serve
  <2>3. /\ IsDisk(request.disk)
        /\ request.workdir \in Seq(Names) /\ request.path.names \in Seq(Names \cup Dots)
    BY <2>1, RequestAssumption
  <2>4. PICK disk, root : disk = request.disk /\ root = Root
    OBVIOUS
  <2>5. PICK w : w = WalkDir(disk, root, Pruned)
    OBVIOUS
  <2>6. PICK chosen : chosen = {p \in DOMAIN disk : request.name = Unset \/ Base(p) = request.name}
    OBVIOUS
  <2>7. PICK body : body = Among(w, chosen)
    OBVIOUS
  <2>8. root # Escape /\ answer = Success(body)
    <3>1. \A code : ~ Failure(code).ok
      BY DEF Failure
    <3> QED BY <2>1, <2>2, <2>4, <2>5, <2>6, <2>7, <3>1 DEF Find, Root
  <2>9. root \in Seq(Names)
    BY <2>3, <2>4, <2>8, RootIsPath DEF Root
  <2>10. Walks(disk, Pruned, root, w)
    BY <2>3, <2>4, <2>5, <2>9, WalkDirWalks
  <2>11. /\ body \in Seq(DOMAIN disk) /\ Sorted(body)
         /\ \A q \in DOMAIN disk : (\E a \in 1..Len(body) : body[a] = q)
                                     <=> Reached(disk, Pruned, root, q) /\ q \in chosen
    BY <2>7, <2>10, WalkKept
  <2>12. answer.body = body
    BY <2>1, <2>8, <2>11, SuccessWhole
  <2>13. Searchable = {p \in DOMAIN disk : Reached(disk, Pruned, root, p)}
    BY <2>3, <2>4, <2>9, SearchableReached
  <2>14. ToSet(body) = {body[a] : a \in 1..Len(body)}
    BY <2>11 DEF ToSet
  <2>15. {body[a] : a \in 1..Len(body)} = {q \in Searchable : q \in chosen}
    BY <2>11, <2>13
  <2>16. {q \in Searchable : q \in chosen}
           = {p \in Searchable : request.name = Unset \/ Base(p) = request.name}
    BY <2>6, <2>13
  <2> QED BY <2>11, <2>12, <2>14, <2>15, <2>16
<1>2. ASSUME Served, Shown("grep")
      PROVE  {answer.body[k].file : k \in 1..Len(answer.body)} =
               {p \in Searchable : /\ IsFile(request.disk, p) /\ Fits(request.disk[p])
                                   /\ request.ext = {} \/ Extension[Last(p)] \in request.ext
                                   /\ request.context >= 0 /\ Contains(request.disk[p], "hit")}
  <2>1. PICK files : Greps(files)
    BY <1>2, GrepAnswers
  <2>2. IsDisk(request.disk) /\ request.context \in Int /\ Root \in Seq(Names)
    BY <1>2, GrepAnswers
  <2>3. {answer.body[k].file : k \in 1..Len(answer.body)} = Searchworthy
    BY <2>1 DEF Greps
  <2>4. Searchable = {p \in DOMAIN request.disk : Reached(request.disk, Pruned, Root, p)}
    BY <2>2, SearchableReached
  <2>5. ASSUME NEW p \in DOMAIN request.disk, IsFile(request.disk, p)
        PROVE  GrepFile(request.disk[p], request.context) # <<>>
                 <=> /\ Fits(request.disk[p]) /\ request.context >= 0
                     /\ Contains(request.disk[p], "hit")
    <3>1. PICK lines, ctx : lines = request.disk[p] /\ ctx = request.context
      OBVIOUS
    <3>2. lines \in Seq(STRING)
      BY <2>2, <2>5, <3>1, FileLines
    <3>3. GrepFile(lines, ctx) # <<>>
            <=> Fits(lines) /\ ctx >= 0 /\ \E i \in 1..Len(lines) : lines[i] = "hit"
      BY <2>2, <3>1, <3>2, GrepFinds
    <3>4. Contains(lines, "hit") <=> \E i \in 1..Len(lines) : lines[i] = "hit"
      BY <3>2 DEF Contains
    <3> QED BY <3>1, <3>3, <3>4
  <2> QED BY <2>3, <2>4, <2>5 DEF Searchworthy
<1>3. Served => WalkIsComplete
  BY <1>1, <1>2 DEF WalkIsComplete
<1> QED BY <1>3, AlwaysServed, PTL

-------------------------------------------------------------------------------
(* buildTree, and the walkDir of the file browser.                            *)

\* What is left of a directory: its entries without those that are ignored.
Left(disk, ignore, p) == Among(Entries(disk, p), Names \ ignore)

LeftFrom(disk, ignore, p, e) ==
  /\ e \in Seq(Names) /\ Ranked(e)
  /\ \A i \in 1..Len(e) : e[i] \in Names \ ignore /\ Append(p, e[i]) \in DOMAIN disk
  /\ \A x \in Names \ ignore : Append(p, x) \in DOMAIN disk => \E i \in 1..Len(e) : e[i] = x

LEMMA LeftLists ==
  ASSUME NEW disk, IsDisk(disk), NEW ignore, NEW p \in DOMAIN disk
  PROVE  LeftFrom(disk, ignore, p, Left(disk, ignore, p))
<1>1. PICK s : s = Entries(disk, p) /\ Listing(disk, p, s)
  BY EntriesListing
<1>2. PICK l \in Nat : l = Len(s) /\ s \in Seq(Names)
  <2>1. s \in Seq(Names)
    BY <1>1 DEF Listing
  <2>2. Len(s) \in Nat
    BY <2>1
  <2> QED BY <2>1, <2>2
<1>3. PICK chosen : chosen = Names \ ignore
  OBVIOUS
<1>4. PICK e : e = Left(disk, ignore, p) /\ e = Among(s, chosen)
  BY <1>1, <1>3 DEF Left
<1>5. e \in Seq(Names) /\ \E m : Picks(s, chosen, l, e, m)
  BY <1>2, <1>4, AmongPicks
<1>6. PICK m : Picks(s, chosen, l, e, m)
  BY <1>5
<1>7. \A a \in 1..Len(e) : m[a] \in 1..l
  <2>1. m \in [1..Len(e) -> 1..l]
    BY <1>6 DEF Picks
  <2> QED BY <2>1
<1>8. \A a \in 1..Len(e) : e[a] = s[m[a]] /\ e[a] \in chosen
  BY <1>6 DEF Picks
<1>9. Ranked(e)
  <2>1. ASSUME NEW a \in 1..Len(e), NEW b \in 1..Len(e), a < b
        PROVE  Rank(e[a]) < Rank(e[b]) /\ e[a] # e[b]
    <3>1. m[a] < m[b]
      BY <1>6, <2>1 DEF Picks
    <3>2. PICK x \in 1..l, y \in 1..l : x = m[a] /\ y = m[b]
      BY <1>7
    <3>3. Rank(s[x]) < Rank(s[y]) /\ s[x] # s[y]
      BY <1>1, <1>2, <3>1, <3>2 DEF Listing, Ranked
    <3> QED BY <1>8, <3>2, <3>3
  <2> QED BY <2>1 DEF Ranked
<1>10. \A a \in 1..Len(e) : e[a] \in chosen /\ Append(p, e[a]) \in DOMAIN disk
  <2>1. \A i \in 1..l : Append(p, s[i]) \in DOMAIN disk
    BY <1>1, <1>2 DEF Listing
  <2> QED BY <1>7, <1>8, <2>1
<1>11. ASSUME NEW x \in chosen, Append(p, x) \in DOMAIN disk PROVE \E a \in 1..Len(e) : e[a] = x
  <2>1. x \in Names
    BY <1>3
  <2>2. PICK i \in 1..l : s[i] = x
    BY <1>1, <1>2, <1>11, <2>1 DEF Listing
  <2>3. PICK a \in 1..Len(e) : m[a] = i
    BY <1>6, <1>11, <2>2 DEF Picks
  <2> QED BY <1>8, <2>2, <2>3
<1>12. LeftFrom(disk, ignore, p, e)
  BY <1>3, <1>5, <1>9, <1>10, <1>11 DEF LeftFrom
<1> QED BY <1>4, <1>12

\* The last entry of a directory is the one that no other follows.
LEMMA LastHighest ==
  ASSUME NEW disk, NEW p, NEW e, Listing(disk, p, e), NEW x, Append(p, x) \in DOMAIN disk, x \in Names
  PROVE  x = Last(e) <=> \A n \in ToSet(e) : n = x \/ Rank(n) < Rank(x)
<1>1. PICK l \in Nat : l = Len(e) /\ e \in Seq(Names)
  <2>1. e \in Seq(Names)
    BY DEF Listing
  <2>2. Len(e) \in Nat
    BY <2>1
  <2> QED BY <2>1, <2>2
<1>2. PICK k \in 1..l : e[k] = x
  BY <1>1 DEF Listing
<1>3. l \in 1..l /\ Last(e) = e[l]
  <2>1. l \in 1..l
    BY <1>2
  <2> QED BY <1>1, <2>1 DEF Last
<1>4. ToSet(e) = {e[i] : i \in 1..l}
  BY <1>1 DEF ToSet
<1>5. \A a, b \in 1..l : a < b => Rank(e[a]) < Rank(e[b]) /\ e[a] # e[b]
  BY <1>1 DEF Listing, Ranked
<1>6. \A a \in 1..l : Rank(e[a]) \in Int
  BY <1>1 DEF Listing
<1>7. ASSUME x = Last(e) PROVE \A n \in ToSet(e) : n = x \/ Rank(n) < Rank(x)
  <2>1. ASSUME NEW i \in 1..l, i # l PROVE Rank(e[i]) < Rank(e[l])
    <3>1. i < l
      BY <2>1
    <3> QED BY <1>3, <1>5, <3>1
  <2> QED BY <1>3, <1>4, <1>7, <2>1
<1>8. ASSUME \A n \in ToSet(e) : n = x \/ Rank(n) < Rank(x) PROVE x = Last(e)
  <2>1. SUFFICES ASSUME k # l PROVE FALSE
    BY <1>2, <1>3
  <2>2. k < l
    BY <2>1
  <2>3. Rank(e[k]) < Rank(e[l]) /\ e[k] # e[l]
    BY <1>3, <1>5, <2>2
  <2>4. e[l] \in ToSet(e)
    BY <1>3, <1>4
  <2>5. Rank(e[l]) < Rank(x)
    BY <1>2, <1>8, <2>3, <2>4
  <2>6. Rank(e[k]) \in Int /\ Rank(e[l]) \in Int
    BY <1>3, <1>6
  <2> QED BY <1>2, <2>3, <2>5, <2>6
<1> QED BY <1>7, <1>8

\* A tree from p shows q: it is in reach and no name on the way is ignored.
Visible(levels, ignore, p, q) ==
  /\ Starts(p, q) /\ Len(p) < Len(q) /\ Len(q) <= levels
  /\ \A i \in (Len(p) + 1)..Len(q) : q[i] \notin ignore

LEMMA VisibleFurther ==
  ASSUME NEW disk, IsDisk(disk), NEW ignore, NEW levels \in Int,
         NEW p \in DOMAIN disk, NEW q \in DOMAIN disk, Len(p) < levels,
         NEW e, LeftFrom(disk, ignore, p, e)
  PROVE  Visible(levels, ignore, p, q)
           <=> \E i \in 1..Len(e) : \/ q = Append(p, e[i])
                                    \/ Visible(levels, ignore, Append(p, e[i]), q)
<1>1. p \in Seq(Names) /\ q \in Seq(Names)
  BY EscapeIsNoPath
<1>2. PICK l \in Nat, m \in Nat : l = Len(p) /\ m = Len(q) /\ l < levels
  BY <1>1
<1>3. ASSUME NEW x \in Names
      PROVE  /\ Append(p, x) \in Seq(Names) /\ Len(Append(p, x)) = l + 1
             /\ (Starts(Append(p, x), q) <=> Starts(p, q) /\ l < m /\ q[l + 1] = x)
  BY <1>1, <1>2, AppendProperties, StartsLonger
<1>4. \A x \in Names : Visible(levels, ignore, Append(p, x), q)
        <=> /\ Starts(p, q) /\ l < m /\ q[l + 1] = x
            /\ l + 1 < m /\ m <= levels
            /\ \A i \in ((l + 1) + 1)..m : q[i] \notin ignore
  BY <1>2, <1>3 DEF Visible
<1>5. Visible(levels, ignore, p, q)
        <=> Starts(p, q) /\ l < m /\ m <= levels /\ \A i \in (l + 1)..m : q[i] \notin ignore
  BY <1>2 DEF Visible
<1>6. \A i \in (l + 1)..m : i = l + 1 \/ i \in ((l + 1) + 1)..m
  OBVIOUS
<1>7. \A i \in ((l + 1) + 1)..m : i \in (l + 1)..m
  OBVIOUS
<1>8. l < m => l + 1 \in (l + 1)..m /\ l + 1 \in 1..m
  OBVIOUS
<1>9. ASSUME Visible(levels, ignore, p, q)
      PROVE  \E i \in 1..Len(e) : \/ q = Append(p, e[i])
                                  \/ Visible(levels, ignore, Append(p, e[i]), q)
  <2>1. PICK x \in Names : x = q[l + 1] /\ x \notin ignore
    BY <1>1, <1>2, <1>5, <1>8, <1>9
  <2>2. Starts(Append(p, x), q)
    BY <1>3, <1>5, <1>9, <2>1
  <2>3. Append(p, x) \in DOMAIN disk
    <3>1. SubSeq(q, 1, l + 1) = Append(p, x)
      BY <1>1, <1>3, <2>2, CutStarts
    <3>2. l + 1 \in 0..Len(q)
      BY <1>2, <1>5, <1>9
    <3>3. SubSeq(q, 1, l + 1) \in DOMAIN disk
      BY <3>2, AboveIsDir
    <3> QED BY <3>1, <3>3
  <2>4. PICK i \in 1..Len(e) : e[i] = x
    BY <2>1, <2>3 DEF LeftFrom
  <2>5. CASE l + 1 < m
    <3>1. Visible(levels, ignore, Append(p, x), q)
      BY <1>4, <1>5, <1>7, <1>9, <2>1, <2>5
    <3> QED BY <2>4, <3>1
  <2>6. CASE ~ (l + 1 < m)
    <3>1. q = Append(p, x)
      BY <1>1, <1>2, <1>3, <2>2, <2>6, SameLength
    <3> QED BY <2>4, <3>1
  <2> QED BY <2>5, <2>6
<1>10. ASSUME NEW i \in 1..Len(e),
              q = Append(p, e[i]) \/ Visible(levels, ignore, Append(p, e[i]), q)
       PROVE  Visible(levels, ignore, p, q)
  <2>1. PICK x \in Names : x = e[i] /\ x \notin ignore
    BY DEF LeftFrom
  <2>2. CASE q = Append(p, x)
    <3>1. m = l + 1
      BY <1>2, <1>3, <2>2
    <3>2. Starts(p, q) /\ q[l + 1] = x
      BY <1>1, <1>3, <2>2, CutWhole
    <3>3. \A k \in (l + 1)..m : k = l + 1
      BY <3>1
    <3> QED BY <1>2, <1>5, <2>1, <3>1, <3>2, <3>3
  <2>3. CASE Visible(levels, ignore, Append(p, x), q)
    BY <1>4, <1>5, <1>6, <2>1, <2>3
  <2> QED BY <1>10, <2>1, <2>2, <2>3
<1> QED BY <1>9, <1>10

\* What the tree makes of a path and of the rows below its entries.
AllRows(disk) == [path : DOMAIN disk, corner : BOOLEAN]
RowOf(disk, p, x) == [path |-> Append(p, x), corner |-> x = Last(Entries(disk, p))]
Pieces(disk, p, e, below) == [i \in 1..Len(e) |-> <<RowOf(disk, p, e[i])>> \o below[i]]
DrawValue(disk, levels, ignore, p, below) ==
  IF ~ IsDir(disk, p) \/ Len(p) >= levels THEN <<>>
  ELSE FlattenSeq(Pieces(disk, p, Left(disk, ignore, p), below))

Begun(disk, p, e, below, s) ==
  /\ s \in Seq(Seq(AllRows(disk))) /\ Len(s) = Len(e)
  /\ \A i \in 1..Len(e) : s[i] = <<RowOf(disk, p, e[i])>> \o below[i]

LEMMA PiecesBegin ==
  ASSUME NEW disk, IsDisk(disk), NEW ignore, NEW p \in DOMAIN disk,
         NEW e, LeftFrom(disk, ignore, p, e),
         NEW below \in Seq(Seq(AllRows(disk))), Len(below) = Len(e)
  PROVE  Begun(disk, p, e, below, Pieces(disk, p, e, below))
<1>1. PICK n \in Nat : n = Len(e)
  <2>1. e \in Seq(Names)
    BY DEF LeftFrom
  <2> QED BY <2>1
<1>2. PICK R, s : R = AllRows(disk) /\ s = Pieces(disk, p, e, below)
  OBVIOUS
<1>3. ASSUME NEW i \in 1..n
      PROVE  /\ RowOf(disk, p, e[i]) \in R
             /\ <<RowOf(disk, p, e[i])>> \o below[i] \in Seq(R)
  <2>1. Append(p, e[i]) \in DOMAIN disk
    BY <1>1 DEF LeftFrom
  <2>2. PICK row : row = RowOf(disk, p, e[i])
    OBVIOUS
  <2>3. row \in R
    BY <1>2, <2>1, <2>2 DEF RowOf, AllRows
  <2>4. <<row>> \in Seq(R) /\ below[i] \in Seq(R)
    BY <1>1, <1>2, <2>3
  <2>5. <<row>> \o below[i] \in Seq(R)
    BY <2>4, Behind
  <2> QED BY <2>2, <2>3, <2>5
<1>4. s = [i \in 1..n |-> <<RowOf(disk, p, e[i])>> \o below[i]]
  BY <1>1, <1>2 DEF Pieces
<1>5. s \in Seq(Seq(R)) /\ Len(s) = n
        /\ \A i \in 1..n : s[i] = <<RowOf(disk, p, e[i])>> \o below[i]
  BY <1>3, <1>4
<1>6. Begun(disk, p, e, below, s)
  BY <1>1, <1>2, <1>5 DEF Begun
<1> QED BY <1>2, <1>6

LEMMA DrawnUnfolds ==
  ASSUME NEW disk, IsDisk(disk), NEW ignore, NEW levels
  PROVE  \A p \in DOMAIN disk :
           Drawn(disk, levels, ignore)[p] =
             DrawValue(disk, levels, ignore, p,
                       OnEach(Drawn(disk, levels, ignore), p, Left(disk, ignore, p)))
<1>1. PICK D : D = DOMAIN disk /\ D \in SUBSET Seq(Names)
  BY EscapeIsNoPath
<1>2. PICK L : L = [p \in D |-> Left(disk, ignore, p)]
  OBVIOUS
<1>3. \A p \in D : /\ L[p] = Left(disk, ignore, p) /\ L[p] \in Seq(Names)
                   /\ LeftFrom(disk, ignore, p, L[p])
                   /\ \A i \in 1..Len(L[p]) : Append(p, L[p][i]) \in D
  BY <1>1, <1>2, LeftLists DEF LeftFrom
<1>4. PICK c : c = Offspring(D, L)
  OBVIOUS
<1>5. PICK bound \in Nat : Children(Names, D, bound, c)
  <2>1. \E bound \in Nat : Children(Names, DOMAIN disk, bound, Offspring(DOMAIN disk, L))
    BY <1>1, <1>3, OffspringChildren
  <2> QED BY <1>1, <1>4, <2>1
<1>6. PICK T, none : T = Seq(AllRows(disk)) /\ none = <<>> /\ none \in T
  <2>1. <<>> \in Seq(AllRows(disk))
    OBVIOUS
  <2> QED BY <2>1
<1>7. PICK g : g = [x \in D \X Seq(T) |->
                      IF Len(x[2]) = Len(L[x[1]])
                        THEN DrawValue(disk, levels, ignore, x[1], x[2]) ELSE none]
  OBVIOUS
<1>8. ASSUME NEW p \in D, NEW below \in Seq(T), Len(below) = Len(L[p])
      PROVE  DrawValue(disk, levels, ignore, p, below) \in T
  <2>1. PICK e : e = L[p] /\ e = Left(disk, ignore, p) /\ LeftFrom(disk, ignore, p, e)
    BY <1>3
  <2>2. Pieces(disk, p, e, below) \in Seq(Seq(AllRows(disk)))
    <3>1. below \in Seq(Seq(AllRows(disk))) /\ Len(below) = Len(e)
      BY <1>6, <1>8, <2>1
    <3>2. Begun(disk, p, e, below, Pieces(disk, p, e, below))
      BY <1>1, <2>1, <3>1, PiecesBegin
    <3> QED BY <3>2 DEF Begun
  <2>3. FlattenSeq(Pieces(disk, p, e, below)) \in Seq(AllRows(disk))
    BY <2>2, FlattenPlaces
  <2> QED BY <1>6, <2>1, <2>3 DEF DrawValue
<1>9. g \in Makes(D, T)
  BY <1>6, <1>7, <1>8 DEF Makes
<1>10. PICK f \in [D -> T] : \A p \in D : f[p] = g[<<p, Values(c, f, p)>>]
  <2>1. none \in T
    BY <1>6
  <2>2. \E f \in [D -> T] : Grown(D, c, g, f)
    BY <1>5, <1>9, <2>1, TreeRecursion
  <2> QED BY <2>2 DEF Grown
<1>11. ASSUME NEW p \in D
       PROVE  f[p] = DrawValue(disk, levels, ignore, p, OnEach(f, p, Left(disk, ignore, p)))
  <2>1. PICK e \in Seq(Names) : e = L[p] /\ e = Left(disk, ignore, p)
                                /\ \A i \in 1..Len(e) : Append(p, e[i]) \in D
    BY <1>3
  <2>2. PICK below : below = OnEach(f, p, e)
    OBVIOUS
  <2>3. Values(c, f, p) = below
    <3>1. Values(Offspring(D, L), f, p) = [i \in 1..Len(L[p]) |-> f[Append(p, L[p][i])]]
      <4>1. L[p] \in Seq(Names)
        BY <1>3
      <4> QED BY <4>1, OffspringValues
    <3>2. Values(c, f, p) = [i \in 1..Len(e) |-> f[Append(p, e[i])]]
      BY <1>4, <2>1, <3>1
    <3> QED BY <2>2, <3>2 DEF OnEach
  <2>4. below \in Seq(T) /\ Len(below) = Len(L[p])
    <3>1. \A i \in 1..Len(e) : f[Append(p, e[i])] \in T
      BY <2>1
    <3>2. Len(e) \in Nat
      OBVIOUS
    <3>3. below = [i \in 1..Len(e) |-> f[Append(p, e[i])]]
      BY <2>2 DEF OnEach
    <3> QED BY <2>1, <3>1, <3>2, <3>3
  <2>5. g[<<p, below>>] = DrawValue(disk, levels, ignore, p, below)
    BY <1>7, <2>4
  <2> QED BY <1>10, <2>1, <2>2, <2>3, <2>5
<1> DEFINE Draw == CHOOSE rows : rows = [p \in DOMAIN disk |->
             IF ~ IsDir(disk, p) \/ Len(p) >= levels THEN <<>>
             ELSE LET entries == Entries(disk, p)
                      kept == Among(entries, Names \ ignore)
                  IN FlattenSeq([i \in 1..Len(kept) |->
                       <<[path |-> Append(p, kept[i]), corner |-> kept[i] = Last(entries)]>>
                         \o rows[Append(p, kept[i])]])]
<1>12. ASSUME NEW F, NEW p
       PROVE  DrawValue(disk, levels, ignore, p, OnEach(F, p, Left(disk, ignore, p))) =
             IF ~ IsDir(disk, p) \/ Len(p) >= levels THEN <<>>
             ELSE LET entries == Entries(disk, p)
                      kept == Among(entries, Names \ ignore)
                  IN FlattenSeq([i \in 1..Len(kept) |->
                       <<[path |-> Append(p, kept[i]), corner |-> kept[i] = Last(entries)]>>
                         \o F[Append(p, kept[i])]])
  <2>1. PICK e : e = Left(disk, ignore, p) /\ e = Among(Entries(disk, p), Names \ ignore)
    BY DEF Left
  <2>2. Pieces(disk, p, e, OnEach(F, p, e)) =
          [i \in 1..Len(e) |->
             <<[path |-> Append(p, e[i]), corner |-> e[i] = Last(Entries(disk, p))]>>
               \o F[Append(p, e[i])]]
    BY DEF Pieces, OnEach, RowOf
  <2> QED BY <2>1, <2>2 DEF DrawValue
<1>13. f = [p \in DOMAIN disk |->
             IF ~ IsDir(disk, p) \/ Len(p) >= levels THEN <<>>
             ELSE LET entries == Entries(disk, p)
                      kept == Among(entries, Names \ ignore)
                  IN FlattenSeq([i \in 1..Len(kept) |->
                       <<[path |-> Append(p, kept[i]), corner |-> kept[i] = Last(entries)]>>
                         \o f[Append(p, kept[i])]])]
  BY <1>1, <1>10, <1>11, <1>12
<1>14. Draw = [p \in DOMAIN disk |->
             IF ~ IsDir(disk, p) \/ Len(p) >= levels THEN <<>>
             ELSE LET entries == Entries(disk, p)
                      kept == Among(entries, Names \ ignore)
                  IN FlattenSeq([i \in 1..Len(kept) |->
                       <<[path |-> Append(p, kept[i]), corner |-> kept[i] = Last(entries)]>>
                         \o Draw[Append(p, kept[i])]])]
  BY <1>13
<1>15. Drawn(disk, levels, ignore) = Draw
  BY DEF Drawn
<1> HIDE DEF Draw
<1>16. ASSUME NEW p \in DOMAIN disk
       PROVE  Draw[p] = DrawValue(disk, levels, ignore, p,
                                  OnEach(Draw, p, Left(disk, ignore, p)))
  <2> DEFINE drawn == IF ~ IsDir(disk, p) \/ Len(p) >= levels THEN <<>>
             ELSE LET entries == Entries(disk, p)
                      kept == Among(entries, Names \ ignore)
                  IN FlattenSeq([i \in 1..Len(kept) |->
                       <<[path |-> Append(p, kept[i]), corner |-> kept[i] = Last(entries)]>>
                         \o Draw[Append(p, kept[i])]])
  <2>1. DrawValue(disk, levels, ignore, p, OnEach(Draw, p, Left(disk, ignore, p))) = drawn
    BY <1>12
  <2>2. Draw[p] = drawn
    BY <1>14
  <2> HIDE DEF drawn
  <2> QED BY <2>1, <2>2
<1> QED BY <1>15, <1>16

\* A row has the corner if its name is the last of its directory.
Cornered(disk, row) ==
  row.path # <<>> /\ (row.corner <=> Last(row.path) = Last(Entries(disk, Front(row.path))))

\* w is what a tree from p should draw.
Draws(disk, levels, ignore, p, w) ==
  /\ w \in Seq(AllRows(disk))
  /\ \A a, b \in 1..Len(w) : a < b => Before(w[a].path, w[b].path)
  /\ \A q \in DOMAIN disk : (\E a \in 1..Len(w) : w[a].path = q) <=> Visible(levels, ignore, p, q)
  /\ \A a \in 1..Len(w) : Cornered(disk, w[a])

\* t is the part of a tree that an entry begins.
Piece(disk, levels, ignore, child, t) ==
  /\ t \in Seq(AllRows(disk))
  /\ \A a, b \in 1..Len(t) : a < b => Before(t[a].path, t[b].path)
  /\ \A q \in DOMAIN disk : (\E a \in 1..Len(t) : t[a].path = q)
                              <=> q = child \/ Visible(levels, ignore, child, q)
  /\ \A a \in 1..Len(t) : Cornered(disk, t[a])

LEMMA PieceDrawn ==
  ASSUME NEW disk, IsDisk(disk), NEW ignore, NEW levels, NEW p \in DOMAIN disk, NEW x \in Names,
         Append(p, x) \in DOMAIN disk, NEW v, Draws(disk, levels, ignore, Append(p, x), v)
  PROVE  Piece(disk, levels, ignore, Append(p, x), <<RowOf(disk, p, x)>> \o v)
<1>1. PICK D : D = DOMAIN disk /\ D \in SUBSET Seq(Names)
  BY EscapeIsNoPath
<1>2. PICK child \in D : child = Append(p, x)
  BY <1>1
<1>3. PICK R, row : R = AllRows(disk) /\ row = RowOf(disk, p, x)
  OBVIOUS
<1>4. row \in R /\ row.path = child /\ Cornered(disk, row)
  <2>1. row.path = child /\ row.corner = (x = Last(Entries(disk, p)))
    BY <1>2, <1>3 DEF RowOf
  <2>2. row \in R
    BY <1>1, <1>2, <1>3 DEF RowOf, AllRows
  <2>3. child # <<>> /\ Front(child) = p /\ Last(child) = x
    BY <1>1, <1>2, FrontAppend
  <2> QED BY <2>1, <2>2, <2>3 DEF Cornered
<1>5. PICK s, m : s = <<row>> /\ m = Len(v) /\ m \in Nat
  <2>1. v \in Seq(AllRows(disk))
    BY DEF Draws
  <2>2. Len(v) \in Nat
    BY <2>1
  <2> QED BY <2>2
<1>6. /\ v \in Seq(R)
      /\ \A a, b \in 1..m : a < b => Before(v[a].path, v[b].path)
      /\ \A q \in D : (\E a \in 1..m : v[a].path = q) <=> Visible(levels, ignore, child, q)
      /\ \A a \in 1..m : Cornered(disk, v[a])
  BY <1>1, <1>2, <1>3, <1>5 DEF Draws
<1>7. PICK t : t = s \o v
  OBVIOUS
<1>8. s \in Seq(R) /\ Len(s) = 1 /\ s[1] = row
  BY <1>4, <1>5
<1>9. t \in Seq(R) /\ Joins(t, s, 1, v, m)
  <2>1. s \o v \in Seq(R) /\ Joins(s \o v, s, Len(s), v, Len(v))
    BY <1>6, <1>8, Behind
  <2> QED BY <1>5, <1>7, <1>8, <2>1
<1>10. /\ Len(t) = 1 + m /\ 1 \in 1..(1 + m) /\ t[1] = row
       /\ \A k \in 1..m : 1 + k \in 1..(1 + m) /\ t[1 + k] = v[k]
       /\ \A a \in 1..(1 + m) : a = 1 \/ \E k \in 1..m : a = 1 + k
  <2>1. 1 \in 1..1 /\ \A a \in 1..1 : a = 1
    OBVIOUS
  <2> QED BY <1>8, <1>9, <2>1 DEF Joins
<1>11. \A k \in 1..m : v[k].path \in D
  <2>1. \A r \in R : r.path \in D
    BY <1>1, <1>3 DEF AllRows
  <2> QED BY <1>5, <1>6, <2>1
<1>12. ASSUME NEW k \in 1..m PROVE Before(child, v[k].path)
  <2>1. PICK q \in D : q = v[k].path
    BY <1>11
  <2>2. Visible(levels, ignore, child, q)
    BY <1>6, <2>1
  <2>3. Starts(child, q) /\ Len(child) < Len(q) /\ child \in Seq(Names) /\ q \in Seq(Names)
    BY <1>1, <2>2 DEF Visible
  <2> QED BY <2>1, <2>3, BeforeChild
<1>13. ASSUME NEW a \in 1..Len(t), NEW b \in 1..Len(t), a < b
       PROVE  Before(t[a].path, t[b].path)
  <2>1. b # 1
    BY <1>10, <1>13
  <2>2. PICK k \in 1..m : b = 1 + k
    BY <1>10, <2>1
  <2>3. CASE a = 1
    BY <1>4, <1>10, <1>12, <2>2, <2>3
  <2>4. CASE a # 1
    <3>1. PICK c \in 1..m : a = 1 + c
      BY <1>10, <2>4
    <3>2. c < k
      BY <1>13, <2>2, <3>1
    <3> QED BY <1>6, <1>10, <2>2, <3>1, <3>2
  <2> QED BY <2>3, <2>4
<1>14. ASSUME NEW q \in D
       PROVE  (\E a \in 1..Len(t) : t[a].path = q) <=> q = child \/ Visible(levels, ignore, child, q)
  <2>1. ASSUME NEW a \in 1..Len(t), t[a].path = q, q # child PROVE \E b \in 1..m : v[b].path = q
    <3>1. a # 1 /\ a \in 1..(1 + m)
      BY <1>4, <1>10, <2>1
    <3>2. PICK k \in 1..m : a = 1 + k
      BY <1>10, <3>1
    <3> QED BY <1>10, <2>1, <3>2
  <2>2. \A k \in 1..m : 1 + k \in 1..Len(t) /\ t[1 + k] = v[k]
    BY <1>10
  <2>3. 1 \in 1..Len(t) /\ t[1].path = child
    BY <1>4, <1>10
  <2>4. (\E a \in 1..m : v[a].path = q) <=> Visible(levels, ignore, child, q)
    BY <1>6
  <2> QED BY <2>1, <2>2, <2>3, <2>4
<1>15. ASSUME NEW a \in 1..Len(t) PROVE Cornered(disk, t[a])
  <2>1. CASE a = 1
    BY <1>4, <1>10, <2>1
  <2>2. CASE a # 1
    <3>1. PICK k \in 1..m : a = 1 + k
      BY <1>10, <2>2
    <3> QED BY <1>6, <1>10, <3>1
  <2> QED BY <2>1, <2>2
<1>16. Piece(disk, levels, ignore, child, t)
  BY <1>1, <1>3, <1>9, <1>13, <1>14, <1>15 DEF Piece
<1> QED BY <1>2, <1>3, <1>5, <1>7, <1>16

LEMMA DrawStep ==
  ASSUME NEW disk, IsDisk(disk), NEW ignore, NEW levels \in Int, NEW p \in DOMAIN disk, NEW W,
         \A i \in 1..Len(Left(disk, ignore, p)) :
           LET child == Append(p, Left(disk, ignore, p)[i])
           IN Draws(disk, levels, ignore, child, W[child])
  PROVE  Draws(disk, levels, ignore, p,
               DrawValue(disk, levels, ignore, p, OnEach(W, p, Left(disk, ignore, p))))
<1>1. PICK D : D = DOMAIN disk /\ D \in SUBSET Seq(Names)
  BY EscapeIsNoPath
<1>2. PICK l \in Nat : l = Len(p) /\ p \in Seq(Names)
  BY <1>1
<1>3. PICK e : e = Left(disk, ignore, p) /\ LeftFrom(disk, ignore, p, e)
  BY LeftLists
<1>4. PICK R, w : R = AllRows(disk) /\ w = DrawValue(disk, levels, ignore, p, OnEach(W, p, e))
  OBVIOUS
<1>5. CASE ~ IsDir(disk, p) \/ l >= levels
  <2>1. w = <<>>
    BY <1>2, <1>4, <1>5 DEF DrawValue
  <2>2. w \in Seq(R) /\ \A a \in 1..Len(w) : FALSE
    BY <2>1
  <2>3. ASSUME NEW q \in D, Visible(levels, ignore, p, q) PROVE FALSE
    <3>1. PICK m \in Nat : m = Len(q) /\ q \in Seq(Names)
      BY <1>1
    <3>2. Starts(p, q) /\ l < m /\ m <= levels
      BY <1>2, <2>3, <3>1 DEF Visible
    <3>3. SubSeq(q, 1, l) = p
      BY <1>2, <3>1, <3>2, CutStarts
    <3>4. l \in 0..Len(q)
      BY <3>1, <3>2
    <3>5. IsDir(disk, SubSeq(q, 1, l))
      BY <1>1, <3>1, <3>2, <3>4, AboveIsDir
    <3>6. IsDir(disk, p)
      BY <3>3, <3>5
    <3>7. ~ (l >= levels)
      BY <3>2
    <3> QED BY <1>5, <3>6, <3>7
  <2>4. Draws(disk, levels, ignore, p, w)
    BY <1>1, <1>4, <2>2, <2>3 DEF Draws
  <2> QED BY <1>3, <1>4, <2>4
<1>6. CASE IsDir(disk, p) /\ ~ (l >= levels)
  <2>1. PICK n \in Nat : n = Len(e) /\ e \in Seq(Names) /\ Ranked(e)
    <3>1. e \in Seq(Names) /\ Ranked(e)
      BY <1>3 DEF LeftFrom
    <3>2. Len(e) \in Nat
      BY <3>1
    <3> QED BY <3>1, <3>2
  <2>2. PICK below : below = OnEach(W, p, e)
    OBVIOUS
  <2>3. ASSUME NEW i \in 1..n
        PROVE  /\ e[i] \in Names /\ Append(p, e[i]) \in D /\ below[i] = W[Append(p, e[i])]
               /\ Draws(disk, levels, ignore, Append(p, e[i]), below[i]) /\ below[i] \in Seq(R)
    <3>1. below[i] = W[Append(p, e[i])]
      BY <2>1, <2>2 DEF OnEach
    <3>2. Append(p, e[i]) \in D /\ e[i] \in Names
      BY <1>1, <1>3, <2>1 DEF LeftFrom
    <3>3. Draws(disk, levels, ignore, Append(p, e[i]), below[i])
      BY <1>3, <2>1, <3>1
    <3>4. below[i] \in Seq(R)
      BY <1>4, <3>3 DEF Draws
    <3> QED BY <3>1, <3>2, <3>3, <3>4
  <2>4. below \in Seq(Seq(R)) /\ Len(below) = n
    <3>1. below = [i \in 1..n |-> below[i]]
      BY <2>1, <2>2 DEF OnEach
    <3> QED BY <2>3, <3>1
  <2>5. PICK seqs : seqs = Pieces(disk, p, e, below)
    OBVIOUS
  <2>6. /\ seqs \in Seq(Seq(R)) /\ Len(seqs) = n
        /\ \A i \in 1..n : seqs[i] = <<RowOf(disk, p, e[i])>> \o below[i]
    <3>1. LeftFrom(disk, ignore, p, e)
      BY <1>3
    <3>2. below \in Seq(Seq(AllRows(disk))) /\ Len(below) = Len(e)
      BY <1>4, <2>1, <2>4
    <3>3. Begun(disk, p, e, below, seqs)
      BY <2>5, <3>1, <3>2, PiecesBegin
    <3> QED BY <1>4, <2>1, <3>3 DEF Begun
  <2>7. ASSUME NEW i \in 1..n PROVE Piece(disk, levels, ignore, Append(p, e[i]), seqs[i])
    <3>1. PICK x, v : x = e[i] /\ v = below[i] /\ x \in Names
      BY <2>3
    <3>2. Append(p, x) \in DOMAIN disk /\ Draws(disk, levels, ignore, Append(p, x), v)
      BY <1>1, <2>3, <3>1
    <3>3. Piece(disk, levels, ignore, Append(p, x), <<RowOf(disk, p, x)>> \o v)
      BY <3>1, <3>2, PieceDrawn
    <3> QED BY <2>6, <3>1, <3>3
  <2>8. PICK o, r : w \in Seq(R) /\ Places(seqs, n, w, o, r)
    <3>1. FlattenSeq(seqs) \in Seq(R) /\ \E o, r : Places(seqs, n, FlattenSeq(seqs), o, r)
      BY <2>6, FlattenPlaces
    <3>2. w = FlattenSeq(seqs)
      BY <1>2, <1>3, <1>4, <1>6, <2>2, <2>5 DEF DrawValue
    <3> QED BY <3>1, <3>2
  <2>9. /\ \A a \in 1..Len(w) : /\ o[a] \in 1..n /\ r[a] \in 1..Len(seqs[o[a]])
                                /\ w[a] = seqs[o[a]][r[a]]
        /\ \A j \in 1..n : \A c \in 1..Len(seqs[j]) :
             \E a \in 1..Len(w) : o[a] = j /\ r[a] = c
    BY <2>8 DEF Places
  <2>10. ASSUME NEW q \in D
         PROVE  (\E a \in 1..Len(w) : w[a].path = q) <=> Visible(levels, ignore, p, q)
    <3>1. \A i \in 1..n : (\E b \in 1..Len(seqs[i]) : seqs[i][b].path = q)
             <=> q = Append(p, e[i]) \/ Visible(levels, ignore, Append(p, e[i]), q)
      BY <1>1, <2>7 DEF Piece
    <3>2. ASSUME NEW a \in 1..Len(w), w[a].path = q
          PROVE  \E i \in 1..n : \E b \in 1..Len(seqs[i]) : seqs[i][b].path = q
      <4>1. /\ o[a] \in 1..n /\ r[a] \in 1..Len(seqs[o[a]])
            /\ seqs[o[a]][r[a]].path = q
        BY <2>9, <3>2
      <4> QED BY <4>1
    <3>3. ASSUME NEW i \in 1..n, NEW b \in 1..Len(seqs[i]), seqs[i][b].path = q
          PROVE  \E a \in 1..Len(w) : w[a].path = q
      <4>1. PICK a \in 1..Len(w) : o[a] = i /\ r[a] = b
        BY <2>9
      <4> QED BY <2>9, <3>3, <4>1
    <3>4. Len(p) < levels
      BY <1>2, <1>6
    <3>5. Visible(levels, ignore, p, q)
            <=> \E i \in 1..Len(e) : \/ q = Append(p, e[i])
                                     \/ Visible(levels, ignore, Append(p, e[i]), q)
      <4>1. q \in DOMAIN disk
        BY <1>1
      <4>2. LeftFrom(disk, ignore, p, e)
        BY <1>3
      <4> QED BY <3>4, <4>1, <4>2, VisibleFurther
    <3> QED BY <2>1, <3>1, <3>2, <3>3, <3>5
  <2>11. ASSUME NEW a \in 1..Len(w) PROVE Cornered(disk, w[a])
    <3>1. PICK i, b : /\ i \in 1..n /\ b \in 1..Len(seqs[i]) /\ w[a] = seqs[i][b]
      <4>1. o[a] \in 1..n /\ r[a] \in 1..Len(seqs[o[a]]) /\ w[a] = seqs[o[a]][r[a]]
        BY <2>9
      <4> QED BY <4>1
    <3> QED BY <2>7, <3>1 DEF Piece
  <2>12. PICK path : path = [row \in R |-> row.path]
    OBVIOUS
  <2>13. ASSUME NEW i \in 1..n, NEW b \in 1..Len(seqs[i])
         PROVE  /\ seqs[i][b] \in R /\ path[seqs[i][b]] = seqs[i][b].path
                /\ path[seqs[i][b]] \in Seq(Names) /\ Starts(Append(p, e[i]), path[seqs[i][b]])
    <3>1. PICK row \in R : row = seqs[i][b]
      BY <2>6
    <3>2. PICK q \in D : q = row.path
      BY <1>1, <1>4 DEF AllRows
    <3>3. q = Append(p, e[i]) \/ Visible(levels, ignore, Append(p, e[i]), q)
      BY <1>1, <2>7, <3>1, <3>2 DEF Piece
    <3>4. q \in Seq(Names) /\ Starts(q, q)
      BY <1>1, CutWhole
    <3>5. Starts(Append(p, e[i]), q)
      BY <3>3, <3>4 DEF Visible
    <3> QED BY <2>12, <3>1, <3>2, <3>4, <3>5
  <2>14. \A a, b \in 1..Len(w) : a < b => Before(w[a].path, w[b].path)
    <3>1. \A i \in 1..Len(e) : \A b \in 1..Len(seqs[i]) :
            path[seqs[i][b]] \in Seq(Names) /\ Starts(Append(p, e[i]), path[seqs[i][b]])
      BY <2>1, <2>13
    <3>2. \A i \in 1..Len(e) : \A a, b \in 1..Len(seqs[i]) :
            a < b => Before(path[seqs[i][a]], path[seqs[i][b]])
      <4>1. ASSUME NEW i \in 1..n, NEW a \in 1..Len(seqs[i]), NEW b \in 1..Len(seqs[i]), a < b
            PROVE  Before(path[seqs[i][a]], path[seqs[i][b]])
        <5>1. Before(seqs[i][a].path, seqs[i][b].path)
          BY <2>7, <4>1 DEF Piece
        <5> QED BY <2>13, <5>1
      <4> QED BY <2>1, <4>1
    <3>3. Places(seqs, Len(e), w, o, r)
      BY <2>1, <2>8
    <3>4. Len(seqs) = Len(e)
      BY <2>1, <2>6
    <3>5. \A a, b \in 1..Len(w) : a < b => Before(path[w[a]], path[w[b]])
      BY <1>2, <2>1, <2>6, <3>1, <3>2, <3>3, <3>4, FlatSorted
    <3>6. \A a \in 1..Len(w) : path[w[a]] = w[a].path
      BY <2>8, <2>12
    <3> QED BY <3>5, <3>6
  <2>15. Draws(disk, levels, ignore, p, w)
    BY <1>1, <1>4, <2>8, <2>10, <2>11, <2>14 DEF Draws
  <2> QED BY <1>3, <1>4, <2>15
<1> QED BY <1>5, <1>6

LEMMA DrawnDraws ==
  ASSUME NEW disk, IsDisk(disk), NEW ignore, NEW levels \in Int, NEW p \in DOMAIN disk
  PROVE  Draws(disk, levels, ignore, p, Drawn(disk, levels, ignore)[p])
<1>1. PICK D, W : D = DOMAIN disk /\ W = Drawn(disk, levels, ignore)
  OBVIOUS
<1>2. PICK L : L = [q \in D |-> Left(disk, ignore, q)]
  OBVIOUS
<1>3. \A q \in D : LeftFrom(disk, ignore, q, L[q]) /\ L[q] = Left(disk, ignore, q)
  BY <1>1, <1>2, LeftLists
<1>4. PICK bound \in Nat : Children(Names, D, bound, Offspring(D, L))
  <2>1. \A q \in DOMAIN disk : /\ L[q] \in Seq(Names)
                               /\ \A i \in 1..Len(L[q]) : Append(q, L[q][i]) \in DOMAIN disk
    BY <1>1, <1>3 DEF LeftFrom
  <2>2. \E bound \in Nat : Children(Names, DOMAIN disk, bound, Offspring(DOMAIN disk, L))
    BY <2>1, OffspringChildren
  <2> QED BY <1>1, <2>2
<1>5. PICK c : c = Offspring(D, L)
  OBVIOUS
<1>6. PICK A : A = {q \in D : Draws(disk, levels, ignore, q, W[q])}
  OBVIOUS
<1>7. ASSUME NEW q \in D, \A i \in 1..Len(c[q]) : c[q][i] \in A PROVE q \in A
  <2>1. PICK e : e = Left(disk, ignore, q) /\ e = L[q] /\ LeftFrom(disk, ignore, q, e)
    BY <1>3
  <2>2. c[q] = [i \in 1..Len(e) |-> Append(q, e[i])]
    BY <1>5, <2>1 DEF Offspring
  <2>3. Len(c[q]) = Len(e)
    <3>1. PICK n \in Nat : n = Len(e)
      <4>1. e \in Seq(Names)
        BY <2>1 DEF LeftFrom
      <4> QED BY <4>1
    <3>2. PICK t : t = [i \in 1..n |-> Append(q, e[i])]
      OBVIOUS
    <3>3. Len(t) = n
      BY <3>2
    <3> QED BY <2>2, <3>1, <3>2, <3>3
  <2>4. \A i \in 1..Len(e) : Draws(disk, levels, ignore, Append(q, e[i]), W[Append(q, e[i])])
    BY <1>6, <1>7, <2>2, <2>3
  <2>5. Draws(disk, levels, ignore, q,
              DrawValue(disk, levels, ignore, q, OnEach(W, q, Left(disk, ignore, q))))
    BY <1>1, <2>1, <2>4, DrawStep
  <2>6. W[q] = DrawValue(disk, levels, ignore, q, OnEach(W, q, Left(disk, ignore, q)))
    BY <1>1, DrawnUnfolds
  <2> QED BY <1>6, <2>5, <2>6
<1>8. A = D
  <2>1. A \in SUBSET D
    BY <1>6
  <2>2. Children(Names, D, bound, c)
    BY <1>4, <1>5
  <2>3. \A q \in D : (\A i \in 1..Len(c[q]) : c[q][i] \in A) => q \in A
    BY <1>7
  <2>4. Inherited(D, c, A)
    BY <2>1, <2>3 DEF Inherited
  <2> QED BY <2>2, <2>4, TreeInduct
<1> QED BY <1>1, <1>6, <1>8

\* The rows below any path, none if there is nothing.
LEMMA RowsDraw ==
  ASSUME NEW disk, IsDisk(disk), NEW ignore, NEW depth \in Int, NEW root \in Seq(Names)
  PROVE  Draws(disk, Len(root) + depth, ignore, root, Rows(disk, root, depth, ignore))
<1>0. PICK levels \in Int : levels = Len(root) + depth
  <2>1. Len(root) \in Nat
    OBVIOUS
  <2> QED BY <2>1
<1>1. CASE root \in DOMAIN disk
  BY <1>0, <1>1, DrawnDraws DEF Rows
<1>2. CASE root \notin DOMAIN disk
  <2>1. PICK w : w = Rows(disk, root, depth, ignore) /\ w = <<>>
    BY <1>2 DEF Rows
  <2>2. w \in Seq(AllRows(disk)) /\ \A a \in 1..Len(w) : FALSE
    BY <2>1
  <2>3. ASSUME NEW q \in DOMAIN disk, Visible(levels, ignore, root, q) PROVE FALSE
    <3>1. q \in Seq(Names) /\ Starts(root, q)
      BY <2>3, EscapeIsNoPath DEF Visible
    <3>2. SubSeq(q, 1, Len(root)) = root /\ Len(root) <= Len(q)
      BY <3>1, CutStarts
    <3>3. Len(root) \in 0..Len(q)
      BY <3>1, <3>2
    <3>4. SubSeq(q, 1, Len(root)) \in DOMAIN disk
      BY <3>3, AboveIsDir
    <3> QED BY <1>2, <3>2, <3>4
  <2>4. Draws(disk, levels, ignore, root, w)
    BY <2>2, <2>3 DEF Draws
  <2> QED BY <1>0, <2>1, <2>4
<1> QED BY <1>1, <1>2

\* What the property calls drawn is what is visible.
ToDraw(disk, root, depth, ignore) ==
  {p \in DOMAIN disk :
     /\ IsPrefix(root, p) /\ Len(p) \in Len(root) + 1 .. Len(root) + depth
     /\ \A i \in Len(root) + 1..Len(p) : p[i] \notin ignore}

LEMMA ToDrawVisible ==
  ASSUME NEW disk, IsDisk(disk), NEW root \in Seq(Names), NEW depth \in Int, NEW ignore
  PROVE  \A p : p \in ToDraw(disk, root, depth, ignore)
                  <=> p \in DOMAIN disk /\ Visible(Len(root) + depth, ignore, root, p)
<1>1. PICK l \in Nat : l = Len(root)
  OBVIOUS
<1>2. ASSUME NEW p \in DOMAIN disk
      PROVE  IsPrefix(root, p) /\ Len(p) \in l + 1 .. l + depth
               <=> Starts(root, p) /\ l < Len(p) /\ Len(p) <= l + depth
  <2>1. p \in Seq(Names)
    BY EscapeIsNoPath
  <2>2. IsPrefix(root, p) <=> Starts(root, p)
    BY <2>1, PrefixStarts
  <2>3. PICK m \in Nat : m = Len(p)
    BY <2>1
  <2>4. m \in l + 1 .. l + depth <=> l < m /\ m <= l + depth
    OBVIOUS
  <2> QED BY <2>2, <2>3, <2>4
<1> QED BY <1>1, <1>2 DEF Visible, ToDraw

\* tree, tree.go:24-99: whatever tree the disk holds, however deep and whatever is
\* ignored, each entry in reach is drawn once, in the sorted order, and an entry has the
\* corner exactly if no other of its directory comes behind it.
THEOREM TreeCorrect == Spec => []TreeIsComplete
<1>1. ASSUME Served, Shown("tree") PROVE TreeIsComplete
  <2>1. request.kind = "tree" /\ request \in Requests /\ answer = Serve(request)
        /\ answer.ok /\ ~ answer.truncated
    BY <1>1 DEF Served, Shown, Asked
  <2>2. answer = Tree(request.disk, request.workdir, request)
    BY <2>1 DEF Serve
  <2>3. /\ IsDisk(request.disk) /\ request.depth \in Int
        /\ request.workdir \in Seq(Names) /\ request.path.names \in Seq(Names \cup Dots)
    BY <2>1, RequestAssumption
  <2>4. PICK disk, root : disk = request.disk /\ root = Root
    OBVIOUS
  <2>5. PICK depth \in Int : depth = IF request.depth <= 0 THEN 4 ELSE request.depth
    BY <2>3
  <2>6. PICK ignore : ignore = DefaultIgnore \cup request.ignore
    OBVIOUS
  <2>7. PICK w : w = Rows(disk, root, depth, ignore)
    OBVIOUS
  <2>8. root # Escape /\ answer = Success(w)
    <3>1. ~ Failure("PATH_ESCAPE").ok
      BY DEF Failure
    <3> QED BY <2>1, <2>2, <2>4, <2>5, <2>6, <2>7, <3>1 DEF Tree, Root, Depth, DefaultDepth
  <2>9. root \in Seq(Names)
    BY <2>3, <2>4, <2>8, RootIsPath DEF Root
  <2>10. Draws(disk, Len(root) + depth, ignore, root, w)
    BY <2>3, <2>4, <2>7, <2>9, RowsDraw
  <2>11. /\ w \in Seq(AllRows(disk))
         /\ \A a, b \in 1..Len(w) : a < b => Before(w[a].path, w[b].path)
         /\ \A q \in DOMAIN disk :
              (\E a \in 1..Len(w) : w[a].path = q) <=> Visible(Len(root) + depth, ignore, root, q)
         /\ \A a \in 1..Len(w) : Cornered(disk, w[a])
    BY <2>10 DEF Draws
  <2>12. answer.body = w
    BY <2>1, <2>8, <2>11, SuccessWhole
  <2>13. PICK n \in Nat : n = Len(w)
    BY <2>11
  <2>14. \A a \in 1..n : w[a].path \in DOMAIN disk /\ w[a].corner \in BOOLEAN
    <3>1. \A row \in AllRows(disk) : row.path \in DOMAIN disk /\ row.corner \in BOOLEAN
      BY DEF AllRows
    <3> QED BY <2>11, <2>13, <3>1
  <2>15. Sorted([a \in 1..Len(w) |-> w[a].path])
    <3>1. PICK s : s = [a \in 1..n |-> w[a].path]
      OBVIOUS
    <3>2. Len(s) = n /\ \A a \in 1..n : s[a] = w[a].path
      BY <3>1
    <3>3. Sorted(s)
      BY <2>11, <2>13, <3>2 DEF Sorted
    <3> QED BY <2>13, <3>1, <3>3
  <2>16. {w[a].path : a \in 1..Len(w)} =
           ToDraw(disk, root, depth, ignore)
    <3>1. {w[a].path : a \in 1..Len(w)} =
            {p \in DOMAIN disk : Visible(Len(root) + depth, ignore, root, p)}
      BY <2>11, <2>13, <2>14
    <3>2. \A p : p \in ToDraw(disk, root, depth, ignore)
                  <=> p \in DOMAIN disk /\ Visible(Len(root) + depth, ignore, root, p)
      BY <2>3, <2>4, <2>9, ToDrawVisible
    <3> QED BY <3>1, <3>2
  <2>17. ASSUME NEW a \in 1..Len(w)
         PROVE  w[a].corner <=>
                  \A x \in ToSet(Entries(disk, Front(w[a].path))) :
                    x = Last(w[a].path) \/ Rank(x) < Rank(Last(w[a].path))
    <3>1. PICK q \in DOMAIN disk : q = w[a].path /\ q # <<>> /\ q \in Seq(Names)
      BY <2>3, <2>4, <2>11, <2>13, <2>14, EscapeIsNoPath DEF Cornered
    <3>2. PICK p, x : p = Front(q) /\ x = Last(q)
      OBVIOUS
    <3>3. q = Append(p, x) /\ x \in Names
      BY <3>1, <3>2, FrontLast
    <3>4. p \in DOMAIN disk
      BY <2>3, <2>4, <3>1, <3>2 DEF IsDisk, IsDir
    <3>5. PICK e : e = Entries(disk, p) /\ Listing(disk, p, e)
      BY <2>3, <2>4, <3>4, EntriesListing
    <3>6. x = Last(e) <=> \A y \in ToSet(e) : y = x \/ Rank(y) < Rank(x)
      BY <3>1, <3>3, <3>5, LastHighest
    <3>7. w[a].corner <=> x = Last(e)
      BY <2>11, <3>1, <3>2, <3>5 DEF Cornered
    <3> QED BY <3>1, <3>2, <3>5, <3>6, <3>7
  <2>18. /\ Sorted([a \in 1..Len(answer.body) |-> answer.body[a].path])
         /\ {answer.body[a].path : a \in 1..Len(answer.body)} =
              ToDraw(request.disk, Root, depth, DefaultIgnore \cup request.ignore)
         /\ \A a \in 1..Len(answer.body) :
              answer.body[a].corner <=>
                \A x \in ToSet(Entries(request.disk, Front(answer.body[a].path))) :
                  \/ x = Last(answer.body[a].path)
                  \/ Rank(x) < Rank(Last(answer.body[a].path))
    BY <2>4, <2>6, <2>12, <2>15, <2>16, <2>17
  <2> QED BY <2>5, <2>18 DEF TreeIsComplete, ToDraw
<1>2. Served => TreeIsComplete
  BY <1>1 DEF TreeIsComplete
<1> QED BY <1>2, AlwaysServed, PTL

-------------------------------------------------------------------------------
(* The file browser and the viewer.                                           *)

\* The link of a file, resolved in the sandbox, is that file.
LEMMA LinkLeadsBack ==
  ASSUME NEW workdir \in Seq(Names), workdir # <<>>, NEW path \in Seq(Names), Starts(workdir, path)
  PROVE  Resolve(workdir, Link(workdir, path)) = path
<1>1. PICK l \in Nat, m \in Nat : l = Len(workdir) /\ m = Len(path)
  OBVIOUS
<1>2. l <= m /\ \A i \in 1..l : path[i] = workdir[i]
  BY <1>1 DEF Starts
<1>3. PICK d \in Nat : d = m - l /\ l + d = m
  <2>1. m - l \in Nat /\ l + (m - l) = m
    BY <1>2
  <2> QED BY <2>1
<1>4. PICK t : t = SubSeq(path, l + 1, m)
  OBVIOUS
<1>5. t \in Seq(Names) /\ Len(t) = d /\ \A k \in 1..d : t[k] = path[l + k]
  <2>1. t = [k \in 1..d |-> path[l + k]]
    <3>1. (m - (l + 1)) + 1 = d /\ \A k \in 1..d : (l + 1) + k - 1 = l + k
      BY <1>3
    <3> QED BY <1>3, <1>4, <3>1
  <2>2. \A k \in 1..d : path[l + k] \in Names
    <3>1. \A k \in 1..d : l + k \in 1..m
      BY <1>3
    <3>2. \A j \in 1..m : path[j] \in Names
      BY <1>1
    <3> QED BY <3>1, <3>2
  <2> QED BY <2>1, <2>2
<1>6. PICK u : u = workdir \o t
  OBVIOUS
<1>7. u \in Seq(Names) /\ Joins(u, workdir, l, t, d)
  <2>1. workdir \o t \in Seq(Names) /\ Joins(workdir \o t, workdir, Len(workdir), t, Len(t))
    BY <1>5, Behind
  <2> QED BY <1>1, <1>5, <1>6, <2>1
<1>8. u = path
  <2>1. Len(u) = m
    BY <1>3, <1>7 DEF Joins
  <2>2. \A a \in 1..m : u[a] = path[a]
    <3>1. ASSUME NEW a \in 1..m PROVE u[a] = path[a]
      <4>1. CASE a \in 1..l
        BY <1>2, <1>7, <4>1 DEF Joins
      <4>2. CASE a \notin 1..l
        <5>1. PICK k \in 1..d : a = l + k
          BY <1>3, <1>7, <4>2 DEF Joins
        <5> QED BY <1>5, <1>7, <5>1 DEF Joins
      <4> QED BY <4>1, <4>2
    <3> QED BY <3>1
  <2> QED BY <1>1, <1>7, <2>1, <2>2, SeqEqual
<1>9. PICK link : link = Link(workdir, path)
  OBVIOUS
<1>10. link.abs = FALSE /\ link.names = t
  BY <1>1, <1>4, <1>9 DEF Link
<1>11. Resolve(workdir, link) = IF Below(workdir, Clean(u)) THEN Clean(u) ELSE Escape
  BY <1>6, <1>10 DEF Resolve
<1>12. Clean(u) = path
  BY <1>7, <1>8, CleanSame
<1>13. Below(workdir, path)
  BY BelowExact
<1> QED BY <1>9, <1>11, <1>12, <1>13

\* Among the first k lines the q-th is the last that is not empty.
LastFilled(lines, k, q) ==
  (\A i \in 1..k : i > q => lines[i] = "") /\ (q > 0 => lines[q] # "")

LEMMA SomeFilled ==
  ASSUME NEW lines, NEW n \in Nat
  PROVE  \E q \in 0..n : LastFilled(lines, n, q)
<1>1. PICK A : A = {k \in Nat : \E q \in 0..k : LastFilled(lines, k, q)}
  OBVIOUS
<1>2. 0 \in A
  <2>1. 0 \in 0..0 /\ (\A i \in 1..0 : FALSE) /\ ~ (0 > 0)
    OBVIOUS
  <2>2. LastFilled(lines, 0, 0)
    BY <2>1 DEF LastFilled
  <2> QED BY <1>1, <2>1, <2>2
<1>3. ASSUME NEW k \in A PROVE k + 1 \in A
  <2>1. k \in Nat /\ k + 1 \in Nat
    BY <1>1
  <2>2. PICK q \in 0..k : LastFilled(lines, k, q)
    BY <1>1
  <2>3. (\A i \in 1..k : i > q => lines[i] = "") /\ (q > 0 => lines[q] # "")
    BY <2>2 DEF LastFilled
  <2>4. \A i \in 1..(k + 1) : i \in 1..k \/ i = k + 1
    BY <2>1
  <2>5. CASE lines[k + 1] = ""
    <3>1. \A i \in 1..(k + 1) : i > q => lines[i] = ""
      BY <2>3, <2>4, <2>5
    <3>2. LastFilled(lines, k + 1, q)
      BY <2>3, <3>1 DEF LastFilled
    <3>3. q \in 0..(k + 1)
      BY <2>1
    <3> QED BY <1>1, <2>1, <3>2, <3>3
  <2>6. CASE lines[k + 1] # ""
    <3>1. k + 1 \in 0..(k + 1) /\ \A i \in 1..(k + 1) : ~ (i > k + 1)
      BY <2>1
    <3>2. LastFilled(lines, k + 1, k + 1)
      BY <2>6, <3>1 DEF LastFilled
    <3> QED BY <1>1, <2>1, <3>1, <3>2
  <2> QED BY <2>5, <2>6
<1>4. A \in SUBSET Nat
  BY <1>1
<1>5. A = Nat
  BY <1>2, <1>3, <1>4, NatInduct
<1> QED BY <1>1, <1>5

Filled(lines) == {i \in 1..Len(lines) : \E j \in i..Len(lines) : lines[j] # ""}

\* The viewer shows the lines up to the last that is not empty, numbered as read numbers them.
LEMMA ViewShows ==
  ASSUME NEW S, NEW lines \in Seq(S), Len(lines) <= MaxView, NEW disk, NEW path, disk[path] = lines,
         Fits(lines)
  PROVE  LET body == View(disk, path).lines
             read == ReadAll(lines)
         IN /\ body = <<1>> \/ IsPrefix(body, read.lines)
            /\ \A i \in Len(body) + 1..Len(read.lines) : lines[i] = ""
<1>1. PICK n \in Nat : n = Len(lines) /\ n <= MaxView
  OBVIOUS
<1>2. SubSeq(lines, 1, Min({MaxView, n})) = lines
  <2>1. MaxView \in Nat
    BY LimitAssumption
  <2>2. Min({MaxView, n}) = n
    <3>1. Min({MaxView, n}) = IF MaxView <= n THEN MaxView ELSE n
      BY <2>1, TwoBounds
    <3> QED BY <1>1, <2>1, <3>1
  <2> QED BY <1>1, <2>2, CutWhole
<1>3. PICK q \in 0..n : (\A i \in 1..n : i > q => lines[i] = "") /\ (q > 0 => lines[q] # "")
  BY SomeFilled DEF LastFilled
<1>4. PICK chosen : /\ chosen = Filled(lines)
                    /\ chosen = {i \in 1..n : \E j \in i..n : lines[j] # ""}
  BY <1>1 DEF Filled
<1>5. \A i \in 1..n : i \in chosen <=> 1 <= i /\ i <= q
  <2>1. ASSUME NEW i \in 1..n, NEW j \in i..n, lines[j] # "" PROVE i <= q
    <3>1. j \in 1..n /\ i <= j
      OBVIOUS
    <3>2. ~ (j > q)
      BY <1>3, <2>1, <3>1
    <3> QED BY <3>1, <3>2
  <2>2. ASSUME NEW i \in 1..n, i <= q PROVE q \in i..n /\ lines[q] # ""
    <3>1. q > 0 /\ q \in i..n
      BY <2>2
    <3> QED BY <1>3, <3>1
  <2>3. \A i \in 1..n : 1 <= i
    OBVIOUS
  <2>4. \A i \in 1..n : i \in chosen <=> \E j \in i..n : lines[j] # ""
    BY <1>4
  <2> QED BY <2>1, <2>2, <2>3, <2>4
<1>6. PICK kept : kept = Among(Indices(lines), chosen)
  OBVIOUS
<1>7. IsRun(kept, 1, q)
  <2>1. PICK s : s = Indices(lines)
    OBVIOUS
  <2>2. IsRun(s, 1, n)
    BY <1>1, <2>1, IndicesRun
  <2>3. q \in Int /\ q <= n /\ 1 \in Nat \ {0}
    OBVIOUS
  <2>4. q <= n => IsRun(Among(s, chosen), 1, q)
    BY <1>5, <2>2, <2>3, AmongRun
  <2> QED BY <1>6, <2>1, <2>3, <2>4
<1>8. PICK l : l = Scanned(lines) /\ IsRun(l, 1, n)
  <2>1. PICK h \in 0..n : IsRun(Scanned(lines), 1, h) /\ (h < n => lines[h + 1] = "long")
    BY <1>1, ScannedRun
  <2>2. ~ (h < n)
    <3>1. SUFFICES ASSUME h < n PROVE FALSE
      OBVIOUS
    <3>2. h + 1 \in 1..n
      BY <3>1
    <3> QED BY <1>1, <2>1, <3>1, <3>2 DEF Fits
  <2>3. h = n
    BY <2>2
  <2> QED BY <2>1, <2>3
<1>9. ReadAll(lines).lines = l
  BY <1>8 DEF ReadAll
<1>10. View(disk, path).lines = IF kept = <<>> THEN <<1>> ELSE kept
  <2>1. PICK raw : raw = SubSeq(disk[path], 1, Min({MaxView, Len(disk[path])}))
    OBVIOUS
  <2>2. raw = lines
    BY <1>1, <1>2, <2>1
  <2>3. View(disk, path).lines = IF Among(Indices(raw), Filled(raw)) = <<>> THEN <<1>>
                                 ELSE Among(Indices(raw), Filled(raw))
    BY <2>1 DEF View, Filled
  <2> QED BY <1>4, <1>6, <2>2, <2>3
<1>11. kept \in Seq(Int) /\ Len(kept) = q /\ \A k \in 1..q : kept[k] = k
  <2>1. q >= 1 \/ q = 0
    OBVIOUS
  <2>2. kept \in Seq(Int) /\ Len(kept) = q
    BY <1>7, <2>1 DEF IsRun
  <2>3. \A k \in 1..q : 1 + k - 1 = k
    OBVIOUS
  <2> QED BY <1>7, <2>2, <2>3 DEF IsRun
<1>12. l \in Seq(Int) /\ Len(l) = n /\ \A k \in 1..n : l[k] = k
  <2>1. n >= 1 \/ n = 0
    OBVIOUS
  <2>2. l \in Seq(Int) /\ Len(l) = n
    BY <1>8, <2>1 DEF IsRun
  <2>3. \A k \in 1..n : 1 + k - 1 = k
    OBVIOUS
  <2> QED BY <1>8, <2>2, <2>3 DEF IsRun
<1>13. IsPrefix(kept, l)
  <2>1. Starts(kept, l)
    BY <1>11, <1>12 DEF Starts
  <2> QED BY <1>11, <1>12, <2>1, PrefixStarts
<1>14. CASE kept = <<>>
  <2>1. PICK one : one = <<1>> /\ Len(one) = 1
    <3>1. Len(<<1>>) = 1
      OBVIOUS
    <3> QED BY <3>1
  <2>2. q = 0
    BY <1>11, <1>14
  <2>3. \A i \in 1 + 1..n : i \in 1..n /\ i > 0
    OBVIOUS
  <2>4. \A i \in 1 + 1..n : lines[i] = ""
    BY <1>3, <2>2, <2>3
  <2> QED BY <1>9, <1>10, <1>12, <1>14, <2>1, <2>4
<1>15. CASE kept # <<>>
  <2>1. \A i \in q + 1..n : i \in 1..n /\ i > q
    OBVIOUS
  <2>2. \A i \in q + 1..n : lines[i] = ""
    BY <1>3, <2>1
  <2> QED BY <1>9, <1>10, <1>11, <1>12, <1>13, <1>15, <2>2
<1> QED BY <1>14, <1>15

\* walkDir, handleFiles and handleFileRead, server.go: whatever tree is below the working
\* directory, the page shows each entry in reach that is not pruned, the link of a file
\* leads the viewer back to it, and the lines of the viewer are those of a read.
THEOREM BrowserCorrect == Spec => []BrowserOpens
<1>1. ASSUME Served, Shown("files")
      PROVE  LET row(k) == answer.body[k]
                 levels == Len(request.workdir) + 1 .. Len(request.workdir) + 3
             IN /\ {row(k).path : k \in 1..Len(answer.body)} =
                     {p \in DOMAIN request.disk :
                        /\ IsPrefix(request.workdir, p) /\ Len(p) \in levels
                        /\ \A i \in levels : i <= Len(p) => p[i] \notin Pruned}
                /\ \A k \in 1..Len(answer.body) :
                     IsFile(request.disk, row(k).path) /\ request.workdir # <<>> =>
                       /\ Resolve(request.workdir, row(k).link) = row(k).path
                       /\ Viewed(request.disk, request.workdir, [path |-> row(k).link]).ok
  <2>1. request.kind = "files" /\ request \in Requests /\ answer = Serve(request)
    BY <1>1 DEF Served, Shown, Asked
  <2>2. answer = Browse(request.disk, request.workdir)
    BY <2>1 DEF Serve
  <2>3. IsDisk(request.disk) /\ request.workdir \in Seq(Names)
    BY <2>1, RequestAssumption
  <2>4. PICK disk, workdir : disk = request.disk /\ workdir = request.workdir
    OBVIOUS
  <2>5. PICK l \in Nat : l = Len(workdir)
    BY <2>3, <2>4
  <2>6. PICK w : w = Rows(disk, workdir, 3, Pruned)
    OBVIOUS
  <2>7. PICK body : body = [k \in 1..Len(w) |->
                              [path |-> w[k].path,
                               link |-> IF IsDir(disk, w[k].path) THEN Unset
                                        ELSE Link(workdir, w[k].path)]]
    OBVIOUS
  <2>8. answer.body = body
    BY <2>2, <2>4, <2>6, <2>7 DEF Browse, BrowserDepth
  <2>9. Draws(disk, l + 3, Pruned, workdir, w)
    BY <2>3, <2>4, <2>5, <2>6, RowsDraw
  <2>10. /\ w \in Seq(AllRows(disk))
         /\ \A q \in DOMAIN disk :
              (\E a \in 1..Len(w) : w[a].path = q) <=> Visible(l + 3, Pruned, workdir, q)
    BY <2>9 DEF Draws
  <2>11. PICK n \in Nat : n = Len(w)
    BY <2>10
  <2>12. \A a \in 1..n : w[a].path \in DOMAIN disk
    <3>1. \A row \in AllRows(disk) : row.path \in DOMAIN disk
      BY DEF AllRows
    <3> QED BY <2>10, <2>11, <3>1
  <2>13. /\ Len(body) = n
         /\ \A k \in 1..n : /\ body[k].path = w[k].path
                            /\ body[k].link = IF IsDir(disk, w[k].path) THEN Unset
                                              ELSE Link(workdir, w[k].path)
    BY <2>7, <2>11
  <2>14. {body[k].path : k \in 1..n} =
           {p \in DOMAIN disk : Visible(l + 3, Pruned, workdir, p)}
    BY <2>10, <2>11, <2>12, <2>13
  <2>15. {p \in DOMAIN disk : Visible(l + 3, Pruned, workdir, p)} =
           {p \in DOMAIN disk :
              /\ IsPrefix(workdir, p) /\ Len(p) \in l + 1 .. l + 3
              /\ \A i \in l + 1 .. l + 3 : i <= Len(p) => p[i] \notin Pruned}
    <3>1. ASSUME NEW p \in DOMAIN disk
          PROVE  Visible(l + 3, Pruned, workdir, p)
                   <=> /\ IsPrefix(workdir, p) /\ Len(p) \in l + 1 .. l + 3
                       /\ \A i \in l + 1 .. l + 3 : i <= Len(p) => p[i] \notin Pruned
      <4>1. p \in Seq(Names) /\ workdir \in Seq(Names)
        BY <2>3, <2>4, EscapeIsNoPath
      <4>2. IsPrefix(workdir, p) <=> Starts(workdir, p)
        BY <4>1, PrefixStarts
      <4>3. PICK m \in Nat : m = Len(p)
        BY <4>1
      <4>4. m \in l + 1 .. l + 3 <=> l < m /\ m <= l + 3
        OBVIOUS
      <4>5. ASSUME m <= l + 3
            PROVE  \A i : i \in (l + 1)..m <=> i \in l + 1 .. l + 3 /\ i <= m
        BY <4>5
      <4> QED BY <2>5, <4>2, <4>3, <4>4, <4>5 DEF Visible
    <3> QED BY <3>1
  <2>16. ASSUME NEW k \in 1..n, IsFile(disk, body[k].path), workdir # <<>>
         PROVE  /\ Resolve(workdir, body[k].link) = body[k].path
                /\ Viewed(disk, workdir, [path |-> body[k].link]).ok
    <3>1. PICK path \in DOMAIN disk : path = body[k].path /\ path = w[k].path
      BY <2>12, <2>13
    <3>2. ~ IsDir(disk, path)
      BY <2>16, <3>1 DEF IsDir, IsFile
    <3>3. body[k].link = Link(workdir, path)
      BY <2>13, <3>1, <3>2
    <3>4. Visible(l + 3, Pruned, workdir, path)
      BY <2>10, <2>11, <3>1
    <3>5. path \in Seq(Names) /\ Starts(workdir, path) /\ path # Escape
      BY <2>3, <2>4, <3>4, EscapeIsNoPath DEF Visible
    <3>6. Resolve(workdir, body[k].link) = path
      BY <2>3, <2>4, <2>16, <3>3, <3>5, LinkLeadsBack
    <3>7. PICK cmd : cmd = [path |-> body[k].link]
      OBVIOUS
    <3>8. cmd.path = body[k].link
      BY <3>7
    <3>9. Viewed(disk, workdir, cmd).ok
      BY <2>16, <3>1, <3>5, <3>6, <3>8 DEF Viewed
    <3> QED BY <3>1, <3>6, <3>7, <3>9
  <2>17. /\ {body[k].path : k \in 1..Len(body)} =
              {p \in DOMAIN disk :
                 /\ IsPrefix(workdir, p) /\ Len(p) \in Len(workdir) + 1 .. Len(workdir) + 3
                 /\ \A i \in Len(workdir) + 1 .. Len(workdir) + 3 :
                      i <= Len(p) => p[i] \notin Pruned}
         /\ \A k \in 1..Len(body) :
              IsFile(disk, body[k].path) /\ workdir # <<>> =>
                /\ Resolve(workdir, body[k].link) = body[k].path
                /\ Viewed(disk, workdir, [path |-> body[k].link]).ok
    BY <2>5, <2>13, <2>14, <2>15, <2>16
  <2> QED BY <2>4, <2>8, <2>17
<1>2. ASSUME Served, Shown("view")
      PROVE  LET read == ReadAll(request.disk[Root]) IN
               ~ read.failed =>
                 /\ answer.body = <<1>> \/ IsPrefix(answer.body, read.lines)
                 /\ \A i \in Len(answer.body) + 1..Len(read.lines) : request.disk[Root][i] = ""
  <2>1. request.kind = "view" /\ request \in Requests /\ answer = Serve(request)
        /\ answer.ok /\ ~ answer.truncated
    BY <1>2 DEF Served, Shown, Asked
  <2>2. answer = Viewed(request.disk, request.workdir, request)
    BY <2>1 DEF Serve
  <2>3. IsDisk(request.disk)
    BY <2>1, RequestAssumption
  <2>4. PICK disk, path : disk = request.disk /\ path = Root
    OBVIOUS
  <2>5. /\ IsFile(disk, path)
        /\ answer.body = View(disk, path).lines
        /\ answer.truncated = View(disk, path).truncated
    <3>1. \A code : ~ Failure(code).ok
      BY DEF Failure
    <3>2. PICK shown : shown = [ok |-> TRUE, code |-> "", body |-> View(disk, path).lines,
                                truncated |-> View(disk, path).truncated]
      OBVIOUS
    <3>3. answer = IF path = Escape THEN Failure("PATH_ESCAPE")
                   ELSE IF ~ IsFile(disk, path) THEN Failure("NOT_FOUND") ELSE shown
      BY <2>2, <2>4, <3>2 DEF Viewed, Root
    <3>4. IsFile(disk, path) /\ answer = shown
      BY <2>1, <3>1, <3>3
    <3> QED BY <3>2, <3>4
  <2>6. PICK lines \in Seq(STRING) : lines = disk[path]
    BY <2>3, <2>4, <2>5, FileLines
  <2>7. PICK n \in Nat : n = Len(lines)
    OBVIOUS
  <2>8. n <= MaxView
    <3>1. ~ (n > MaxView)
      BY <2>1, <2>5, <2>6, <2>7 DEF View
    <3> QED BY <3>1, LimitAssumption
  <2>9. ASSUME ~ ReadAll(lines).failed
        PROVE  /\ answer.body = <<1>> \/ IsPrefix(answer.body, ReadAll(lines).lines)
               /\ \A i \in Len(answer.body) + 1..Len(ReadAll(lines).lines) : lines[i] = ""
    <3>1. Fits(lines)
      BY <2>9 DEF ReadAll
    <3>2. Len(lines) <= MaxView
      BY <2>7, <2>8
    <3>3. /\ View(disk, path).lines = <<1>> \/ IsPrefix(View(disk, path).lines, ReadAll(lines).lines)
          /\ \A i \in Len(View(disk, path).lines) + 1..Len(ReadAll(lines).lines) : lines[i] = ""
      BY <2>6, <3>1, <3>2, ViewShows
    <3> QED BY <2>5, <3>3
  <2> QED BY <2>4, <2>6, <2>9
<1>3. Served => BrowserOpens
  BY <1>1, <1>2 DEF BrowserOpens
<1> QED BY <1>3, AlwaysServed, PTL

================================================================================
