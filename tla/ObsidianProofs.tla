---------------------------- MODULE ObsidianProofs ----------------------------
(* Proofs about Obsidian, for any number of operations, presses of Publish,     *)
(* forms, vaults and files.                                                   *)
EXTENDS Obsidian, FiniteSetTheorems, SequenceTheorems, TLAPS

USE FormAssumption, GoroutineAssumption, ConfigAssumption, ValueAssumption, ClockAssumption

Fields == Vaults \cup {Unset} \cup Files \cup Modes
Inside == {"check", "separator", "mark", "unlock"}

\* What a copy of the configuration that is not complete yet looks like.
Begun(g) ==
  \/ obs[g] = <<>>
  \/ \E a \in Vaults \cup {Unset} : obs[g] = <<a>>
  \/ \E a \in Vaults \cup {Unset}, b \in Files : obs[g] = <<a, b>>

\* A goroutine past its copy has a vault: writeObsidian has looked, and no form
\* empties the field again; a publisher without one has returned.  Only mode append
\* goes through the Once.
CopyInv ==
  /\ obs \in [Goroutines -> Seq(Fields)]
  /\ \A g \in Goroutines :
       /\ pc[g] = "idle" => obs[g] = <<>>
       /\ pc[g] = "copy" => Begun(g)
       /\ pc[g] \notin {"idle", "copy", "done"} => obs[g] \in Obs /\ obs[g][1] # Unset
  /\ \A w \in Writers :
       /\ pc[w] # "reset"
       /\ pc[w] = "copy" => cfg[1] # Unset /\ (obs[w] # <<>> => obs[w][1] # Unset)
       /\ pc[w] = "done" /\ obs[w] # <<>> => obs[w] \in Obs /\ obs[w][1] # Unset
       /\ pc[w] \in Inside \cup {"once", "lock"} => obs[w][3] = "append"
  /\ \A p \in Publishers : pc[p] \in {"idle", "copy", "separator", "reset", "done"}

TypeInv == TypeOK /\ CopyInv

\* One field of a configuration changes at a time.
LEMMA FieldSet ==
  ASSUME NEW A, NEW B, NEW C, NEW x \in A \X B \X C, NEW y
  PROVE  /\ x[1] \in A /\ x[2] \in B /\ x[3] \in C
         /\ y \in A => [x EXCEPT ![1] = y] \in A \X B \X C /\ [x EXCEPT ![1] = y][1] = y
         /\ y \in B => [x EXCEPT ![2] = y] \in A \X B \X C /\ [x EXCEPT ![2] = y][1] = x[1]
         /\ y \in C => [x EXCEPT ![3] = y] \in A \X B \X C /\ [x EXCEPT ![3] = y][1] = x[1]
<1>1. PICK a \in A, b \in B, c \in C : x = <<a, b, c>>
  OBVIOUS
<1>2. /\ [x EXCEPT ![1] = y] = <<y, b, c>>
      /\ [x EXCEPT ![2] = y] = <<a, y, c>>
      /\ [x EXCEPT ![3] = y] = <<a, b, y>>
  BY <1>1
<1> QED BY <1>1, <1>2

\* A journal nobody has written to yet is well typed.
LEMMA InitTyped == Init => TypeInv
<1> SUFFICES ASSUME Init PROVE TypeInv
  OBVIOUS
<1>1. <<>> \in Seq(Items) /\ <<>> \in Seq(Fields)
  OBVIOUS
<1>2. TypeOK
  <2>1. journal \in [Names -> Seq(Items)]
    BY <1>1 DEF Init
  <2>2. /\ filled \in [Forms -> 0..3] /\ now \in 1..MaxSecs
        /\ stamped \in [Writers -> 0..MaxSecs]
        /\ cfg \in Obs
        /\ pc \in [Goroutines -> {"idle", "copy", "once", "lock", "check", "separator",
                                  "mark", "unlock", "entry", "reset", "done"}]
        /\ \A g \in Goroutines : pc[g] = "idle"
    BY DEF Init
  <2> QED BY <2>1, <2>2 DEF Init, TypeOK
<1>3. CopyInv
  <2> PICK S : S = Seq(Fields)
    OBVIOUS
  <2> QED BY <1>1 DEF Init, CopyInv, Begun, Inside, Goroutines
<1> QED BY <1>2, <1>3 DEF TypeInv

\* A step of one goroutine that leaves every copy and the configuration alone.
LEMMA MoveTyped ==
  ASSUME TypeInv, NEW g \in Goroutines, NEW from, NEW to, Goto(g, from, to),
         UNCHANGED <<obs, configVars, now>>, journal' \in [Names -> Seq(Items)],
         stamped' \in [Writers -> 0..MaxSecs],
         done' \in BOOLEAN, locked' \in BOOLEAN, crashed' \in BOOLEAN,
         \/ from = "idle" /\ to = "copy" /\ (g \in Writers => cfg[1] # Unset)
         \/ from = "idle" /\ to = "done"
         \/ g \in Writers /\ from \in Inside \cup {"once", "lock"}
              /\ to \in Inside \cup {"lock", "entry"}
         \/ g \in Writers /\ from = "entry" /\ to = "done"
         \/ g \in Publishers /\ from = "separator" /\ to = "reset"
         \/ g \in Publishers /\ from = "reset" /\ to = "done"
  PROVE  TypeInv'
<1>0. /\ pc[g] = from /\ pc' = [pc EXCEPT ![g] = to] /\ cfg' = cfg /\ filled' = filled
      /\ to \in {"copy", "lock", "check", "separator",
                 "mark", "unlock", "entry", "reset", "done"}
      /\ from # "copy" /\ from # "done"
      /\ to \notin {"copy", "done"} => from \notin {"idle", "copy", "done"}
  BY DEF Goto, configVars, Inside
<1>1. TypeOK'
  <2> PICK S : S = Seq(Items)
    OBVIOUS
  <2>1. \A h \in Goroutines : pc'[h] \notin {"idle", "copy", "done"} => obs'[h] \in Obs'
    BY <1>0 DEF TypeInv, TypeOK, Obs
  <2> QED BY <1>0, <2>1 DEF TypeInv, TypeOK, Obs
<1>2. CopyInv'
  <2> PICK S : S = Seq(Fields)
    OBVIOUS
  <2> USE <1>0 DEF TypeInv, TypeOK, CopyInv
  <2>1. obs' \in [Goroutines -> Seq(Fields)]
    OBVIOUS
  <2>2. ASSUME NEW h \in Goroutines
        PROVE  /\ pc'[h] = "idle" => obs'[h] = <<>>
               /\ pc'[h] = "copy" => Begun(h)'
               /\ pc'[h] \notin {"idle", "copy", "done"} => obs'[h] \in Obs /\ obs'[h][1] # Unset
    <3>1. CASE h = g
      <4>1. pc'[h] = to /\ obs'[h] = obs[h]
        BY <3>1
      <4>2. CASE from = "idle"
        BY <3>1, <4>1, <4>2 DEF Begun, Inside
      <4>3. CASE from # "idle"
        BY <3>1, <4>1, <4>3 DEF Inside
      <4> QED BY <4>2, <4>3
    <3>2. CASE h # g
      BY <3>2 DEF Begun
    <3> QED BY <3>1, <3>2
  <2>3. ASSUME NEW w \in Writers
        PROVE  /\ pc'[w] # "reset"
               /\ pc'[w] = "copy" => cfg'[1] # Unset /\ (obs'[w] # <<>> => obs'[w][1] # Unset)
               /\ pc'[w] = "done" /\ obs'[w] # <<>> => obs'[w] \in Obs /\ obs'[w][1] # Unset
               /\ pc'[w] \in Inside \cup {"once", "lock"} => obs'[w][3] = "append"
    <3>0. w \in Goroutines
      BY DEF Goroutines
    <3>1. CASE w = g
      <4>1. pc'[w] = to /\ obs'[w] = obs[w] /\ g \notin Publishers
        BY <3>0, <3>1
      <4>2. CASE from = "idle"
        BY <3>0, <3>1, <4>1, <4>2 DEF Inside
      <4>3. CASE from # "idle"
        <5>1. obs[w] \in Obs /\ obs[w][1] # Unset
          BY <3>0, <3>1, <4>3
        <5>2. to \in Inside \cup {"lock"} => obs[w][3] = "append"
          BY <3>1, <4>1, <4>3 DEF Inside
        <5>3. to \in Inside \cup {"lock", "entry"} \/ to = "done"
          BY <4>1, <4>3
        <5> QED BY <4>1, <5>1, <5>2, <5>3 DEF Inside
      <4> QED BY <4>2, <4>3
    <3>2. CASE w # g
      BY <3>0, <3>2
    <3> QED BY <3>1, <3>2
  <2>4. \A p \in Publishers : pc'[p] \in {"idle", "copy", "separator", "reset", "done"}
    BY DEF Goroutines
  <2> HIDE DEF TypeInv, TypeOK
  <2> QED BY <2>1, <2>2, <2>3, <2>4
<1> QED BY <1>1, <1>2 DEF TypeInv

\* The first and the second field of a copy.
LEMMA FieldsAppended ==
  ASSUME NEW a, NEW b
  PROVE  /\ Len(<<>>) = 0 /\ Len(<<a>>) = 1 /\ Len(<<a, b>>) = 2
         /\ Append(<<>>, a) = <<a>> /\ Append(<<a>>, b) = <<a, b>>
<1> DEFINE S == {a, b}
           t == Append(<<a>>, b)
<1>1. Append(<<>>, a) = <<a>> /\ Len(<<>>) = 0 /\ Len(<<a>>) = 1
  OBVIOUS
<1>2. t \in Seq(S) /\ Len(t) = 2 /\ t[1] = a /\ t[2] = b
  OBVIOUS
<1>3. <<a, b>> \in Seq(S) /\ Len(<<a, b>>) = 2
  OBVIOUS
<1>4. \A i \in 1..2 : t[i] = <<a, b>>[i]
  BY <1>2
<1>5. t = <<a, b>>
  <2> HIDE DEF t, S
  <2> QED BY <1>2, <1>3, <1>4, SeqEqual
<1> QED BY <1>1, <1>3, <1>5

\* The third field.
LEMMA ThirdAppended ==
  ASSUME NEW a, NEW b, NEW c
  PROVE  Append(<<a, b>>, c) = <<a, b, c>>
<1> DEFINE S == {a, b, c}
           t == Append(<<a, b>>, c)
<1>1. t \in Seq(S) /\ Len(t) = 3 /\ t[1] = a /\ t[2] = b /\ t[3] = c
  OBVIOUS
<1>2. <<a, b, c>> \in Seq(S) /\ Len(<<a, b, c>>) = 3
  OBVIOUS
<1>3. \A i \in 1..3 : t[i] = <<a, b, c>>[i]
  BY <1>1
<1>4. t = <<a, b, c>>
  <2> HIDE DEF t, S
  <2> QED BY <1>1, <1>2, <1>3, SeqEqual
<1> QED BY <1>4

\* One field more of a copy: the copy stays the beginning of a configuration, and
\* the third field completes it.
LEMMA CopyTyped ==
  ASSUME TypeInv, NEW g \in Goroutines, NEW next, Copy(g, next),
         obs[g] # <<>> /\ Len(obs[g]) + 1 >= 3 =>
           \/ g \in Writers /\ next = IF cfg[3] = "append" THEN "once" ELSE "entry"
           \/ g \in Publishers /\ next = IF obs[g][1] = Unset THEN "done" ELSE "separator"
  PROVE  TypeInv'
<1> DEFINE l == Len(obs[g])
           to == IF l + 1 < 3 THEN "copy" ELSE next
<1>0. /\ pc[g] = "copy" /\ pc' = [pc EXCEPT ![g] = to]
      /\ obs' = [obs EXCEPT ![g] = Append(@, cfg[l + 1])]
      /\ UNCHANGED <<cfg, filled, done, locked, journal, now, stamped, crashed>>
  BY DEF Copy, Goto, configVars, onceVars
<1>1. /\ cfg[1] \in Vaults \cup {Unset} /\ cfg[2] \in Files /\ cfg[3] \in Modes
  BY FieldSet DEF TypeInv, TypeOK, Obs
<1>2. /\ obs \in [Goroutines -> Seq(Fields)] /\ Begun(g)
      /\ g \in Writers => cfg[1] # Unset /\ (obs[g] # <<>> => obs[g][1] # Unset)
  BY <1>0 DEF TypeInv, CopyInv
<1>3. /\ to \in {"copy", "once", "entry", "separator", "done"}
      /\ to = "copy" => obs'[g] \in Seq(Fields) /\ Begun(g)'
      /\ to # "copy" => obs'[g] \in Obs /\ obs'[g] \in Seq(Fields)
      /\ g \in Writers => to # "separator" /\ obs'[g][1] # Unset
      /\ g \in Publishers => to \in {"copy", "separator", "done"}
      /\ to \notin {"copy", "done"} => obs'[g][1] # Unset
      /\ to = "once" => obs'[g][3] = "append"
  <2> PICK S : S = Seq(Fields)
    OBVIOUS
  <2>0. obs'[g] = Append(obs[g], cfg[l + 1])
    BY <1>0, <1>2
  <2>1. CASE obs[g] = <<>>
    <3>1. l = 0 /\ to = "copy" /\ obs'[g] = <<cfg[1]>>
      BY <2>0, <2>1
    <3>2. <<cfg[1]>> \in Seq(Fields)
      BY <1>1 DEF Fields
    <3> QED BY <1>1, <1>2, <3>1, <3>2 DEF Begun
  <2>2. ASSUME NEW a \in Vaults \cup {Unset}, obs[g] = <<a>> PROVE <1>3!:
    <3>0. l = 1
      BY <2>2, FieldsAppended
    <3>1. l = 1 /\ to = "copy" /\ obs'[g] = <<a, cfg[2]>>
      <4>1. obs'[g] = Append(<<a>>, cfg[2])
        BY <2>0, <2>2, <3>0
      <4>2. Append(<<a>>, cfg[2]) = <<a, cfg[2]>>
        BY FieldsAppended
      <4> HIDE DEF l
      <4> QED BY <3>0, <4>1, <4>2
    <3>2. <<a, cfg[2]>> \in Seq(Fields)
      BY <1>1 DEF Fields
    <3> QED BY <1>1, <1>2, <2>2, <3>1, <3>2 DEF Begun
  <2>3. ASSUME NEW a \in Vaults \cup {Unset}, NEW b \in Files, obs[g] = <<a, b>> PROVE <1>3!:
    <3>0. l = 2
      BY <2>3, FieldsAppended
    <3>1. l = 2 /\ to = next /\ obs'[g] = <<a, b, cfg[3]>> /\ obs[g] # <<>> /\ obs[g][1] = a
      <4>1. obs'[g] = Append(<<a, b>>, cfg[3])
        BY <2>0, <2>3, <3>0
      <4>2. <<a, b>> # <<>> /\ <<a, b>>[1] = a
        OBVIOUS
      <4>3. Append(<<a, b>>, cfg[3]) = <<a, b, cfg[3]>>
        BY ThirdAppended
      <4>4. to = next
        BY <3>0
      <4> HIDE DEF l, to
      <4> QED BY <2>3, <3>0, <4>1, <4>2, <4>3, <4>4
    <3>2. <<a, b, cfg[3]>> \in Seq(Fields) /\ <<a, b, cfg[3]>> \in Obs
      BY <1>1 DEF Fields, Obs
    <3> QED BY <1>1, <1>2, <2>3, <3>1, <3>2
  <2> QED BY <1>2, <2>1, <2>2, <2>3 DEF Begun
<1> HIDE DEF l, to
<1>4. TypeOK'
  <2> PICK S : S = Seq(Items)
    OBVIOUS
  <2>1. ASSUME NEW h \in Goroutines, pc'[h] \notin {"idle", "copy", "done"}
        PROVE  obs'[h] \in Obs
    <3>1. CASE h = g
      BY <1>0, <1>3, <2>1, <3>1 DEF TypeInv, TypeOK
    <3>2. CASE h # g
      BY <1>0, <1>2, <2>1, <3>2 DEF TypeInv, TypeOK
    <3> QED BY <3>1, <3>2
  <2>2. pc' \in [Goroutines -> {"idle", "copy", "once", "lock", "check", "separator",
                                "mark", "unlock", "entry", "reset", "done"}]
    BY <1>0, <1>3 DEF TypeInv, TypeOK
  <2>3. journal' \in [Names -> Seq(Items)]
    BY <1>0 DEF TypeInv, TypeOK
  <2> QED BY <1>0, <2>1, <2>2, <2>3 DEF TypeInv, TypeOK, Obs
<1>5. CopyInv'
  <2> PICK S : S = Seq(Fields)
    OBVIOUS
  <2>0. /\ pc'[g] = to /\ \A h \in Goroutines \ {g} : pc'[h] = pc[h] /\ obs'[h] = obs[h]
        /\ cfg' = cfg
    BY <1>0, <1>2 DEF TypeInv, TypeOK
  <2>1. obs' \in [Goroutines -> S]
    BY <1>0, <1>2, <1>3
  <2>2. ASSUME NEW h \in Goroutines
        PROVE  /\ pc'[h] = "idle" => obs'[h] = <<>>
               /\ pc'[h] = "copy" => Begun(h)'
               /\ pc'[h] \notin {"idle", "copy", "done"} => obs'[h] \in Obs /\ obs'[h][1] # Unset
    <3>1. CASE h = g
      BY <1>3, <2>0, <3>1
    <3>2. CASE h # g
      BY <2>0, <3>2 DEF Begun, TypeInv, CopyInv
    <3> QED BY <3>1, <3>2
  <2>3. ASSUME NEW w \in Writers
        PROVE  /\ pc'[w] # "reset"
               /\ pc'[w] = "copy" => cfg'[1] # Unset /\ (obs'[w] # <<>> => obs'[w][1] # Unset)
               /\ pc'[w] = "done" /\ obs'[w] # <<>> => obs'[w] \in Obs /\ obs'[w][1] # Unset
               /\ pc'[w] \in Inside \cup {"once", "lock"} => obs'[w][3] = "append"
    <3>0. w \in Goroutines
      BY DEF Goroutines
    <3>1. CASE w = g
      BY <1>2, <1>3, <2>0, <3>1 DEF Inside
    <3>2. CASE w # g
      BY <2>0, <3>0, <3>2 DEF TypeInv, CopyInv
    <3> QED BY <3>1, <3>2
  <2>4. ASSUME NEW p \in Publishers
        PROVE  pc'[p] \in {"idle", "copy", "separator", "reset", "done"}
    BY <1>3, <2>0 DEF TypeInv, CopyInv, Goroutines
  <2> QED BY <2>1, <2>2, <2>3, <2>4 DEF CopyInv
<1> QED BY <1>4, <1>5 DEF TypeInv

\* The content of a file as a set: opened with O_APPEND it keeps what it has.
LEMMA ContentAppended ==
  ASSUME NEW S, NEW s \in Seq(S), NEW x \in S
  PROVE  Append(s, x) \in Seq(S) /\ ToSet(Append(s, x)) = ToSet(s) \cup {x}
<1>1. /\ Append(s, x) \in Seq(S) /\ Len(Append(s, x)) = Len(s) + 1
      /\ \A i \in 1..Len(s) : Append(s, x)[i] = s[i]
      /\ Append(s, x)[Len(s) + 1] = x /\ Len(s) \in Nat
  BY AppendProperties
<1>2. DOMAIN s = 1..Len(s) /\ DOMAIN Append(s, x) = 1..(Len(s) + 1)
  BY <1>1
<1>3. DOMAIN Append(s, x) = DOMAIN s \cup {Len(s) + 1}
  BY <1>1, <1>2
<1> QED BY <1>1, <1>2, <1>3 DEF ToSet

\* A file with one item, and an empty one.
LEMMA ContentSet ==
  ASSUME NEW S, NEW x \in S
  PROVE  <<x>> \in Seq(S) /\ ToSet(<<x>>) = {x} /\ ToSet(<<>>) = {}
BY DEF ToSet

\* Every name a goroutine past its copy writes to is the name of a file.
LEMMA FileNamed ==
  ASSUME TypeInv, NEW g \in Goroutines, obs[g] \in Obs, obs[g][1] # Unset, NEW sec \in 0..MaxSecs
  PROVE  File(g, sec) \in Names /\ File(g, sec)[3] = sec
BY FieldSet DEF File, Names, Obs

\* An append to a file leaves every file well typed.
LEMMA AppendTyped ==
  ASSUME TypeInv, NEW n \in Names, NEW x \in Items
  PROVE  /\ Appended(n, x) \in [Names -> Seq(Items)]
         /\ \A m \in Names : ToSet(Appended(n, x)[m]) =
              IF m = n THEN ToSet(journal[m]) \cup {x} ELSE ToSet(journal[m])
<1> PICK S : S = Items
  OBVIOUS
<1>1. journal \in [Names -> Seq(S)] /\ x \in S
  BY DEF TypeInv, TypeOK
<1>2. Append(journal[n], x) \in Seq(S) /\ ToSet(Append(journal[n], x)) = ToSet(journal[n]) \cup {x}
  BY <1>1, ContentAppended
<1> QED BY <1>1, <1>2 DEF Appended

\* A field of the form that is set stays set.
LEMMA FillTyped == ASSUME TypeInv, NEW f \in Forms, Fill(f) PROVE TypeInv'
<1> DEFINE i == filled[f] + 1
<1>0. /\ filled' = [filled EXCEPT ![f] = @ + 1] /\ filled'[f] = i /\ i \in 1..3
      /\ cfg' = IF FormOf[f][i] = Unset THEN cfg ELSE [cfg EXCEPT ![i] = FormOf[f][i]]
      /\ UNCHANGED <<pc, obs, done, locked, journal, now, stamped, crashed>>
  BY DEF Fill, TypeInv, TypeOK, onceVars
<1> HIDE DEF i
<1>1. /\ FormOf[f][1] \in Vaults \cup {Unset}
      /\ FormOf[f][2] # Unset => FormOf[f][2] \in Files
      /\ FormOf[f][3] # Unset => FormOf[f][3] \in Modes
  <2>1. FormOf[f] \in (Vaults \cup {Unset}) \X (Files \cup {Unset}) \X (Modes \cup {Unset})
    OBVIOUS
  <2> QED BY <2>1, FieldSet
<1>2. cfg' \in Obs /\ (cfg[1] # Unset => cfg'[1] # Unset)
  <2>1. cfg \in (Vaults \cup {Unset}) \X Files \X Modes
    BY DEF TypeInv, TypeOK, Obs
  <2>2. CASE FormOf[f][i] = Unset
    BY <1>0, <2>1, <2>2 DEF Obs
  <2>3. CASE FormOf[f][i] # Unset /\ i = 1
    BY <1>0, <1>1, <2>1, <2>3, FieldSet DEF Obs
  <2>4. CASE FormOf[f][i] # Unset /\ i = 2
    BY <1>0, <1>1, <2>1, <2>4, FieldSet DEF Obs
  <2>5. CASE FormOf[f][i] # Unset /\ i = 3
    BY <1>0, <1>1, <2>1, <2>5, FieldSet DEF Obs
  <2> QED BY <1>0, <2>2, <2>3, <2>4, <2>5
<1>3. TypeOK'
  <2> PICK S : S = Seq(Items)
    OBVIOUS
  <2>1. filled' \in [Forms -> 0..3]
    BY <1>0 DEF TypeInv, TypeOK
  <2> QED BY <1>0, <1>2, <2>1 DEF TypeInv, TypeOK, Obs
<1>4. CopyInv'
  <2> PICK S : S = Seq(Fields)
    OBVIOUS
  <2> QED BY <1>0, <1>2 DEF TypeInv, CopyInv, Begun
<1> QED BY <1>3, <1>4 DEF TypeInv

\* The second of an entry is one of the clock, or 0.
LEMMA SecondTyped == ASSUME TypeInv, NEW w PROVE Second(w) \in 0..MaxSecs
BY DEF Second, TypeInv, TypeOK

\* The entry of an operation, or the separator of the Once or of Publish, leaves every
\* file well typed.
LEMMA WriteTyped ==
  ASSUME TypeInv, NEW g \in Goroutines,
         (g \in Writers /\ (WriteEntry(g) \/ WriteHeader(g)))
           \/ (g \in Publishers /\ WritePublished(g))
  PROVE  journal' \in [Names -> Seq(Items)]
<1>0. /\ pc[g] \notin {"idle", "copy", "done"} /\ 0 \in 0..MaxSecs /\ now \in 0..MaxSecs
      /\ now \in 1..MaxSecs
  BY DEF WriteEntry, WriteHeader, WritePublished, WriteSeparator, Goto, TypeInv, TypeOK
<1>1. File(g, 0) \in Names /\ File(g, now) \in Names
  BY <1>0, FileNamed DEF TypeInv, CopyInv
<1>2. /\ <<"entry", g>> \in Items /\ <<"auto", g>> \in Items /\ <<"published", g>> \in Items
  BY DEF Items
<1>3. CASE (g \in Writers /\ WriteHeader(g)) \/ (g \in Publishers /\ WritePublished(g))
  BY <1>1, <1>2, <1>3, AppendTyped DEF WriteHeader, WritePublished, WriteSeparator
<1>4. CASE WriteEntry(g) /\ obs[g][3] # "new"
  BY <1>1, <1>2, <1>4, AppendTyped DEF WriteEntry
<1>5. CASE WriteEntry(g) /\ obs[g][3] = "new"
  <2> PICK S : S = Seq(Items)
    OBVIOUS
  <2>1. <<<<"entry", g>>>> \in S
    BY <1>2, ContentSet
  <2>2. journal' = [journal EXCEPT ![File(g, now)] = <<<<"entry", g>>>>]
    BY <1>5 DEF WriteEntry
  <2> QED BY <2>1, <2>2 DEF TypeInv, TypeOK
<1> QED BY <1>3, <1>4, <1>5

\* Every step of the goroutines, the forms and the clock keeps the types.
LEMMA TypeStep == TypeInv /\ [Next]_vars => TypeInv'
<1> SUFFICES ASSUME TypeInv, [Next]_vars PROVE TypeInv'
  OBVIOUS
<1>0. /\ journal \in [Names -> Seq(Items)] /\ done \in BOOLEAN /\ locked \in BOOLEAN
      /\ crashed \in BOOLEAN /\ cfg[3] \in Modes /\ stamped \in [Writers -> 0..MaxSecs]
  BY FieldSet DEF TypeInv, TypeOK, Obs
<1>1. ASSUME NEW w \in Writers, Spawn(w) PROVE TypeInv'
  <2>1. CASE cfg[1] = Unset
    BY <1>0, <1>1, <2>1, MoveTyped DEF Spawn, Goroutines, onceVars
  <2>2. CASE cfg[1] # Unset
    BY <1>0, <1>1, <2>2, MoveTyped DEF Spawn, Goroutines, onceVars
  <2> QED BY <2>1, <2>2
<1>2. ASSUME NEW w \in Writers, CopyConfig(w) PROVE TypeInv'
  BY <1>2, CopyTyped DEF CopyConfig, Goroutines
<1>3. ASSUME NEW w \in Writers, OnceDo(w) PROVE TypeInv'
  <2> DEFINE to == IF done THEN "entry" ELSE "lock"
  <2>1. to \in {"lock", "entry"} /\ Goto(w, "once", to)
    BY <1>3 DEF OnceDo
  <2> HIDE DEF to
  <2> QED BY <1>0, <1>3, <2>1, MoveTyped DEF OnceDo, Goroutines, onceVars, Inside
<1>4. ASSUME NEW w \in Writers, Lock(w) PROVE TypeInv'
  BY <1>0, <1>4, MoveTyped DEF Lock, Goroutines, Inside
<1>5. ASSUME NEW w \in Writers, Check(w) PROVE TypeInv'
  <2> DEFINE to == IF done THEN "unlock" ELSE "separator"
  <2>1. to \in {"unlock", "separator"} /\ Goto(w, "check", to)
    BY <1>5 DEF Check
  <2> HIDE DEF to
  <2> QED BY <1>0, <1>5, <2>1, MoveTyped DEF Check, Goroutines, onceVars, Inside
<1>6. ASSUME NEW w \in Writers, WriteHeader(w) PROVE TypeInv'
  <2>1. journal' \in [Names -> Seq(Items)]
    BY <1>6, WriteTyped DEF Goroutines
  <2> QED BY <1>0, <1>6, <2>1, MoveTyped
          DEF WriteHeader, WriteSeparator, Goroutines, onceVars, Inside
<1>7. ASSUME NEW w \in Writers, Mark(w) PROVE TypeInv'
  BY <1>0, <1>7, MoveTyped DEF Mark, Goroutines, Inside
<1>8. ASSUME NEW w \in Writers, Unlock(w) PROVE TypeInv'
  <2>1. crashed' \in BOOLEAN
    BY <1>8 DEF Unlock
  <2> QED BY <1>0, <1>8, <2>1, MoveTyped DEF Unlock, Goroutines, Inside
<1>9. ASSUME NEW w \in Writers, WriteEntry(w) PROVE TypeInv'
  <2>1. journal' \in [Names -> Seq(Items)]
    BY <1>9, WriteTyped DEF Goroutines
  <2>2. Goto(w, "entry", "done") /\ UNCHANGED <<obs, configVars, onceVars, now, crashed>>
    BY <1>9 DEF WriteEntry
  <2>3. stamped' \in [Writers -> 0..MaxSecs]
    BY <1>0, <1>9, SecondTyped DEF WriteEntry
  <2> QED BY <1>0, <2>1, <2>2, <2>3, MoveTyped DEF Goroutines, onceVars
<1>10. ASSUME NEW p \in Publishers, Press(p) PROVE TypeInv'
  BY <1>0, <1>10, MoveTyped DEF Press, Goroutines, onceVars
<1>11. ASSUME NEW p \in Publishers, CopyToPublish(p) PROVE TypeInv'
  BY <1>11, CopyTyped DEF CopyToPublish, Goroutines
<1>12. ASSUME NEW p \in Publishers, WritePublished(p) PROVE TypeInv'
  <2>1. journal' \in [Names -> Seq(Items)]
    BY <1>12, WriteTyped DEF Goroutines
  <2> QED BY <1>0, <1>12, <2>1, MoveTyped DEF WritePublished, WriteSeparator, Goroutines, onceVars
<1>13. ASSUME NEW p \in Publishers, Reset(p) PROVE TypeInv'
  BY <1>0, <1>13, MoveTyped DEF Reset, Goroutines
<1>14. ASSUME NEW f \in Forms, Fill(f) PROVE TypeInv'
  BY <1>14, FillTyped
<1>15. CASE Tick \/ UNCHANGED vars
  <2>1. /\ UNCHANGED <<configVars, pc, obs, onceVars, journal, stamped, crashed>>
        /\ now' \in 1..MaxSecs
    BY <1>15 DEF Tick, vars, TypeInv, TypeOK
  <2>2. TypeOK'
    <3> PICK S : S = Seq(Items)
      OBVIOUS
    <3> QED BY <2>1 DEF TypeInv, TypeOK, configVars, onceVars, Obs
  <2>3. CopyInv'
    <3> PICK S : S = Seq(Fields)
      OBVIOUS
    <3> QED BY <2>1 DEF TypeInv, CopyInv, configVars, Begun
  <2> QED BY <2>2, <2>3 DEF TypeInv
<1> QED BY <1>1, <1>2, <1>3, <1>4, <1>5, <1>6, <1>7, <1>8, <1>9, <1>10, <1>11,
           <1>12, <1>13, <1>14, <1>15 DEF Next, Work, Publish

\* Every reachable state of the journal is well typed; above all, no goroutine works
\* with a half-copied or empty configuration once it has gone past the copy.
THEOREM TypeCorrect == SafeSpec => []TypeOK
<1>1. TypeInv => TypeOK
  BY DEF TypeInv
<1> QED BY <1>1, InitTyped, TypeStep, PTL DEF SafeSpec
-------------------------------------------------------------------------------
(* What is in the files, and who wrote it.                                     *)

Content(n) == ToSet(journal[n])

\* A step that appends x to the file n, and one that replaces the file by it.
Adds(n, x) ==
  \A m \in Names : Content(m)' = IF m = n THEN Content(m) \cup {x} ELSE Content(m)
Replaces(n, x) == \A m \in Names : Content(m)' = IF m = n THEN {x} ELSE Content(m)

\* An append changes one file, and of it only what is added.
LEMMA FileAppended ==
  ASSUME TypeInv, NEW n \in Names, NEW x \in Items, journal' = Appended(n, x)
  PROVE  Adds(n, x) /\ x \in Content(n)'
<1>1. \A m \in Names : ToSet(Appended(n, x)[m]) =
        IF m = n THEN ToSet(journal[m]) \cup {x} ELSE ToSet(journal[m])
  BY AppendTyped
<1>2. Adds(n, x)
  BY <1>1 DEF Adds, Content
<1> QED BY <1>2 DEF Adds

\* An entry is in the file its goroutine has copied the name of, in mode new in a file of
\* its second and otherwise in the journal itself; separators are in journals.
JournalInv ==
  \A n \in Names, g \in Goroutines :
    /\ <<"entry", g>> \in Content(n) =>
         /\ g \in Writers /\ pc[g] = "done" /\ obs[g] # <<>>
         /\ n = File(g, n[3]) /\ (n[3] # 0 <=> obs[g][3] = "new")
    /\ <<"auto", g>> \in Content(n) =>
         g \in Writers /\ n[3] = 0 /\ pc[g] \in {"mark", "unlock", "entry", "done"}
    /\ <<"published", g>> \in Content(n) =>
         g \in Publishers /\ n[3] = 0 /\ pc[g] \in {"reset", "done"}

\* The entry of an operation that is done is in the journal; in mode new an entry, its own
\* or another, is in the file of the second in which it was written.
EntryInv ==
  \A w \in Writers : pc[w] = "done" /\ obs[w] # <<>> =>
    \/ obs[w][3] # "new" /\ stamped[w] = 0 /\ <<"entry", w>> \in Content(File(w, 0))
    \/ obs[w][3] = "new" /\ \E v \in Writers : <<"entry", v>> \in Content(File(w, stamped[w]))

FilesInv == TypeInv /\ JournalInv /\ EntryInv

\* A goroutine that has ended stays ended, and none changes its copy or goes back.
LEMMA Onwards ==
  ASSUME TypeInv, [Next]_vars, NEW g \in Goroutines
  PROVE  /\ pc[g] = "done" => pc'[g] = "done"
         /\ pc[g] \notin {"idle", "copy"} => obs'[g] = obs[g]
         /\ pc[g] \in {"mark", "unlock", "entry", "done"} =>
              pc'[g] \in {"mark", "unlock", "entry", "done"}
         /\ pc[g] \in {"reset", "done"} => pc'[g] \in {"reset", "done"}
         /\ g \in Writers /\ pc'[g] = "done" /\ obs'[g] # <<>> =>
              pc[g] = "done" \/ (pc[g] = "entry" /\ WriteEntry(g))
<1> DEFINE Goal ==
      /\ pc[g] = "done" => pc'[g] = "done"
      /\ pc[g] \notin {"idle", "copy"} => obs'[g] = obs[g]
      /\ pc[g] \in {"mark", "unlock", "entry", "done"} =>
           pc'[g] \in {"mark", "unlock", "entry", "done"}
      /\ pc[g] \in {"reset", "done"} => pc'[g] \in {"reset", "done"}
      /\ g \in Writers /\ pc'[g] = "done" /\ obs'[g] # <<>> =>
           pc[g] = "done" \/ (pc[g] = "entry" /\ WriteEntry(g))
<1>0. /\ DOMAIN pc = Goroutines /\ DOMAIN obs = Goroutines
      /\ pc[g] = "idle" => obs[g] = <<>>
  BY DEF TypeInv, TypeOK, CopyInv
<1>1. ASSUME NEW w \in Writers, Spawn(w) \/ OnceDo(w) PROVE Goal
  BY <1>0, <1>1 DEF Spawn, OnceDo, Goto
<1>2. ASSUME NEW w \in Writers, Lock(w) \/ Check(w) \/ WriteHeader(w) PROVE Goal
  BY <1>0, <1>2 DEF Lock, Check, WriteHeader, WriteSeparator, Goto
<1>3. ASSUME NEW w \in Writers, Mark(w) \/ Unlock(w) PROVE Goal
  BY <1>0, <1>3 DEF Mark, Unlock, Goto
<1>4. ASSUME NEW w \in Writers, WriteEntry(w) PROVE Goal
  <2>1. pc[w] = "entry" /\ pc' = [pc EXCEPT ![w] = "done"] /\ obs' = obs
    BY <1>4 DEF WriteEntry, Goto
  <2> QED BY <1>0, <1>4, <2>1
<1>5. ASSUME NEW p \in Publishers, Press(p) \/ WritePublished(p) \/ Reset(p) PROVE Goal
  BY <1>0, <1>5 DEF Press, WritePublished, WriteSeparator, Reset, Goto
<1>6. ASSUME NEW h \in Goroutines, NEW next, Copy(h, next),
             h \in Writers => next # "done" /\ next # "reset"
      PROVE  Goal
  <2> DEFINE to == IF Len(obs[h]) + 1 < 3 THEN "copy" ELSE next
  <2>1. /\ pc[h] = "copy" /\ pc' = [pc EXCEPT ![h] = to]
        /\ h \in Writers => to # "done"
        /\ \A i \in Goroutines \ {h} : obs'[i] = obs[i]
    BY <1>0, <1>6 DEF Copy, Goto
  <2> HIDE DEF to
  <2>2. CASE g = h
    BY <1>0, <2>1, <2>2
  <2>3. CASE g # h
    BY <1>0, <2>1, <2>3
  <2> QED BY <2>2, <2>3
<1>7. ASSUME NEW w \in Writers, CopyConfig(w) PROVE Goal
  BY <1>6, <1>7 DEF CopyConfig, Goroutines
<1>8. ASSUME NEW p \in Publishers, CopyToPublish(p) PROVE Goal
  BY <1>6, <1>8 DEF CopyToPublish, Goroutines
<1>9. CASE UNCHANGED vars \/ Tick \/ \E f \in Forms : Fill(f)
  BY <1>0, <1>9 DEF vars, Tick, Fill
<1> QED BY <1>1, <1>2, <1>3, <1>4, <1>5, <1>7, <1>8, <1>9 DEF Next, Work, Publish

\* What a step does to the files: nothing, or it puts one goroutine's item in one file.
LEMMA OneFile ==
  ASSUME TypeInv, [Next]_vars
  PROVE  \/ journal' = journal /\ \A w \in Writers : ~ WriteEntry(w)
         \/ \E w \in Writers : WriteHeader(w) /\ Adds(File(w, 0), <<"auto", w>>)
         \/ \E p \in Publishers : WritePublished(p) /\ Adds(File(p, 0), <<"published", p>>)
         \/ \E w \in Writers : WriteEntry(w) /\ obs[w][3] # "new"
                               /\ Adds(File(w, 0), <<"entry", w>>)
         \/ \E w \in Writers : WriteEntry(w) /\ obs[w][3] = "new"
                               /\ Replaces(File(w, now), <<"entry", w>>)
<1>1. \A g \in Goroutines : /\ <<"entry", g>> \in Items /\ <<"auto", g>> \in Items
                            /\ <<"published", g>> \in Items
  BY DEF Items
<1>2. ASSUME NEW g \in Goroutines, pc[g] \notin {"idle", "copy", "done"}
      PROVE  File(g, 0) \in Names /\ File(g, now) \in Names
  <2>1. obs[g] \in Obs /\ obs[g][1] # Unset /\ now \in 0..MaxSecs /\ 0 \in 0..MaxSecs
    BY <1>2 DEF TypeInv, TypeOK, CopyInv
  <2> QED BY <2>1, FileNamed
<1>3. ASSUME NEW w \in Writers, WriteHeader(w) PROVE Adds(File(w, 0), <<"auto", w>>)
  <2> PICK n : n = File(w, 0)
    OBVIOUS
  <2> PICK x : x = <<"auto", w>>
    OBVIOUS
  <2>1. n \in Names /\ journal' = Appended(n, x) /\ x \in Items
    BY <1>1, <1>2, <1>3 DEF WriteHeader, WriteSeparator, Goto, Goroutines
  <2>2. Adds(n, x)
    BY <2>1, FileAppended
  <2> QED BY <2>2
<1>4. ASSUME NEW p \in Publishers, WritePublished(p)
      PROVE  Adds(File(p, 0), <<"published", p>>)
  <2> PICK n : n = File(p, 0)
    OBVIOUS
  <2> PICK x : x = <<"published", p>>
    OBVIOUS
  <2>1. n \in Names /\ journal' = Appended(n, x) /\ x \in Items
    BY <1>1, <1>2, <1>4 DEF WritePublished, WriteSeparator, Goto, Goroutines
  <2>2. Adds(n, x)
    BY <2>1, FileAppended
  <2> QED BY <2>2
<1>5. ASSUME NEW w \in Writers, WriteEntry(w), obs[w][3] # "new"
      PROVE  Adds(File(w, 0), <<"entry", w>>)
  <2> PICK n : n = File(w, 0)
    OBVIOUS
  <2> PICK x : x = <<"entry", w>>
    OBVIOUS
  <2>1. n \in Names /\ journal' = Appended(n, x) /\ x \in Items
    BY <1>1, <1>2, <1>5 DEF WriteEntry, Goto, Goroutines
  <2>2. Adds(n, x)
    BY <2>1, FileAppended
  <2> QED BY <2>2
<1>6. ASSUME NEW w \in Writers, WriteEntry(w), obs[w][3] = "new"
      PROVE  Replaces(File(w, now), <<"entry", w>>)
  <2>1. File(w, now) \in Names /\ journal' = [journal EXCEPT ![File(w, now)] = <<<<"entry", w>>>>]
    BY <1>2, <1>6 DEF WriteEntry, Goto, Goroutines
  <2>2. DOMAIN journal = Names
    BY DEF TypeInv, TypeOK
  <2>3. ToSet(<<<<"entry", w>>>>) = {<<"entry", w>>}
    BY ContentSet
  <2> QED BY <2>1, <2>2, <2>3 DEF Replaces, Content
<1>7. \/ journal' = journal
      \/ \E w \in Writers : WriteHeader(w) \/ WriteEntry(w)
      \/ \E p \in Publishers : WritePublished(p)
  BY DEF Next, Work, Publish, vars, Fill, Spawn, CopyConfig, Copy, OnceDo, Lock, Check,
         Mark, Unlock, Press, CopyToPublish, Reset, Tick
<1> QED BY <1>3, <1>4, <1>5, <1>6, <1>7

\* Every item stays with the goroutine and the file it belongs to.
LEMMA JournalStep == TypeInv /\ JournalInv /\ [Next]_vars => JournalInv'
<1> SUFFICES ASSUME TypeInv, JournalInv, [Next]_vars, NEW n \in Names, NEW g \in Goroutines
    PROVE /\ <<"entry", g>> \in Content(n)' =>
               /\ g \in Writers /\ pc'[g] = "done" /\ obs'[g] # <<>>
               /\ n = File(g, n[3])' /\ (n[3] # 0 <=> obs'[g][3] = "new")
          /\ <<"auto", g>> \in Content(n)' =>
               g \in Writers /\ n[3] = 0 /\ pc'[g] \in {"mark", "unlock", "entry", "done"}
          /\ <<"published", g>> \in Content(n)' =>
               g \in Publishers /\ n[3] = 0 /\ pc'[g] \in {"reset", "done"}
  BY DEF JournalInv
<1> DEFINE Old(k) == <<k, g>> \in Content(n)
           New(k) == <<k, g>> \in Content(n)'
<1>1. /\ Old("entry") =>
           /\ g \in Writers /\ pc'[g] = "done" /\ obs'[g] # <<>>
           /\ n = File(g, n[3])' /\ (n[3] # 0 <=> obs'[g][3] = "new")
      /\ Old("auto") =>
           g \in Writers /\ n[3] = 0 /\ pc'[g] \in {"mark", "unlock", "entry", "done"}
      /\ Old("published") =>
           g \in Publishers /\ n[3] = 0 /\ pc'[g] \in {"reset", "done"}
  BY Onwards DEF JournalInv, File
<1>2. ASSUME NEW h \in Goroutines, pc[h] \notin {"idle", "copy", "done"}
      PROVE  /\ File(h, 0)[3] = 0 /\ File(h, now)[3] = now /\ now # 0
             /\ obs'[h] = obs[h] /\ obs[h] \in Obs /\ obs[h] # <<>>
             /\ obs[h][3] \in Modes
             /\ \A sec : File(h, sec)' = File(h, sec)
  <2>1. obs[h] \in Obs /\ obs[h][1] # Unset
    BY <1>2 DEF TypeInv, CopyInv
  <2>2. obs'[h] = obs[h]
    BY <1>2, Onwards
  <2>3. now \in 1..MaxSecs /\ now # 0 /\ now \in 0..MaxSecs /\ 0 \in 0..MaxSecs
    BY DEF TypeInv, TypeOK
  <2>4. obs[h][3] \in Modes /\ obs[h] # <<>>
    BY <2>1, FieldSet DEF Obs
  <2> QED BY <2>1, <2>2, <2>3, <2>4, FileNamed DEF File, TypeInv, TypeOK
<1>3. CASE journal' = journal
  <2>1. Content(n)' = Content(n)
    BY <1>3 DEF Content
  <2> QED BY <1>1, <2>1
<1> DEFINE Goal ==
      /\ New("entry") =>
           /\ g \in Writers /\ pc'[g] = "done" /\ obs'[g] # <<>>
           /\ n = File(g, n[3])' /\ (n[3] # 0 <=> obs'[g][3] = "new")
      /\ New("auto") =>
           g \in Writers /\ n[3] = 0 /\ pc'[g] \in {"mark", "unlock", "entry", "done"}
      /\ New("published") =>
           g \in Publishers /\ n[3] = 0 /\ pc'[g] \in {"reset", "done"}
<1>4. ASSUME NEW w \in Writers, WriteHeader(w), Adds(File(w, 0), <<"auto", w>>)
      PROVE  Goal
  <2>1. /\ pc[w] = "separator" /\ pc'[w] = "mark"
    BY <1>4 DEF WriteHeader, WriteSeparator, Goto, TypeInv, TypeOK, Goroutines
  <2>2. Content(n)' = IF n = File(w, 0) THEN Content(n) \cup {<<"auto", w>>} ELSE Content(n)
    BY <1>4 DEF Adds
  <2>3. /\ New("entry") => Old("entry")
        /\ New("published") => Old("published")
        /\ New("auto") => Old("auto") \/ (g = w /\ n = File(w, 0))
    BY <2>2
  <2> QED BY <1>1, <1>2, <2>1, <2>3 DEF Goroutines
<1>5. ASSUME NEW p \in Publishers, WritePublished(p), Adds(File(p, 0), <<"published", p>>)
      PROVE  Goal
  <2>1. /\ pc[p] = "separator" /\ pc'[p] = "reset"
    BY <1>5 DEF WritePublished, WriteSeparator, Goto, TypeInv, TypeOK, Goroutines
  <2>2. Content(n)' = IF n = File(p, 0) THEN Content(n) \cup {<<"published", p>>} ELSE Content(n)
    BY <1>5 DEF Adds
  <2>3. /\ New("entry") => Old("entry")
        /\ New("auto") => Old("auto")
        /\ New("published") => Old("published") \/ (g = p /\ n = File(p, 0))
    BY <2>2
  <2> QED BY <1>1, <1>2, <2>1, <2>3 DEF Goroutines
<1>6. ASSUME NEW w \in Writers, WriteEntry(w),
             \/ obs[w][3] # "new" /\ Adds(File(w, 0), <<"entry", w>>)
             \/ obs[w][3] = "new" /\ Replaces(File(w, now), <<"entry", w>>)
      PROVE  Goal
  <2>1. /\ pc[w] = "entry" /\ pc'[w] = "done"
    BY <1>6 DEF WriteEntry, Goto, TypeInv, TypeOK, Goroutines
  <2>2. \/ obs[w][3] # "new" /\ Content(n)' = IF n = File(w, 0) THEN Content(n) \cup {<<"entry", w>>}
                                                                ELSE Content(n)
        \/ obs[w][3] = "new" /\ Content(n)' = IF n = File(w, now) THEN {<<"entry", w>>} ELSE Content(n)
    BY <1>6 DEF Adds, Replaces
  <2>3. /\ New("auto") => Old("auto")
        /\ New("published") => Old("published")
        /\ New("entry") => \/ Old("entry")
                           \/ g = w /\ n = File(w, 0) /\ obs[w][3] # "new"
                           \/ g = w /\ n = File(w, now) /\ obs[w][3] = "new"
    BY <2>2
  <2>4. /\ w \in Goroutines /\ obs'[w] = obs[w] /\ obs[w] # <<>>
        /\ File(w, 0)[3] = 0 /\ File(w, now)[3] = now /\ now # 0
        /\ File(w, 0)' = File(w, 0)
    BY <1>2, <2>1 DEF Goroutines, Modes
  <2>5. File(w, n[3])' = File(w, n[3])
    BY <2>4 DEF File
  <2> QED BY <1>1, <2>1, <2>3, <2>4, <2>5
<1> QED BY <1>3, <1>4, <1>5, <1>6, OneFile

\* Where a goroutine past its copy writes: a step does not change it.
LEMMA Located ==
  ASSUME TypeInv, [Next]_vars, NEW g \in Goroutines,
         pc[g] \notin {"idle", "copy"}, obs[g] \in Obs, obs[g][1] # Unset
  PROVE  /\ \A sec \in 0..MaxSecs : File(g, sec) \in Names /\ File(g, sec)[3] = sec
         /\ \A sec : File(g, sec)' = File(g, sec)
         /\ obs'[g] = obs[g] /\ obs[g][3] \in Modes
<1>1. obs'[g] = obs[g]
  BY Onwards
<1>2. obs[g][3] \in Modes
  BY FieldSet DEF Obs
<1>3. \A sec \in 0..MaxSecs : File(g, sec) \in Names /\ File(g, sec)[3] = sec
  BY FileNamed
<1> QED BY <1>1, <1>2, <1>3 DEF File

\* What is in a journal stays: only files of mode new are ever replaced.
LEMMA JournalKept ==
  ASSUME TypeInv, [Next]_vars, NEW n \in Names, n[3] = 0
  PROVE  Content(n) \subseteq Content(n)'
<1>1. CASE journal' = journal
  BY <1>1 DEF Content
<1>2. ASSUME NEW m, NEW x, Adds(m, x) PROVE Content(n) \subseteq Content(n)'
  BY <1>2 DEF Adds
<1>3. ASSUME NEW w \in Writers, WriteEntry(w), Replaces(File(w, now), <<"entry", w>>)
      PROVE  Content(n) \subseteq Content(n)'
  <2>1. pc[w] = "entry" /\ w \in Goroutines /\ now \in 0..MaxSecs /\ now # 0
    BY <1>3 DEF WriteEntry, Goto, Goroutines, TypeInv, TypeOK
  <2>2. File(w, now)[3] = now
    BY <2>1, Located DEF TypeInv, CopyInv
  <2> QED BY <1>3, <2>1, <2>2 DEF Replaces
<1> QED BY <1>1, <1>2, <1>3, OneFile

\* A writer writes once: its second stays what it was.
LEMMA StampKept ==
  ASSUME TypeInv, [Next]_vars, NEW w \in Writers, pc[w] = "done"
  PROVE  stamped'[w] = stamped[w]
<1>1. ASSUME NEW v \in Writers, WriteEntry(v) PROVE stamped'[w] = stamped[w]
  <2>1. v # w /\ stamped' = [stamped EXCEPT ![v] = Second(v)]
    BY <1>1 DEF WriteEntry, Goto
  <2> QED BY <2>1 DEF TypeInv, TypeOK
<1>2. stamped' = stamped \/ \E v \in Writers : WriteEntry(v)
  BY DEF Next, Work, Publish, vars, Fill, Spawn, CopyConfig, Copy, OnceDo, Lock, Check,
         WriteHeader, WritePublished, WriteSeparator, Mark, Unlock, Press, CopyToPublish,
         Reset, Tick
<1> QED BY <1>1, <1>2

\* No step takes the entry of an operation away without putting another in its file.
LEMMA EntryStep == TypeInv /\ EntryInv /\ [Next]_vars => EntryInv'
<1> DEFINE There(w, sec) == \E v \in Writers : <<"entry", v>> \in Content(File(w, sec))
           Goal(w) ==
             \/ obs[w][3] # "new" /\ stamped[w] = 0 /\ <<"entry", w>> \in Content(File(w, 0))
             \/ obs[w][3] = "new" /\ There(w, stamped[w])
<1> SUFFICES ASSUME TypeInv, EntryInv, [Next]_vars,
                    NEW w \in Writers, pc'[w] = "done", obs'[w] # <<>>
             PROVE  Goal(w)'
  BY DEF EntryInv
<1>0. w \in Goroutines /\ now \in 1..MaxSecs /\ now \in 0..MaxSecs /\ 0 \in 0..MaxSecs
  BY DEF Goroutines, TypeInv, TypeOK
<1>1. pc[w] = "done" \/ (pc[w] = "entry" /\ WriteEntry(w))
  BY <1>0, Onwards
<1>2. pc[w] \notin {"idle", "copy"} /\ obs[w] \in Obs /\ obs[w][1] # Unset /\ obs[w] # <<>>
  <2>1. pc[w] \notin {"idle", "copy"} /\ obs'[w] = obs[w]
    BY <1>0, <1>1, Onwards
  <2> QED BY <1>0, <1>1, <2>1 DEF TypeInv, CopyInv
<1>3. /\ \A sec \in 0..MaxSecs : File(w, sec) \in Names /\ File(w, sec)[3] = sec
      /\ \A sec : File(w, sec)' = File(w, sec)
      /\ obs'[w] = obs[w] /\ obs[w][3] \in Modes
  BY <1>0, <1>2, Located
<1>4. WriteEntry(w) => stamped'[w] = Second(w)
  BY DEF WriteEntry, TypeInv, TypeOK
<1>5. CASE WriteEntry(w) /\ obs[w][3] # "new"
  <2>1. <<"entry", w>> \in Content(File(w, 0))'
    <3> PICK n \in Names : n = File(w, 0)
      BY <1>0, <1>3
    <3> PICK x \in Items : x = <<"entry", w>>
      BY <1>0 DEF Items
    <3>1. journal' = Appended(n, x)
      BY <1>5 DEF WriteEntry
    <3>2. x \in Content(n)'
      BY <3>1, FileAppended
    <3> QED BY <1>3, <3>2
  <2>2. stamped'[w] = 0
    BY <1>4, <1>5 DEF Second
  <2> QED BY <1>3, <1>5, <2>1, <2>2
<1>6. CASE WriteEntry(w) /\ obs[w][3] = "new"
  <2> PICK sec \in 1..MaxSecs : sec = now
    BY <1>0
  <2> PICK n \in Names : n = File(w, sec)
    BY <1>0, <1>3
  <2>1. journal'[n] = <<<<"entry", w>>>>
    BY <1>6 DEF WriteEntry, TypeInv, TypeOK
  <2>2. <<"entry", w>> \in Content(n)'
    BY <2>1, ContentSet DEF Content
  <2>3. <<"entry", w>> \in Content(File(w, sec))'
    BY <1>3, <2>2
  <2>4. stamped'[w] = sec
    BY <1>4, <1>6 DEF Second
  <2> QED BY <1>3, <1>6, <2>3, <2>4
<1>7. CASE pc[w] = "done"
  <2>1. Goal(w)
    BY <1>2, <1>7 DEF EntryInv
  <2>2. stamped'[w] = stamped[w] /\ stamped[w] \in 0..MaxSecs
    BY <1>7, StampKept DEF TypeInv, TypeOK
  <2>3. CASE stamped[w] = 0 /\ <<"entry", w>> \in Content(File(w, 0))
    <3>1. Content(File(w, 0)) \subseteq Content(File(w, 0))'
      <4> PICK n \in Names : n = File(w, 0) /\ n[3] = 0
        BY <1>0, <1>3
      <4>1. Content(n) \subseteq Content(n)'
        BY JournalKept
      <4> QED BY <1>3, <4>1
    <3> QED BY <1>3, <2>1, <2>2, <2>3, <3>1
  <2>4. ASSUME NEW v \in Writers, <<"entry", v>> \in Content(File(w, stamped[w]))
        PROVE  \E u \in Writers : <<"entry", u>> \in Content(File(w, stamped[w]))'
    <3> PICK sec \in 0..MaxSecs : sec = stamped[w]
      BY <2>2
    <3> PICK n \in Names : n = File(w, sec)
      BY <1>3
    <3>1. \E u \in Writers : <<"entry", u>> \in Content(n)'
      <4>1. CASE journal' = journal
        BY <2>4, <4>1 DEF Content
      <4>2. ASSUME NEW m, NEW x, Adds(m, x) PROVE <<"entry", v>> \in Content(n)'
        BY <2>4, <4>2 DEF Adds
      <4>3. ASSUME NEW u \in Writers, NEW m, Replaces(m, <<"entry", u>>)
            PROVE  <<"entry", u>> \in Content(n)' \/ <<"entry", v>> \in Content(n)'
        BY <2>4, <4>3 DEF Replaces
      <4> QED BY <4>1, <4>2, <4>3, OneFile
    <3>2. File(w, stamped[w])' = n
      BY <1>3, <2>2
    <3> QED BY <3>1, <3>2
  <2> QED BY <1>3, <2>1, <2>2, <2>3, <2>4
<1> QED BY <1>1, <1>5, <1>6, <1>7

\* For any number of operations, however they interleave with each other and with the
\* form, the entry of an operation stays in the file of its own second, unless it is of
\* mode new and another operation has written this very file.
THEOREM EntriesKept == SafeSpec => []EntriesStay
<1>1. Init => FilesInv
  <2> SUFFICES ASSUME Init PROVE FilesInv
    OBVIOUS
  <2>1. \A n \in Names : Content(n) = {}
    BY ContentSet DEF Init, Content
  <2>2. \A g \in Goroutines : pc[g] = "idle"
    BY DEF Init
  <2> QED BY <2>1, <2>2, InitTyped DEF FilesInv, JournalInv, EntryInv, Goroutines
<1>2. FilesInv /\ [Next]_vars => FilesInv'
  BY TypeStep, JournalStep, EntryStep DEF FilesInv
<1>3. FilesInv => EntriesStay
  <2> SUFFICES ASSUME FilesInv, NEW w \in Writers, pc[w] = "done", obs[w] # <<>>
               PROVE  \/ <<"entry", w>> \in Content(File(w, stamped[w]))
                      \/ /\ obs[w][3] = "new"
                         /\ \E v \in Writers \ {w} : <<"entry", v>> \in Content(File(w, stamped[w]))
    BY DEF EntriesStay, Content
  <2> QED BY DEF FilesInv, EntryInv
<1> QED BY <1>1, <1>2, <1>3, PTL DEF SafeSpec
-------------------------------------------------------------------------------
(* The header comes first.                                                     *)

Marked == Written("auto") \cup Written("published") # {}

\* The flag of the Once is set, and the Once is left, only when a separator is there,
\* and a Publish that is about to replace the Once has written its own.
MarkInv ==
  /\ done => Marked
  /\ \A w \in Writers :
       /\ pc[w] \in {"mark", "unlock"} => Marked
       /\ pc[w] \in {"entry", "done"} /\ obs[w] # <<>> /\ obs[w][3] = "append" => Marked
  /\ \A p \in Publishers : pc[p] = "reset" => p \in Written("published")

\* Separators stay; only the Once writes one of kind "auto".
LEMMA SeparatorsStay ==
  ASSUME TypeInv, JournalInv, [Next]_vars
  PROVE  /\ Written("auto") \subseteq Written("auto")'
         /\ Written("published") \subseteq Written("published")'
         /\ Written("auto")' = Written("auto")
              \/ \E w \in Writers : WriteHeader(w) /\ Written("auto")' = Written("auto") \cup {w}
         /\ \A w \in Writers : WriteHeader(w) => w \in Written("auto")'
         /\ \A p \in Publishers : WritePublished(p) => p \in Written("published")'
         /\ \A g \in Written("published")' : g \in Written("published") \/ WritePublished(g)
<1>1. ASSUME NEW k \in {"auto", "published"}, NEW g \in Written(k)
      PROVE  g \in Written(k)'
  <2>1. PICK n \in Names : g \in Goroutines /\ <<k, g>> \in Content(n)
    BY DEF Written, Content
  <2>2. n[3] = 0
    BY <2>1 DEF JournalInv
  <2>3. <<k, g>> \in Content(n)'
    BY <2>1, <2>2, JournalKept
  <2> QED BY <2>1, <2>3 DEF Written, Content
<1>2. ASSUME NEW g \in Written("auto")', g \notin Written("auto")
      PROVE  g \in Writers /\ WriteHeader(g)
  <2>1. PICK n \in Names : g \in Goroutines /\ <<"auto", g>> \in Content(n)'
    BY <1>2 DEF Written, Content
  <2>2. <<"auto", g>> \notin Content(n)
    BY <1>2, <2>1 DEF Written, Content
  <2>3. CASE journal' = journal
    BY <2>1, <2>2, <2>3 DEF Content
  <2>4. ASSUME NEW m, NEW x, Adds(m, x) PROVE x = <<"auto", g>>
    BY <2>1, <2>2, <2>4 DEF Adds
  <2>5. ASSUME NEW m, NEW x, Replaces(m, x) PROVE x = <<"auto", g>>
    BY <2>1, <2>2, <2>5 DEF Replaces
  <2> QED BY <2>3, <2>4, <2>5, OneFile
<1>6. ASSUME NEW g \in Written("published")', g \notin Written("published")
      PROVE  WritePublished(g)
  <2>1. PICK n \in Names : g \in Goroutines /\ <<"published", g>> \in Content(n)'
    BY <1>6 DEF Written, Content
  <2>2. <<"published", g>> \notin Content(n)
    BY <1>6, <2>1 DEF Written, Content
  <2>3. CASE journal' = journal
    BY <2>1, <2>2, <2>3 DEF Content
  <2>4. ASSUME NEW m, NEW x, Adds(m, x) PROVE x = <<"published", g>>
    BY <2>1, <2>2, <2>4 DEF Adds
  <2>5. ASSUME NEW m, NEW x, Replaces(m, x) PROVE x = <<"published", g>>
    BY <2>1, <2>2, <2>5 DEF Replaces
  <2> QED BY <2>3, <2>4, <2>5, OneFile
<1>3. ASSUME NEW w \in Writers, WriteHeader(w) PROVE w \in Written("auto")'
  <2>1. pc[w] = "separator" /\ w \in Goroutines /\ 0 \in 0..MaxSecs
    BY <1>3 DEF WriteHeader, WriteSeparator, Goto, Goroutines
  <2> PICK n \in Names : n = File(w, 0)
    BY <2>1, FileNamed DEF TypeInv, CopyInv
  <2> PICK x \in Items : x = <<"auto", w>>
    BY <2>1 DEF Items
  <2>2. journal' = Appended(n, x)
    BY <1>3 DEF WriteHeader, WriteSeparator
  <2>3. x \in Content(n)'
    BY <2>2, FileAppended
  <2> QED BY <2>1, <2>3 DEF Written, Content
<1>4. ASSUME NEW p \in Publishers, WritePublished(p) PROVE p \in Written("published")'
  <2>1. pc[p] = "separator" /\ p \in Goroutines /\ 0 \in 0..MaxSecs
    BY <1>4 DEF WritePublished, WriteSeparator, Goto, Goroutines
  <2> PICK n \in Names : n = File(p, 0)
    BY <2>1, FileNamed DEF TypeInv, CopyInv
  <2> PICK x \in Items : x = <<"published", p>>
    BY <2>1 DEF Items
  <2>2. journal' = Appended(n, x)
    BY <1>4 DEF WritePublished, WriteSeparator
  <2>3. x \in Content(n)'
    BY <2>2, FileAppended
  <2> QED BY <2>1, <2>3 DEF Written, Content
<1>5. \A v, w \in Writers : WriteHeader(v) /\ WriteHeader(w) => v = w
  BY DEF WriteHeader, WriteSeparator, Goto, TypeInv, TypeOK, Goroutines
<1> QED BY <1>1, <1>2, <1>3, <1>4, <1>5, <1>6

\* In mode new the Once is left out: the third field a copy got decides.
LEMMA ThirdField ==
  ASSUME TypeInv, NEW w \in Writers, CopyConfig(w), pc'[w] # "copy"
  PROVE  obs'[w][3] = cfg[3] /\ pc'[w] = IF cfg[3] = "append" THEN "once" ELSE "entry"
<1> DEFINE next == IF cfg[3] = "append" THEN "once" ELSE "entry"
<1>0. w \in Goroutines
  BY DEF Goroutines
<1>1. /\ pc[w] = "copy" /\ pc'[w] = IF Len(obs[w]) + 1 < 3 THEN "copy" ELSE next
      /\ obs'[w] = Append(obs[w], cfg[Len(obs[w]) + 1])
  BY <1>0 DEF CopyConfig, Copy, Goto, TypeInv, TypeOK, CopyInv
<1>2. Begun(w) /\ ~ (Len(obs[w]) + 1 < 3)
  BY <1>0, <1>1 DEF TypeInv, CopyInv
<1>3. \A a, b : Len(<<>>) = 0 /\ Len(<<a>>) = 1 /\ Len(<<a, b>>) = 2
  BY FieldsAppended
<1>4. PICK a \in Vaults \cup {Unset}, b \in Files : obs[w] = <<a, b>>
  <2>1. obs[w] # <<>>
    BY <1>2
  <2>2. ASSUME NEW a, obs[w] = <<a>> PROVE FALSE
    BY <1>2, <2>2
  <2> QED BY <1>2, <2>1, <2>2 DEF Begun
<1>5. Len(obs[w]) = 2
  BY <1>3, <1>4
<1>6. obs'[w] = Append(<<a, b>>, cfg[3]) /\ pc'[w] = next
  BY <1>1, <1>4, <1>5
<1>7. Append(<<a, b>>, cfg[3]) = <<a, b, cfg[3]>>
  BY ThirdAppended
<1> QED BY <1>6, <1>7

\* A goroutine is moved by its own steps only.
LEMMA OwnStep ==
  ASSUME TypeInv, [Next]_vars
  PROVE  /\ \A w \in Writers : pc'[w] # pc[w] => Spawn(w) \/ Work(w)
         /\ \A p \in Publishers : pc'[p] # pc[p] => Press(p) \/ Publish(p)
         /\ \A g, h \in Goroutines : pc'[g] # pc[g] /\ pc'[h] # pc[h] => g = h
<1>0. DOMAIN pc = Goroutines /\ Writers \subseteq Goroutines /\ Publishers \subseteq Goroutines
  BY DEF TypeInv, TypeOK, Goroutines
<1>1. ASSUME NEW g \in Goroutines, NEW from, NEW to, Goto(g, from, to)
      PROVE  \A h \in Goroutines : pc'[h] # pc[h] => h = g
  BY <1>0, <1>1 DEF Goto
<1>2. ASSUME NEW w \in Writers, Spawn(w) \/ Work(w)
      PROVE  \A h \in Goroutines : pc'[h] # pc[h] => h = w
  BY <1>0, <1>1, <1>2 DEF Spawn, Work, CopyConfig, Copy, OnceDo, Lock, Check, WriteHeader,
                         WriteSeparator, Mark, Unlock, WriteEntry
<1>3. ASSUME NEW p \in Publishers, Press(p) \/ Publish(p)
      PROVE  \A h \in Goroutines : pc'[h] # pc[h] => h = p
  BY <1>0, <1>1, <1>3 DEF Press, Publish, CopyToPublish, Copy, WritePublished, WriteSeparator,
                         Reset
<1>4. CASE UNCHANGED vars \/ Tick \/ \E f \in Forms : Fill(f)
  BY <1>4 DEF vars, Tick, Fill
<1> QED BY <1>0, <1>2, <1>3, <1>4 DEF Next

\* No goroutine gets past the Once, and no flag is set, before a separator is there.
LEMMA MarkStep == TypeInv /\ JournalInv /\ MarkInv /\ [Next]_vars => MarkInv'
<1> SUFFICES ASSUME TypeInv, JournalInv, MarkInv, [Next]_vars PROVE MarkInv'
  OBVIOUS
<1>1. Marked => Marked'
  BY SeparatorsStay DEF Marked
<1>2. done' => Marked'
  <2>1. ASSUME NEW w \in Writers, Mark(w) PROVE Marked'
    BY <1>1, <2>1 DEF Mark, Goto, MarkInv
  <2>2. ASSUME NEW p \in Publishers, Reset(p) PROVE ~ done'
    BY <2>2 DEF Reset
  <2>3. \/ done' = done
        \/ \E w \in Writers : Mark(w)
        \/ \E p \in Publishers : Reset(p)
    BY DEF Next, Work, Publish, vars, Fill, Spawn, CopyConfig, Copy, OnceDo, Lock, Check,
           WriteHeader, WriteSeparator, Unlock, WriteEntry, Press, CopyToPublish,
           WritePublished, Tick, onceVars
  <2> QED BY <1>1, <2>1, <2>2, <2>3 DEF MarkInv
<1>3. ASSUME NEW w \in Writers,
             \/ pc'[w] \in {"mark", "unlock"}
             \/ pc'[w] \in {"entry", "done"} /\ obs'[w] # <<>> /\ obs'[w][3] = "append"
      PROVE  Marked'
  <2>0. w \in Goroutines /\ DOMAIN pc = Goroutines
    BY DEF Goroutines, TypeInv, TypeOK
  <2>1. CASE pc'[w] = pc[w]
    <3>1. CASE pc[w] \notin {"idle", "copy"}
      <4>1. obs'[w] = obs[w]
        BY <2>0, <3>1, Onwards
      <4> QED BY <1>1, <1>3, <2>1, <3>1, <4>1 DEF MarkInv
    <3>2. CASE pc[w] \in {"idle", "copy"}
      BY <1>3, <2>1, <3>2
    <3> QED BY <3>1, <3>2
  <2>2. CASE Spawn(w)
    BY <1>3, <2>0, <2>2 DEF Spawn, Goto, TypeInv, CopyInv
  <2>3. CASE CopyConfig(w)
    <3>1. pc'[w] # "copy" => pc'[w] \in {"once", "entry"} /\ (pc'[w] = "entry" => obs'[w][3] # "append")
      BY <2>3, ThirdField
    <3> QED BY <1>3, <3>1
  <2>4. CASE OnceDo(w)
    BY <1>1, <1>3, <2>0, <2>4 DEF OnceDo, Goto, MarkInv
  <2>5. CASE Lock(w)
    BY <1>3, <2>0, <2>5 DEF Lock, Goto
  <2>6. CASE Check(w)
    BY <1>1, <1>3, <2>0, <2>6 DEF Check, Goto, MarkInv
  <2>7. CASE WriteHeader(w)
    BY <2>7, SeparatorsStay DEF Marked
  <2>8. CASE Mark(w) \/ Unlock(w)
    BY <1>1, <2>8 DEF Mark, Unlock, Goto, MarkInv
  <2>9. CASE WriteEntry(w)
    <3>1. pc[w] = "entry" /\ pc'[w] = "done" /\ obs'[w] = obs[w]
      BY <2>0, <2>9 DEF WriteEntry, Goto
    <3> QED BY <1>1, <1>3, <3>1 DEF MarkInv
  <2> QED BY <2>1, <2>2, <2>3, <2>4, <2>5, <2>6, <2>7, <2>8, <2>9, OwnStep DEF Work
<1>4. ASSUME NEW p \in Publishers, pc'[p] = "reset" PROVE p \in Written("published")'
  <2>0. p \in Goroutines /\ DOMAIN pc = Goroutines
    BY DEF Goroutines, TypeInv, TypeOK
  <2>1. CASE pc'[p] = pc[p]
    BY <1>4, <2>1, SeparatorsStay DEF MarkInv
  <2>2. CASE WritePublished(p)
    BY <2>2, SeparatorsStay
  <2>3. CASE Press(p) \/ Reset(p)
    BY <1>4, <2>0, <2>3 DEF Press, Reset, Goto
  <2>4. CASE CopyToPublish(p)
    BY <1>4, <2>0, <2>4 DEF CopyToPublish, Copy, Goto
  <2> QED BY <2>1, <2>2, <2>3, <2>4, OwnStep DEF Publish
<1> QED BY <1>2, <1>3, <1>4 DEF MarkInv
-------------------------------------------------------------------------------
(* One header, as long as no Reset replaces the Once under somebody.             *)

\* The mutex is locked for somebody, and the sets that are counted are finite.
HoldersInv ==
  /\ locked => Holders # {}
  /\ IsFiniteSet(Holders) /\ IsFiniteSet(Written("auto")) /\ IsFiniteSet(Resets)

\* Who holds the mutex after a step: one more after Lock, one less after Unlock, and
\* a Reset unlocks it whoever holds it.
LEMMA HoldersMove ==
  ASSUME TypeInv, [Next]_vars
  PROVE  \/ \E w \in Writers : /\ Lock(w) /\ ~ locked /\ locked' /\ crashed' = crashed
                               /\ w \notin Holders /\ Holders' = Holders \cup {w}
         \/ \E w \in Writers : /\ Unlock(w) /\ ~ locked' /\ (crashed' <=> ~ locked)
                               /\ w \in Holders /\ Holders' = Holders \ {w}
         \/ \E p \in Publishers : /\ Reset(p) /\ ~ locked' /\ crashed' = crashed
                                  /\ Holders' = Holders
         \/ locked' = locked /\ crashed' = crashed /\ Holders' = Holders
<1>0. DOMAIN pc = Goroutines /\ Writers \subseteq Goroutines
  BY DEF TypeInv, TypeOK, Goroutines
<1>1. ASSUME NEW w \in Writers, Lock(w)
      PROVE  w \notin Holders /\ Holders' = Holders \cup {w}
  BY <1>0, <1>1 DEF Lock, Goto, Holders
<1>2. ASSUME NEW w \in Writers, Unlock(w)
      PROVE  w \in Holders /\ Holders' = Holders \ {w}
  BY <1>0, <1>2 DEF Unlock, Goto, Holders
<1>3. ASSUME NEW w \in Writers,
             Spawn(w) \/ CopyConfig(w) \/ OnceDo(w) \/ Check(w) \/ WriteHeader(w)
               \/ Mark(w) \/ WriteEntry(w)
      PROVE  Holders' = Holders /\ locked' = locked /\ crashed' = crashed
  <2>1. locked' = locked /\ crashed' = crashed
    BY <1>3 DEF Spawn, CopyConfig, Copy, OnceDo, Check, WriteHeader, WriteSeparator, Mark,
                WriteEntry, onceVars
  <2>2. CASE CopyConfig(w)
    <3>1. pc[w] = "copy" /\ \A v \in Writers \ {w} : pc'[v] = pc[v]
      BY <1>0, <2>2 DEF CopyConfig, Copy, Goto
    <3>2. pc'[w] \in {"copy", "once", "entry"}
      BY <2>2, ThirdField
    <3> QED BY <2>1, <3>1, <3>2 DEF Holders
  <2>3. CASE Spawn(w) \/ OnceDo(w)
    BY <1>0, <2>1, <2>3 DEF Spawn, OnceDo, Goto, Holders
  <2>4. CASE Check(w) \/ WriteHeader(w)
    BY <1>0, <2>1, <2>4 DEF Check, WriteHeader, WriteSeparator, Goto, Holders
  <2>5. CASE Mark(w) \/ WriteEntry(w)
    <3>1. \/ pc[w] = "mark" /\ pc' = [pc EXCEPT ![w] = "unlock"]
          \/ pc[w] = "entry" /\ pc' = [pc EXCEPT ![w] = "done"]
      BY <2>5 DEF Mark, WriteEntry, Goto
    <3> QED BY <1>0, <2>1, <3>1 DEF Holders
  <2> QED BY <1>3, <2>2, <2>3, <2>4, <2>5
<1>4. ASSUME NEW p \in Publishers, Press(p) \/ Publish(p) PROVE Holders' = Holders
  <2>1. \A w \in Writers : pc'[w] = pc[w]
    BY <1>0, <1>4 DEF Press, Publish, CopyToPublish, Copy, WritePublished, WriteSeparator,
                      Reset, Goto
  <2> QED BY <2>1 DEF Holders
<1>5. CASE UNCHANGED vars \/ Tick \/ \E f \in Forms : Fill(f)
  BY <1>5 DEF vars, Tick, Fill, onceVars, Holders
<1> QED BY <1>1, <1>2, <1>3, <1>4, <1>5
        DEF Next, Work, Publish, Lock, Unlock, Press, CopyToPublish, Copy, WritePublished,
            WriteSeparator, Reset, onceVars

\* The Resets only become more, by the one that resets.
LEMMA ResetsGrow ==
  ASSUME TypeInv, JournalInv, MarkInv, [Next]_vars
  PROVE  /\ Resets \subseteq Resets'
         /\ Resets' = Resets \/ \E p \in Publishers : Resets' \subseteq Resets \cup {p}
         /\ \A p \in Publishers : Reset(p) => p \in Resets' /\ p \notin Resets
<1>0. Publishers \subseteq Goroutines /\ DOMAIN pc = Goroutines
  BY DEF Goroutines, TypeInv, TypeOK
<1>1. ASSUME NEW p \in Resets PROVE p \in Resets'
  BY <1>0, <1>1, Onwards, SeparatorsStay DEF Resets
<1>2. ASSUME NEW p \in Resets', p \notin Resets PROVE pc'[p] # pc[p]
  <2>1. p \in Publishers /\ pc'[p] = "done" /\ p \in Written("published")'
    BY <1>2 DEF Resets
  <2>2. CASE p \in Written("published")
    BY <1>2, <2>1, <2>2 DEF Resets
  <2>3. CASE WritePublished(p)
    BY <1>0, <2>1, <2>3 DEF WritePublished, WriteSeparator, Goto
  <2> QED BY <2>1, <2>2, <2>3, SeparatorsStay
<1>3. \A p, q \in Resets' : p \notin Resets /\ q \notin Resets => p = q
  BY <1>0, <1>2, OwnStep DEF Resets
<1>4. ASSUME NEW p \in Publishers, Reset(p) PROVE p \in Resets' /\ p \notin Resets
  <2>1. pc[p] = "reset" /\ pc'[p] = "done"
    BY <1>0, <1>4 DEF Reset, Goto
  <2>2. p \in Written("published")'
    BY <2>1, SeparatorsStay DEF MarkInv
  <2> QED BY <2>1, <2>2 DEF Resets
<1>5. Resets' \subseteq Publishers
  BY DEF Resets
<1> QED BY <1>1, <1>3, <1>4, <1>5

\* The invariant of the mutex.
LEMMA HoldersStep == TypeInv /\ JournalInv /\ MarkInv /\ HoldersInv /\ [Next]_vars => HoldersInv'
<1> SUFFICES ASSUME TypeInv, JournalInv, MarkInv, HoldersInv, [Next]_vars PROVE HoldersInv'
  OBVIOUS
<1>1. locked' => Holders' # {}
  BY HoldersMove DEF HoldersInv
<1>2. IsFiniteSet(Holders')
  <2>1. \A w : IsFiniteSet(Holders \cup {w}) /\ IsFiniteSet(Holders \ {w})
    BY FS_AddElement, FS_RemoveElement DEF HoldersInv
  <2> QED BY <2>1, HoldersMove DEF HoldersInv
<1>3. IsFiniteSet(Written("auto")')
  <2>1. \A w : IsFiniteSet(Written("auto") \cup {w})
    BY FS_AddElement DEF HoldersInv
  <2> QED BY <2>1, SeparatorsStay DEF HoldersInv
<1>4. IsFiniteSet(Resets')
  <2>1. \A p : IsFiniteSet(Resets \cup {p})
    BY FS_AddElement DEF HoldersInv
  <2>2. \A p : \A S \in SUBSET (Resets \cup {p}) : IsFiniteSet(S)
    BY <2>1, FS_Subset
  <2> QED BY <2>2, ResetsGrow DEF HoldersInv
<1> QED BY <1>1, <1>2, <1>3, <1>4 DEF HoldersInv

\* Once a Reset has replaced the mutex under somebody, the count never comes right
\* again before the daemon ends.
LEMMA TornStays == TypeInv /\ HoldersInv /\ [Next]_vars => (Torn => Torn')
<1> SUFFICES ASSUME TypeInv, HoldersInv, [Next]_vars, Torn PROVE Torn'
  OBVIOUS
<1> PICK n : n = Cardinality(Holders)
  OBVIOUS
<1> PICK m : m = Cardinality(Holders')
  OBVIOUS
<1>1. n \in Nat /\ (n = 0 <=> Holders = {})
  BY FS_CardinalityType, FS_EmptySet DEF HoldersInv
<1>2. crashed \/ (locked /\ n > 1) \/ (~ locked /\ n > 0)
  BY <1>1 DEF Torn, HoldersInv
<1>3. /\ \A w : w \notin Holders /\ Holders' = Holders \cup {w} => m = n + 1
      /\ \A w : w \in Holders /\ Holders' = Holders \ {w} => m = n - 1
      /\ Holders' = Holders => m = n
  BY FS_AddElement, FS_RemoveElement DEF HoldersInv
<1>4. Torn' <=> crashed' \/ m # IF locked' THEN 1 ELSE 0
  BY DEF Torn
<1>5. ASSUME NEW w \in Writers, Unlock(w) PROVE ~ crashed
  BY <1>5 DEF Unlock, Goto
<1>6. CASE crashed
  BY <1>4, <1>5, <1>6, HoldersMove
<1>7. CASE ~ crashed
  <2>1. ASSUME NEW w \in Writers, ~ locked, locked', w \notin Holders, Holders' = Holders \cup {w}
        PROVE  Torn'
    BY <1>1, <1>2, <1>3, <1>4, <1>7, <2>1
  <2>2. ASSUME NEW w \in Writers, ~ locked', crashed' <=> ~ locked,
               w \in Holders, Holders' = Holders \ {w}
        PROVE  Torn'
    <3>1. m = n - 1
      BY <1>3, <2>2
    <3>2. CASE locked
      BY <1>1, <1>2, <1>4, <1>7, <2>2, <3>1, <3>2
    <3>3. CASE ~ locked
      BY <1>4, <2>2, <3>3
    <3> QED BY <3>2, <3>3
  <2>3. ASSUME ~ locked', Holders' = Holders PROVE Torn'
    BY <1>1, <1>2, <1>3, <1>4, <1>7, <2>3
  <2>4. ASSUME locked' = locked, Holders' = Holders PROVE Torn'
    BY <1>1, <1>2, <1>3, <1>4, <1>7, <2>4
  <2> QED BY <2>1, <2>2, <2>3, <2>4, HoldersMove
<1> QED BY <1>6, <1>7

\* The header that the flag of the Once stands for, or that its holder has written.
Under == IF done \/ \E w \in Writers : pc[w] = "mark" THEN 1 ELSE 0

\* One header for every press of Publish, and the one the flag stands for.
CountInv ==
  ~ Torn => /\ \A w \in Writers : pc[w] = "separator" => ~ done
            /\ Cardinality(Written("auto")) <= Cardinality(Resets) + Under

HeaderInv == TypeInv /\ JournalInv /\ MarkInv /\ HoldersInv /\ CountInv

\* While the mutex knows who holds it, at most one goroutine is inside Do.
LEMMA OneHolder ==
  ASSUME HoldersInv, ~ Torn, NEW v \in Holders, NEW w \in Holders
  PROVE  v = w /\ locked
<1>1. Cardinality(Holders) = IF locked THEN 1 ELSE 0
  BY DEF Torn
<1>2. Cardinality(Holders) = 1 /\ locked
  BY <1>1, FS_EmptySet DEF HoldersInv
<1>3. \E x : Holders = {x}
  BY <1>2, FS_Singleton DEF HoldersInv
<1> QED BY <1>2, <1>3

\* What a step does to the flag and to the goroutines that write the header.
LEMMA OnceMove ==
  ASSUME TypeInv, [Next]_vars
  PROVE  \/ \E w \in Writers :
              /\ WriteHeader(w) /\ done' = done /\ pc[w] = "separator" /\ pc'[w] = "mark"
              /\ \A v \in Writers \ {w} : pc'[v] = pc[v]
         \/ \E w \in Writers :
              /\ Mark(w) /\ done' /\ pc[w] = "mark" /\ pc'[w] = "unlock"
              /\ \A v \in Writers \ {w} : pc'[v] = pc[v]
         \/ \E p \in Publishers :
              /\ Reset(p) /\ ~ done' /\ ~ locked' /\ \A v \in Writers : pc'[v] = pc[v]
         \/ /\ done' = done /\ \A w \in Writers : ~ WriteHeader(w)
            /\ \A w \in Writers : /\ pc'[w] = "mark" <=> pc[w] = "mark"
                                  /\ pc'[w] = "separator" => pc[w] = "separator" \/ ~ done
<1>0. DOMAIN pc = Goroutines /\ Writers \subseteq Goroutines /\ Publishers \subseteq Goroutines
  BY DEF TypeInv, TypeOK, Goroutines
<1>1. ASSUME NEW w \in Writers, WriteHeader(w)
      PROVE  /\ done' = done /\ pc[w] = "separator" /\ pc'[w] = "mark"
             /\ \A v \in Writers \ {w} : pc'[v] = pc[v]
  BY <1>0, <1>1 DEF WriteHeader, WriteSeparator, Goto, onceVars
<1>2. ASSUME NEW w \in Writers, Mark(w)
      PROVE  /\ done' /\ pc[w] = "mark" /\ pc'[w] = "unlock"
             /\ \A v \in Writers \ {w} : pc'[v] = pc[v]
  BY <1>0, <1>2 DEF Mark, Goto
<1>3. ASSUME NEW p \in Publishers, Reset(p)
      PROVE  ~ done' /\ ~ locked' /\ \A v \in Writers : pc'[v] = pc[v]
  BY <1>0, <1>3 DEF Reset, Goto
<1>4. ASSUME \A w \in Writers : ~ WriteHeader(w) /\ ~ Mark(w),
             \A p \in Publishers : ~ Reset(p)
      PROVE  /\ done' = done
             /\ \A w \in Writers : /\ pc'[w] = "mark" <=> pc[w] = "mark"
                                   /\ pc'[w] = "separator" => pc[w] = "separator" \/ ~ done
  <2>1. done' = done
    BY <1>4 DEF Next, Work, Publish, vars, Fill, Spawn, CopyConfig, Copy, OnceDo, Lock, Check,
                Unlock, WriteEntry, Press, CopyToPublish, WritePublished, WriteSeparator,
                Tick, onceVars
  <2>2. ASSUME NEW w \in Writers, pc'[w] # pc[w]
        PROVE  /\ pc'[w] # "mark" /\ pc[w] # "mark"
               /\ pc'[w] = "separator" => ~ done
    <3>1. CASE Spawn(w) \/ OnceDo(w)
      BY <1>0, <3>1 DEF Spawn, OnceDo, Goto
    <3>2. CASE Lock(w) \/ Check(w)
      BY <1>0, <3>2 DEF Lock, Check, Goto
    <3>3. CASE Unlock(w) \/ WriteEntry(w)
      <4>1. \/ pc[w] = "unlock" /\ pc' = [pc EXCEPT ![w] = "entry"]
            \/ pc[w] = "entry" /\ pc' = [pc EXCEPT ![w] = "done"]
        BY <3>3 DEF Unlock, WriteEntry, Goto
      <4> QED BY <1>0, <4>1
    <3>4. CASE CopyConfig(w)
      <4>1. pc[w] = "copy" /\ pc'[w] \in {"copy", "once", "entry"}
        BY <3>4, ThirdField DEF CopyConfig, Copy, Goto
      <4> QED BY <4>1
    <3> QED BY <1>4, <2>2, <3>1, <3>2, <3>3, <3>4, OwnStep DEF Work
  <2> QED BY <2>1, <2>2
<1> QED BY <1>1, <1>2, <1>3, <1>4

\* The count holds in every step after which the mutex still knows its holder.
LEMMA CountStep == HeaderInv /\ [Next]_vars => CountInv'
<1> SUFFICES ASSUME HeaderInv, [Next]_vars, ~ Torn'
             PROVE  /\ \A w \in Writers : pc'[w] = "separator" => ~ done'
                    /\ Cardinality(Written("auto")') <= Cardinality(Resets') + Under'
  BY DEF CountInv
<1> DEFINE a == Cardinality(Written("auto"))
           r == Cardinality(Resets)
<1>0. /\ HoldersInv' /\ HoldersInv /\ TypeInv /\ JournalInv /\ MarkInv /\ ~ Torn
      /\ \A w \in Writers : pc[w] = "separator" => ~ done
      /\ a <= r + Under
  BY HoldersStep, TornStays DEF HeaderInv, CountInv
<1>1. a \in Nat /\ r \in Nat /\ Cardinality(Written("auto")') \in Nat /\ Cardinality(Resets') \in Nat
  BY <1>0, FS_CardinalityType DEF HoldersInv
<1>2. r <= Cardinality(Resets')
  <2>1. Resets \subseteq Resets' /\ IsFiniteSet(Resets')
    BY <1>0, ResetsGrow DEF HoldersInv
  <2> QED BY <2>1, FS_Subset
<1>3. (\A w \in Writers : ~ WriteHeader(w)) => Written("auto")' = Written("auto")
  BY <1>0, SeparatorsStay
<1>4. \A v, w \in Holders : v = w /\ locked
  BY <1>0, OneHolder
<1>5. \A w \in Writers : pc[w] \in {"mark", "separator"} => w \in Holders
  BY DEF Holders
<1>6. ASSUME NEW w \in Writers, WriteHeader(w), done' = done, pc[w] = "separator", pc'[w] = "mark",
             \A v \in Writers \ {w} : pc'[v] = pc[v]
      PROVE  /\ \A v \in Writers : pc'[v] = "separator" => ~ done'
             /\ Cardinality(Written("auto")') <= Cardinality(Resets') + Under'
  <2>1. Under = 0 /\ Under' = 1
    BY <1>0, <1>4, <1>5, <1>6 DEF Under
  <2>2. Cardinality(Written("auto")') <= a + 1
    BY <1>0, <1>1, SeparatorsStay, FS_AddElement DEF HoldersInv
  <2>3. \A v \in Writers : pc'[v] = "separator" => ~ done'
    BY <1>0, <1>6
  <2> HIDE DEF a, r
  <2> QED BY <1>0, <1>1, <1>2, <2>1, <2>2, <2>3
<1>7. ASSUME NEW w \in Writers, Mark(w), done', pc[w] = "mark", pc'[w] = "unlock",
             \A v \in Writers \ {w} : pc'[v] = pc[v]
      PROVE  /\ \A v \in Writers : pc'[v] = "separator" => ~ done'
             /\ Cardinality(Written("auto")') <= Cardinality(Resets') + Under'
  <2>1. Under = 1 /\ Under' = 1
    BY <1>7 DEF Under
  <2>2. \A v \in Writers : pc'[v] # "separator"
    BY <1>4, <1>5, <1>7
  <2>3. \A v \in Writers : ~ WriteHeader(v)
    BY <1>4, <1>5, <1>7 DEF WriteHeader, WriteSeparator, Goto
  <2>4. Cardinality(Written("auto")') = a
    BY <1>3, <2>3
  <2> HIDE DEF a, r
  <2> QED BY <1>0, <1>1, <1>2, <2>1, <2>2, <2>4
<1>8. ASSUME NEW p \in Publishers, Reset(p), ~ done', ~ locked',
             \A v \in Writers : pc'[v] = pc[v]
      PROVE  /\ \A v \in Writers : pc'[v] = "separator" => ~ done'
             /\ Cardinality(Written("auto")') <= Cardinality(Resets') + Under'
  <2>1. Under \in {0, 1} /\ Under' \in {0, 1}
    BY DEF Under
  <2>2. Holders' = {}
    <3>1. Cardinality(Holders') = 0
      BY <1>8 DEF Torn
    <3> QED BY <1>0, <3>1, FS_EmptySet DEF HoldersInv
  <2>3. \A v \in Writers : pc[v] # "separator"
    BY <1>8, <2>2 DEF Holders
  <2>4. Cardinality(Written("auto")') = a
    BY <1>3, <2>3 DEF WriteHeader, WriteSeparator, Goto
  <2>5. r + 1 <= Cardinality(Resets')
    <3>1. p \in Resets' /\ p \notin Resets /\ Resets \subseteq Resets' /\ IsFiniteSet(Resets')
      BY <1>0, <1>8, ResetsGrow DEF HoldersInv
    <3>2. Cardinality(Resets \cup {p}) = r + 1
      BY <1>0, <3>1, FS_AddElement DEF HoldersInv
    <3>3. Cardinality(Resets \cup {p}) <= Cardinality(Resets')
      <4>1. Resets \cup {p} \in SUBSET Resets'
        BY <3>1
      <4> QED BY <3>1, <4>1, FS_Subset
    <3> QED BY <3>2, <3>3
  <2> HIDE DEF a, r
  <2> QED BY <1>0, <1>1, <1>8, <2>1, <2>4, <2>5
<1>9. ASSUME done' = done, \A w \in Writers : ~ WriteHeader(w),
             \A w \in Writers : /\ pc'[w] = "mark" <=> pc[w] = "mark"
                                /\ pc'[w] = "separator" => pc[w] = "separator" \/ ~ done
      PROVE  /\ \A v \in Writers : pc'[v] = "separator" => ~ done'
             /\ Cardinality(Written("auto")') <= Cardinality(Resets') + Under'
  <2>1. Under' = Under /\ Under \in {0, 1}
    BY <1>9 DEF Under
  <2>2. Cardinality(Written("auto")') = a
    BY <1>3, <1>9
  <2>3. \A v \in Writers : pc'[v] = "separator" => ~ done'
    BY <1>0, <1>9
  <2> HIDE DEF a, r
  <2> QED BY <1>0, <1>1, <1>2, <2>1, <2>2, <2>3
<1> QED BY <1>0, <1>6, <1>7, <1>8, <1>9, OnceMove

\* A daemon that has just started.
LEMMA InitCounted == Init => HeaderInv
<1> SUFFICES ASSUME Init PROVE HeaderInv
  OBVIOUS
<1>1. \A n \in Names : ToSet(journal[n]) = {}
  BY ContentSet DEF Init
<1>2. (\A g \in Goroutines : pc[g] = "idle") /\ ~ done /\ ~ locked
  BY DEF Init
<1>3. \A k : Written(k) = {}
  BY <1>1 DEF Written
<1>4. Holders = {} /\ Resets = {}
  BY <1>2 DEF Holders, Resets, Goroutines
<1>5. JournalInv
  BY <1>1 DEF JournalInv, Content
<1>6. MarkInv
  BY <1>2 DEF MarkInv, Goroutines
<1>7. HoldersInv
  BY <1>2, <1>3, <1>4, FS_EmptySet DEF HoldersInv
<1>8. CountInv
  <2>1. Under = 0
    BY <1>2 DEF Under, Goroutines
  <2> QED BY <1>2, <1>3, <1>4, <2>1, FS_EmptySet DEF CountInv, Goroutines
<1> QED BY <1>5, <1>6, <1>7, <1>8, InitTyped DEF HeaderInv

\* The invariant of the header is inductive.
LEMMA HeaderStep == HeaderInv /\ [Next]_vars => HeaderInv'
BY TypeStep, JournalStep, MarkStep, HoldersStep, CountStep DEF HeaderInv

\* A Reset inside somebody's Do is never made good: from then on, until the runtime ends
\* the daemon, more goroutines are inside Do than the mutex knows of.
THEOREM TornForEver == SafeSpec => [][Torn => Torn']_vars
<1>1. HeaderInv /\ [Next]_vars => [Torn => Torn']_vars
  BY TornStays DEF HeaderInv
<1> QED BY <1>1, InitCounted, HeaderStep, PTL DEF SafeSpec

\* For any number of operations and presses of Publish: while no Reset falls into a Do
\* there is one header, and one more at most per press; and no entry comes before it.
THEOREM HeaderFirst == SafeSpec => []OneHeaderFirst
<1>1. HeaderInv => OneHeaderFirst
  <2> SUFFICES ASSUME HeaderInv PROVE OneHeaderFirst
    OBVIOUS
  <2>1. ASSUME ~ Torn PROVE Cardinality(Written("auto")) <= 1 + Cardinality(Resets)
    <3>1. /\ Cardinality(Written("auto")) \in Nat /\ Cardinality(Resets) \in Nat
      BY FS_CardinalityType DEF HeaderInv, HoldersInv
    <3>2. Cardinality(Written("auto")) <= Cardinality(Resets) + Under
      BY <2>1 DEF HeaderInv, CountInv
    <3> QED BY <3>1, <3>2 DEF Under
  <2>2. ASSUME NEW w \in Written("entry"), obs[w][3] = "append" PROVE Marked
    <3>1. w \in Writers /\ pc[w] = "done" /\ obs[w] # <<>>
      BY <2>2 DEF Written, HeaderInv, JournalInv, Content
    <3> QED BY <2>2, <3>1 DEF HeaderInv, MarkInv
  <2> QED BY <2>1, <2>2 DEF OneHeaderFirst, Marked
<1> QED BY <1>1, InitCounted, HeaderStep, PTL DEF SafeSpec
===============================================================================
