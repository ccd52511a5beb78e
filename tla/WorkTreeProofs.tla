---------------------------- MODULE WorkTreeProofs ----------------------------
(***************************************************************************)
(* Proofs about WorkTree, for any files, commands, programs and limits, and   *)
(* whatever others do to the working directory meanwhile.                    *)
(***************************************************************************)
EXTENDS WorkTree, SequenceTheorems, TLAPS

USE FileAssumption, TreeAssumption, AbsenceAssumption, BoundAssumption
USE DEF vars, fileVars, programVars, commandVars, othersVars

Gone == {NoDir, Absent}

\* Texts and lists of texts are contents, and neither is an absent file.
LEMMA ContentFacts ==
  /\ <<>> \in Contents /\ NoDir \in Contents /\ Absent \in Contents
  /\ <<>> \notin Gone /\ \A t \in Texts : <<t>> \in Contents /\ <<t>> \notin Gone
  /\ \A s \in Contents : s \notin Gone => s \in Seq(Texts)
  /\ \A c \in Commands : c.text \in Texts
  /\ Foreign \in Texts
<1>1. (\A c \in Commands : c.text \in Texts) /\ Foreign \in Texts
  BY DEF Texts
<1>2. PICK T : T = Texts
  OBVIOUS
<1>3. <<>> \in Seq(T) /\ \A t \in T : <<t>> \in Seq(T)
  OBVIOUS
<1>4. \A s \in Seq(Texts) : s \in Contents /\ s \notin Gone
  BY DEF Contents, Gone
<1>5. /\ NoDir \in Contents /\ Absent \in Contents
      /\ \A s \in Contents : s \notin Gone => s \in Seq(Texts)
  BY DEF Contents, Gone
<1> QED BY <1>1, <1>2, <1>3, <1>4, <1>5

\* What WriteText and AppendText put into a file that is there.
LEMMA WrittenContents ==
  ASSUME NEW s \in Contents, s \notin Gone, NEW t \in Texts
  PROVE  /\ <<t>> \o SubSeq(s, 2, Len(s)) \in Contents
         /\ Append(s, t) \in Contents
         /\ <<t>> \o SubSeq(s, 2, Len(s)) \notin Gone /\ Append(s, t) \notin Gone
         /\ s = <<>> => <<t>> \o SubSeq(s, 2, Len(s)) = <<t>> /\ Append(s, t) = <<t>>
<1>1. PICK q \in Seq(Texts) : q = s
  BY ContentFacts
<1>2. <<t>> \in Seq(Texts) /\ Append(q, t) \in Seq(Texts)
  OBVIOUS
<1>3. SubSeq(q, 2, Len(q)) \in Seq(Texts)
  <2>1. Len(q) \in Nat /\ \A i \in 2..Len(q) : i \in 1..Len(q)
    OBVIOUS
  <2> QED BY <2>1, SubSeqProperties
<1>4. <<t>> \o SubSeq(q, 2, Len(q)) \in Seq(Texts)
  BY <1>2, <1>3
<1>5. \A r \in Seq(Texts) : r \in Contents /\ r \notin Gone
  BY DEF Contents, Gone
<1>6. q = <<>> => Append(q, t) = <<t>> /\ <<t>> \o SubSeq(q, 2, Len(q)) = <<t>>
  <2> SUFFICES ASSUME q = <<>> PROVE Append(q, t) = <<t>> /\ <<t>> \o SubSeq(q, 2, Len(q)) = <<t>>
    OBVIOUS
  <2>1. Len(<<>>) = 0 /\ <<>> \in Seq(Texts) /\ Append(<<>>, t) = <<t>>
    OBVIOUS
  <2>2. SubSeq(<<>>, 2, 0) = <<>>
    BY <2>1, SubSeqEmpty
  <2>3. <<t>> \o <<>> = <<t>>
    BY <1>2, ConcatEmptySeq
  <2> QED BY <2>1, <2>2, <2>3
<1> QED BY <1>1, <1>2, <1>4, <1>5, <1>6

\* A refusal is one of the answers that tell of one.
LEMMA RefusalKinds == \A c \in Commands : Refusal(c) \in Refusals \cup {"none"}
BY CommandAssumption DEF Refusal, WriteRefusal, PatchRefusal, PythonRefusal, SubRefusal, Refusals

\* A write that is not refused has a path in the working directory and a mode.
LEMMA NotRefused ==
  \A c \in Commands : Refusal(c) = "none" /\ c.op = "write" => c.path \in Files /\ c.mode \in Modes
BY CommandAssumption DEF Refusal, WriteRefusal

-------------------------------------------------------------------------------
(* Type correctness.                                                          *)

\* A file that the operation has open, and that is still at its path, is there.
OpenInv == pc \in {"write", "append"} /\ linked => Exists(cmd.path)

TypeInv == TypeOK /\ OpenInv

\* The two halves of TypeOK: the directory, and the rest.
DiskOK == disk \in [Files -> Contents] /\ old \in [Files -> Contents]
RestOK ==
  /\ cmd \in Commands
  /\ pc \in Steps \cup {"idle", "run"}
  /\ pc \in Steps => cmd.op = "write" /\ cmd.path \in Files
  /\ child \in {"none", "running", "ok", "failed", "killed"}
  /\ linked \in BOOLEAN /\ piped \in BOOLEAN
  /\ left \in Int
  /\ touched \in [Files -> {"no", "saved", "removed"}]
  /\ starts \in 0..MaxStarts /\ touches \in 0..MaxTouches /\ exits \in 0..MaxExits

LEMMA Halves == TypeInv <=> DiskOK /\ RestOK /\ OpenInv
BY DEF TypeInv, TypeOK, DiskOK, RestOK

LEMMA Bounds == MaxTimeout \in Int /\ MaxStarts \in Nat /\ MaxTouches \in Nat /\ MaxExits \in Nat
OBVIOUS

\* Every step keeps the types, and an open file stays a file.
LEMMA TypeStep == TypeInv /\ [Next]_vars => TypeInv'
<1> SUFFICES ASSUME DiskOK, RestOK, OpenInv, [Next]_vars PROVE DiskOK' /\ RestOK' /\ OpenInv'
  <2>1. TypeInv' <=> DiskOK' /\ RestOK' /\ OpenInv'
    BY DEF TypeInv, TypeOK, DiskOK, RestOK, OpenInv
  <2> QED BY <2>1, Halves
<1> USE Bounds DEF Exists, Put, Goto, Answer, Steps
<1>1. ASSUME NEW c \in Commands, Start(c) PROVE DiskOK' /\ RestOK' /\ OpenInv'
  <2>1. DiskOK'
    BY <1>1 DEF Start, DiskOK
  <2>2. RestOK'
    <3>1. c.op = "write" /\ Refusal(c) = "none" => c.path \in Files /\ c.mode \in Modes
      BY NotRefused
    <3>2. left' \in Int
      BY <1>1, CommandAssumption DEF Start, Limit, GoLimit, PythonLimit, PythonDefault
    <3>3. /\ pc' \in {"idle", "run", "stat", "mkdir", "openAppend"}
          /\ pc' \in Steps => c.op = "write" /\ c.path \in Files
      BY <1>1, <3>1 DEF Start, Modes
    <3>4. child' \in {"none", "failed", "running"}
      BY <1>1 DEF Start
    <3>5. starts' \in 0..MaxStarts
      BY <1>1 DEF Start, RestOK
    <3>6. touched' \in [Files -> {"no", "saved", "removed"}]
      BY <1>1 DEF Start
    <3>7. cmd' = c /\ UNCHANGED <<linked, touches, exits>> /\ piped' = FALSE
      BY <1>1 DEF Start
    <3> QED BY <3>2, <3>3, <3>4, <3>5, <3>6, <3>7 DEF RestOK
  <2>3. OpenInv'
    <3>1. pc' \notin {"write", "append"}
      <4>1. c.op = "write" /\ Refusal(c) = "none" => c.mode \in Modes
        BY NotRefused
      <4> QED BY <1>1, <4>1 DEF Start, Modes
    <3> QED BY <3>1 DEF OpenInv
  <2> QED BY <2>1, <2>2, <2>3
<1>2. CASE Stat
  <2>1. DiskOK'
    BY <1>2 DEF Stat, DiskOK
  <2>2. RestOK'
    BY <1>2 DEF Stat, RestOK
  <2>3. OpenInv'
    BY <1>2 DEF Stat, OpenInv
  <2> QED BY <2>1, <2>2, <2>3
<1>3. CASE MkdirAll
  <2>1. DiskOK'
    BY <1>3, ContentFacts DEF MkdirAll, DiskOK
  <2>2. RestOK'
    BY <1>3 DEF MkdirAll, RestOK
  <2>3. OpenInv'
    BY <1>3 DEF MkdirAll, OpenInv
  <2> QED BY <2>1, <2>2, <2>3
<1>4. CASE Truncate
  <2>1. DiskOK'
    BY <1>4, ContentFacts DEF Truncate, DiskOK
  <2>2. RestOK'
    BY <1>4 DEF Truncate, RestOK
  <2>3. OpenInv'
    BY <1>4, ContentFacts DEF Truncate, OpenInv, DiskOK, RestOK, Gone
  <2> QED BY <2>1, <2>2, <2>3
<1>5. CASE WriteText
  <2>1. DiskOK'
    <3>1. PICK t \in Texts, s \in Contents : t = cmd.text /\ s = disk[cmd.path]
      BY <1>5, ContentFacts DEF WriteText, DiskOK, RestOK
    <3>2. linked => s \notin Gone
      BY <1>5, <3>1 DEF WriteText, OpenInv, Gone
    <3>3. linked => <<t>> \o SubSeq(s, 2, Len(s)) \in Contents
      BY <3>2, WrittenContents
    <3> QED BY <1>5, <3>1, <3>3 DEF WriteText, DiskOK
  <2>2. RestOK'
    BY <1>5 DEF WriteText, RestOK
  <2>3. OpenInv'
    BY <1>5 DEF WriteText, OpenInv
  <2> QED BY <2>1, <2>2, <2>3
<1>6. CASE OpenAppend
  <2>1. DiskOK'
    BY <1>6, ContentFacts DEF OpenAppend, DiskOK
  <2>2. RestOK'
    BY <1>6 DEF OpenAppend, RestOK
  <2>3. OpenInv'
    BY <1>6, ContentFacts DEF OpenAppend, OpenInv, DiskOK, RestOK, Gone
  <2> QED BY <2>1, <2>2, <2>3
<1>7. CASE AppendText
  <2>1. DiskOK'
    <3>1. PICK t \in Texts, s \in Contents : t = cmd.text /\ s = disk[cmd.path]
      BY <1>7, ContentFacts DEF AppendText, DiskOK, RestOK
    <3>2. linked => s \notin Gone
      BY <1>7, <3>1 DEF AppendText, OpenInv, Gone
    <3>3. linked => Append(s, t) \in Contents
      BY <3>2, WrittenContents
    <3> QED BY <1>7, <3>1, <3>3 DEF AppendText, DiskOK
  <2>2. RestOK'
    BY <1>7 DEF AppendText, RestOK
  <2>3. OpenInv'
    BY <1>7 DEF AppendText, OpenInv
  <2> QED BY <2>1, <2>2, <2>3
<1>8. CASE Return
  <2>1. DiskOK'
    BY <1>8 DEF Return, DiskOK
  <2>2. RestOK'
    BY <1>8 DEF Return, RestOK
  <2>3. OpenInv'
    BY <1>8 DEF Return, OpenInv
  <2> QED BY <2>1, <2>2, <2>3
<1>9. CASE Kill
  <2>1. DiskOK'
    BY <1>9 DEF Kill, DiskOK
  <2>2. RestOK'
    BY <1>9 DEF Kill, RestOK
  <2>3. OpenInv'
    BY <1>9 DEF Kill, OpenInv
  <2> QED BY <2>1, <2>2, <2>3
<1>10. CASE Tick
  <2>1. DiskOK'
    BY <1>10 DEF Tick, DiskOK
  <2>2. RestOK'
    BY <1>10 DEF Tick, RestOK
  <2>3. OpenInv'
    BY <1>10 DEF Tick, OpenInv
  <2> QED BY <2>1, <2>2, <2>3
<1>11. CASE ChildExits
  <2>1. DiskOK'
    BY <1>11, ContentFacts, CommandAssumption DEF ChildExits, Applied, DiskOK, RestOK
  <2>2. RestOK'
    BY <1>11 DEF ChildExits, RestOK
  <2>3. OpenInv'
    BY <1>11 DEF ChildExits, OpenInv
  <2> QED BY <2>1, <2>2, <2>3
<1>12. CASE Fork
  <2>1. DiskOK'
    BY <1>12 DEF Fork, DiskOK
  <2>2. RestOK'
    BY <1>12 DEF Fork, RestOK
  <2>3. OpenInv'
    BY <1>12 DEF Fork, OpenInv
  <2> QED BY <2>1, <2>2, <2>3
<1>13. CASE LeavePipe
  <2>1. DiskOK'
    BY <1>13 DEF LeavePipe, DiskOK
  <2>2. RestOK'
    BY <1>13 DEF LeavePipe, RestOK
  <2>3. OpenInv'
    BY <1>13 DEF LeavePipe, OpenInv
  <2> QED BY <2>1, <2>2, <2>3
<1>14. ASSUME NEW f \in Files, Save(f) PROVE DiskOK' /\ RestOK' /\ OpenInv'
  <2>1. DiskOK'
    BY <1>14, ContentFacts DEF Save, Touch, DiskOK
  <2>2. RestOK'
    BY <1>14 DEF Save, Touch, RestOK
  <2>3. OpenInv'
    BY <1>14, ContentFacts DEF Save, Touch, OpenInv, DiskOK, RestOK, Gone
  <2> QED BY <2>1, <2>2, <2>3
<1>15. ASSUME NEW f \in Files, Remove(f) PROVE DiskOK' /\ RestOK' /\ OpenInv'
  <2>1. DiskOK'
    BY <1>15, ContentFacts DEF Remove, Touch, DiskOK, Gone
  <2>2. RestOK'
    BY <1>15 DEF Remove, Touch, RestOK
  <2>3. OpenInv'
    BY <1>15 DEF Remove, Touch, OpenInv, DiskOK, RestOK
  <2> QED BY <2>1, <2>2, <2>3
<1>16. CASE Exit
  <2>1. DiskOK'
    BY <1>16 DEF Exit, DiskOK
  <2>2. RestOK'
    <3>1. exits' \in 0..MaxExits
      BY <1>16 DEF Exit, RestOK
    <3>2. pc' = "idle" /\ child' = "none" /\ piped' = FALSE
      BY <1>16 DEF Exit
    <3> QED BY <1>16, <3>1, <3>2 DEF Exit, RestOK
  <2>3. OpenInv'
    BY <1>16 DEF Exit, OpenInv
  <2> QED BY <2>1, <2>2, <2>3
<1>17. CASE UNCHANGED vars
  <2>1. DiskOK'
    BY <1>17 DEF DiskOK
  <2>2. RestOK'
    BY <1>17 DEF RestOK
  <2>3. OpenInv'
    BY <1>17 DEF OpenInv
  <2> QED BY <2>1, <2>2, <2>3
<1> QED BY <1>1, <1>2, <1>3, <1>4, <1>5, <1>6, <1>7, <1>8, <1>9, <1>10, <1>11, <1>12, <1>13,
           <1>14, <1>15, <1>16, <1>17 DEF Next, Write

\* Before the first command everything has its type.
LEMMA TypeInit == Init => TypeInv
<1> SUFFICES ASSUME Init PROVE DiskOK /\ RestOK /\ OpenInv
  BY Halves
<1>1. DiskOK
  BY DEF Init, DiskOK
<1>2. RestOK
  <2>1. starts \in 0..MaxStarts /\ touches \in 0..MaxTouches /\ exits \in 0..MaxExits
    BY Bounds DEF Init
  <2>2. pc \in Steps \cup {"idle", "run"} /\ pc \notin Steps
    BY DEF Init, Steps
  <2>3. touched \in [Files -> {"no", "saved", "removed"}]
    BY DEF Init
  <2>4. cmd \in Commands /\ child \in {"none", "running", "ok", "failed", "killed"}
        /\ left \in Int
    BY DEF Init
  <2>5. linked \in BOOLEAN /\ piped \in BOOLEAN
    BY Zenon DEF Init
  <2> QED BY <2>1, <2>2, <2>3, <2>4, <2>5 DEF RestOK
<1>3. OpenInv
  BY DEF Init, OpenInv
<1> QED BY <1>1, <1>2, <1>3

\* Type correctness, for any files and commands.
THEOREM TypeCorrect == SafeSpec => []TypeOK
<1>1. TypeInv => TypeOK
  BY DEF TypeInv
<1> QED BY <1>1, TypeInit, TypeStep, PTL DEF SafeSpec

-------------------------------------------------------------------------------
(* What is known at each call of an operation.                                *)

\* The calls made depend on the mode; those that wrote nothing are over.
CallInv ==
  /\ pc = "run" => cmd.op # "write"
  /\ pc = "stat" => cmd.mode = "create"
  /\ pc \in {"mkdir", "truncate", "write"} => cmd.mode # "append"
  /\ pc \in {"openAppend", "append"} => cmd.mode = "append"

\* A program and its pipe are there while the operation waits, and only then; it is
\* killed where its time is over.
ProgramInv ==
  /\ pc # "run" => child # "running" /\ ~ piped
  /\ pc \in Steps => child = "none"
  /\ pc = "run" /\ child = "killed" => Expired

\* Before Stat nothing has been changed but by others; after it the file of a create
\* was not there, or somebody has removed it.
SparedInv ==
  /\ pc = "stat" => \A f \in Files : /\ touched[f] = "no" => disk[f] = old[f]
                                     /\ touched[f] = "saved" => disk[f] \notin Gone
  /\ pc \in {"mkdir", "truncate", "write"} /\ cmd.mode = "create"
       => old[cmd.path] \in Gone \/ touched[cmd.path] = "removed"

\* What a file that others leave alone holds before the last call.
TextInv ==
  pc \in Steps /\ touched[cmd.path] = "no" =>
    /\ pc = "write" => linked /\ disk[cmd.path] = <<>>
    /\ pc = "openAppend" => disk[cmd.path] = old[cmd.path]
    /\ pc = "append" => linked /\ disk[cmd.path] = IF old[cmd.path] = Absent THEN <<>>
                                                   ELSE old[cmd.path]

\* A patch changes nothing until git apply has ended well, and then all its files.
PatchInv ==
  pc = "run" /\ cmd.op = "patch" =>
    /\ child # "ok" => \A f \in Files : touched[f] = "no" => disk[f] = old[f]
    /\ child = "ok" => \A f \in cmd.changes : touched[f] = "no" => disk[f] = <<cmd.text>>

\* What a write asks for.
Wanted == CASE cmd.mode = "append" /\ old[cmd.path] # Absent -> Append(old[cmd.path], cmd.text)
            [] OTHER -> <<cmd.text>>

\* The words of an answer about a program; that it has ended is in ProgramInv.
Told ==
  pc = "idle" =>
    /\ code = "OK" /\ cmd.op # "write" => child = "ok" /\ ~ Expired
    /\ child = "killed" => code = "TIMEOUT"

\* The answers tell the truth; one of OK to a write is about a file.
WriteTrue ==
  pc = "idle" /\ code = "OK" /\ cmd.op = "write" =>
    cmd.path \in Files /\ (touched[cmd.path] = "no" => disk[cmd.path] = Wanted)
PatchTrue ==
  pc = "idle" /\ code = "OK" =>
    \A f \in cmd.changes : touched[f] = "no" => disk[f] = <<cmd.text>>
OutcomeInv == WriteTrue /\ PatchTrue /\ RefusedLeavesNoTrace /\ Told

IInv == TypeInv /\ CallInv /\ ProgramInv /\ SparedInv /\ TextInv /\ PatchInv /\ OutcomeInv

\* Every step keeps what is known at the calls.
LEMMA CallStep ==
  ASSUME IInv, [Next]_vars
  PROVE  CallInv' /\ ProgramInv' /\ SparedInv' /\ TextInv' /\ PatchInv'
<1> DEFINE Kept == CallInv' /\ ProgramInv' /\ SparedInv' /\ TextInv' /\ PatchInv'
<1>0. DiskOK /\ RestOK /\ OpenInv /\ CallInv /\ ProgramInv /\ SparedInv /\ TextInv /\ PatchInv
      /\ OutcomeInv
  BY Halves DEF IInv
<1> USE <1>0 DEF Exists, Put, Goto, Answer, Steps, Gone, Timed, DiskOK, RestOK
<1> HIDE DEF Kept
<1>1. ASSUME NEW c \in Commands, Start(c) PROVE Kept
  <2>0. /\ pc' \in {"idle", "run", "stat", "mkdir", "openAppend"} /\ cmd' = c
        /\ pc' = "run" => c.op # "write"
        /\ pc' = "stat" => c.mode = "create"
        /\ pc' = "mkdir" => c.mode = "overwrite"
        /\ pc' = "openAppend" => c.mode = "append"
    BY <1>1, NotRefused DEF Start, Modes
  <2>1. CallInv'
    BY <2>0 DEF CallInv
  <2>2. ProgramInv'
    BY <1>1 DEF Start, ProgramInv, Expired
  <2>3. SparedInv'
    BY <1>1 DEF Start, SparedInv, CallInv
  <2>4. TextInv'
    <3>1. disk' = disk /\ old' = disk
      BY <1>1 DEF Start
    <3> QED BY <2>0, <3>1 DEF TextInv
  <2>5. PatchInv'
    BY <1>1 DEF Start, PatchInv
  <2> QED BY <2>1, <2>2, <2>3, <2>4, <2>5 DEF Kept
<1>2. CASE Stat
  <2>1. CallInv'
    BY <1>2 DEF Stat, CallInv
  <2>2. ProgramInv'
    BY <1>2 DEF Stat, ProgramInv, Expired
  <2>3. SparedInv'
    BY <1>2 DEF Stat, SparedInv, CallInv
  <2>4. TextInv'
    BY <1>2 DEF Stat, TextInv
  <2>5. PatchInv'
    BY <1>2 DEF Stat, PatchInv
  <2> QED BY <2>1, <2>2, <2>3, <2>4, <2>5 DEF Kept
<1>3. CASE MkdirAll
  <2>1. CallInv'
    BY <1>3 DEF MkdirAll, CallInv
  <2>2. ProgramInv'
    BY <1>3 DEF MkdirAll, ProgramInv, Expired
  <2>3. SparedInv'
    BY <1>3 DEF MkdirAll, SparedInv, CallInv
  <2>4. TextInv'
    BY <1>3 DEF MkdirAll, TextInv
  <2>5. PatchInv'
    BY <1>3 DEF MkdirAll, PatchInv
  <2> QED BY <2>1, <2>2, <2>3, <2>4, <2>5 DEF Kept
<1>4. CASE Truncate
  <2>1. CallInv'
    BY <1>4 DEF Truncate, CallInv
  <2>2. ProgramInv'
    BY <1>4 DEF Truncate, ProgramInv, Expired
  <2>3. SparedInv'
    BY <1>4 DEF Truncate, SparedInv, CallInv
  <2>4. TextInv'
    BY <1>4 DEF Truncate, TextInv
  <2>5. PatchInv'
    BY <1>4 DEF Truncate, PatchInv
  <2> QED BY <2>1, <2>2, <2>3, <2>4, <2>5 DEF Kept
<1>5. CASE WriteText
  <2>1. CallInv'
    BY <1>5 DEF WriteText, CallInv
  <2>2. ProgramInv'
    BY <1>5 DEF WriteText, ProgramInv, Expired
  <2>3. SparedInv'
    BY <1>5 DEF WriteText, SparedInv, CallInv
  <2>4. TextInv'
    BY <1>5 DEF WriteText, TextInv
  <2>5. PatchInv'
    BY <1>5 DEF WriteText, PatchInv
  <2> QED BY <2>1, <2>2, <2>3, <2>4, <2>5 DEF Kept
<1>6. CASE OpenAppend
  <2>1. CallInv'
    BY <1>6 DEF OpenAppend, CallInv
  <2>2. ProgramInv'
    BY <1>6 DEF OpenAppend, ProgramInv, Expired
  <2>3. SparedInv'
    BY <1>6 DEF OpenAppend, SparedInv, CallInv
  <2>4. TextInv'
    BY <1>6 DEF OpenAppend, TextInv
  <2>5. PatchInv'
    BY <1>6 DEF OpenAppend, PatchInv
  <2> QED BY <2>1, <2>2, <2>3, <2>4, <2>5 DEF Kept
<1>7. CASE AppendText
  <2>1. CallInv'
    BY <1>7 DEF AppendText, CallInv
  <2>2. ProgramInv'
    BY <1>7 DEF AppendText, ProgramInv, Expired
  <2>3. SparedInv'
    BY <1>7 DEF AppendText, SparedInv, CallInv
  <2>4. TextInv'
    BY <1>7 DEF AppendText, TextInv
  <2>5. PatchInv'
    BY <1>7 DEF AppendText, PatchInv
  <2> QED BY <2>1, <2>2, <2>3, <2>4, <2>5 DEF Kept
<1>8. CASE Return
  <2>1. CallInv'
    BY <1>8 DEF Return, Expired, CallInv
  <2>2. ProgramInv'
    BY <1>8 DEF Return, Expired, ProgramInv, Expired
  <2>3. SparedInv'
    BY <1>8 DEF Return, Expired, SparedInv, CallInv
  <2>4. TextInv'
    BY <1>8 DEF Return, Expired, TextInv
  <2>5. PatchInv'
    BY <1>8 DEF Return, Expired, PatchInv
  <2> QED BY <2>1, <2>2, <2>3, <2>4, <2>5 DEF Kept
<1>9. CASE Kill
  <2>1. CallInv'
    BY <1>9 DEF Kill, CallInv
  <2>2. ProgramInv'
    BY <1>9 DEF Kill, ProgramInv, Expired
  <2>3. SparedInv'
    BY <1>9 DEF Kill, SparedInv, CallInv
  <2>4. TextInv'
    BY <1>9 DEF Kill, TextInv
  <2>5. PatchInv'
    BY <1>9 DEF Kill, PatchInv
  <2> QED BY <2>1, <2>2, <2>3, <2>4, <2>5 DEF Kept
<1>10. CASE Tick
  <2>1. CallInv'
    BY <1>10 DEF Tick, CallInv
  <2>2. ProgramInv'
    BY <1>10 DEF Tick, ProgramInv, Expired
  <2>3. SparedInv'
    BY <1>10 DEF Tick, SparedInv, CallInv
  <2>4. TextInv'
    BY <1>10 DEF Tick, TextInv
  <2>5. PatchInv'
    BY <1>10 DEF Tick, PatchInv
  <2> QED BY <2>1, <2>2, <2>3, <2>4, <2>5 DEF Kept
<1>11. CASE ChildExits
  <2>1. CallInv'
    BY <1>11 DEF ChildExits, Applied, CallInv
  <2>2. ProgramInv'
    BY <1>11 DEF ChildExits, Applied, ProgramInv, Expired
  <2>3. SparedInv'
    BY <1>11 DEF ChildExits, Applied, SparedInv, CallInv
  <2>4. TextInv'
    BY <1>11 DEF ChildExits, Applied, TextInv
  <2>5. PatchInv'
    BY <1>11, CommandAssumption DEF ChildExits, Applied, PatchInv
  <2> QED BY <2>1, <2>2, <2>3, <2>4, <2>5 DEF Kept
<1>12. CASE Fork
  <2>1. CallInv'
    BY <1>12 DEF Fork, CallInv
  <2>2. ProgramInv'
    BY <1>12 DEF Fork, ProgramInv, Expired
  <2>3. SparedInv'
    BY <1>12 DEF Fork, SparedInv, CallInv
  <2>4. TextInv'
    BY <1>12 DEF Fork, TextInv
  <2>5. PatchInv'
    BY <1>12 DEF Fork, PatchInv
  <2> QED BY <2>1, <2>2, <2>3, <2>4, <2>5 DEF Kept
<1>13. CASE LeavePipe
  <2>1. CallInv'
    BY <1>13 DEF LeavePipe, CallInv
  <2>2. ProgramInv'
    BY <1>13 DEF LeavePipe, ProgramInv, Expired
  <2>3. SparedInv'
    BY <1>13 DEF LeavePipe, SparedInv, CallInv
  <2>4. TextInv'
    BY <1>13 DEF LeavePipe, TextInv
  <2>5. PatchInv'
    BY <1>13 DEF LeavePipe, PatchInv
  <2> QED BY <2>1, <2>2, <2>3, <2>4, <2>5 DEF Kept
<1>14. ASSUME NEW f \in Files, Save(f) PROVE Kept
  <2>1. CallInv'
    BY <1>14 DEF Save, Touch, CallInv
  <2>2. ProgramInv'
    BY <1>14 DEF Save, Touch, ProgramInv, Expired
  <2>3. SparedInv'
    BY <1>14, ContentFacts DEF Save, Touch, SparedInv, CallInv
  <2>4. TextInv'
    BY <1>14 DEF Save, Touch, TextInv
  <2>5. PatchInv'
    BY <1>14 DEF Save, Touch, PatchInv
  <2> QED BY <2>1, <2>2, <2>3, <2>4, <2>5 DEF Kept
<1>15. ASSUME NEW f \in Files, Remove(f) PROVE Kept
  <2>1. CallInv'
    BY <1>15 DEF Remove, Touch, CallInv
  <2>2. ProgramInv'
    BY <1>15 DEF Remove, Touch, ProgramInv, Expired
  <2>3. SparedInv'
    BY <1>15 DEF Remove, Touch, SparedInv, CallInv
  <2>4. TextInv'
    BY <1>15 DEF Remove, Touch, TextInv
  <2>5. PatchInv'
    BY <1>15 DEF Remove, Touch, PatchInv
  <2> QED BY <2>1, <2>2, <2>3, <2>4, <2>5 DEF Kept
<1>16. CASE Exit
  <2>1. CallInv'
    BY <1>16 DEF Exit, CallInv
  <2>2. ProgramInv'
    BY <1>16 DEF Exit, ProgramInv, Expired
  <2>3. SparedInv'
    BY <1>16 DEF Exit, SparedInv, CallInv
  <2>4. TextInv'
    BY <1>16 DEF Exit, TextInv
  <2>5. PatchInv'
    BY <1>16 DEF Exit, PatchInv
  <2> QED BY <2>1, <2>2, <2>3, <2>4, <2>5 DEF Kept
<1>17. CASE UNCHANGED vars
  <2>1. CallInv'
    BY <1>17 DEF CallInv
  <2>2. ProgramInv'
    BY <1>17 DEF ProgramInv, Expired
  <2>3. SparedInv'
    BY <1>17 DEF SparedInv, CallInv
  <2>4. TextInv'
    BY <1>17 DEF TextInv
  <2>5. PatchInv'
    BY <1>17 DEF PatchInv
  <2> QED BY <2>1, <2>2, <2>3, <2>4, <2>5 DEF Kept
<1> QED BY <1>1, <1>2, <1>3, <1>4, <1>5, <1>6, <1>7, <1>8, <1>9, <1>10, <1>11, <1>12, <1>13,
           <1>14, <1>15, <1>16, <1>17 DEF Next, Write, Kept

\* Every step keeps the answers true.
LEMMA OutcomeStep == ASSUME IInv, [Next]_vars PROVE OutcomeInv'
<1>0. DiskOK /\ RestOK /\ OpenInv /\ CallInv /\ ProgramInv /\ SparedInv /\ TextInv /\ PatchInv
      /\ OutcomeInv
  BY Halves DEF IInv
<1> USE <1>0 DEF Put, Goto, Answer
<1>a. ASSUME pc' # "idle" PROVE OutcomeInv'
  BY <1>a DEF OutcomeInv, WriteTrue, PatchTrue, RefusedLeavesNoTrace, Told
<1>b. ASSUME child' = "none", code' \in {"IO_ERROR", "EXITED"} PROVE OutcomeInv'
  BY <1>b DEF OutcomeInv, WriteTrue, PatchTrue, RefusedLeavesNoTrace, Told, Refusals
<1>c. ASSUME child' = "none", code' \in Refusals,
             \A f \in Files : touched'[f] = "no" => disk'[f] = old'[f]
      PROVE  OutcomeInv'
  BY <1>c DEF OutcomeInv, WriteTrue, PatchTrue, RefusedLeavesNoTrace, Told, Refusals
<1>d. pc \in Steps => child = "none"
  BY DEF ProgramInv
<1>w. UNCHANGED <<cmd, old>> => Wanted' = Wanted
  BY DEF Wanted
<1>1. ASSUME NEW c \in Commands, Start(c) PROVE OutcomeInv'
  <2>1. CASE Refusal(c) = "none"
    <3>1. pc' # "idle"
      BY <1>1, <2>1, NotRefused DEF Start, Modes
    <3> QED BY <3>1, <1>a
  <2>2. CASE Refusal(c) # "none"
    <3>1. code' \in Refusals /\ child' = "none" /\ disk' = disk /\ old' = disk
      BY <1>1, <2>2, RefusalKinds DEF Start
    <3> QED BY <3>1, <1>c
  <2> QED BY <2>1, <2>2
<1>2. CASE Stat
  <2>1. CASE pc' = "idle"
    <3>1. code' = "FILE_EXISTS" /\ pc = "stat" /\ UNCHANGED <<child, disk, old, touched>>
      BY <1>2, <2>1 DEF Stat
    <3> QED BY <3>1, <1>c, <1>d DEF SparedInv, Steps, Refusals
  <2> QED BY <2>1, <1>a
<1>3. ASSUME MkdirAll \/ Truncate \/ OpenAppend PROVE OutcomeInv'
  <2>1. pc \in Steps /\ UNCHANGED child /\ (pc' = "idle" => code' = "IO_ERROR")
    BY <1>3 DEF MkdirAll, Truncate, OpenAppend, Steps
  <2> QED BY <2>1, <1>a, <1>b, <1>d
<1>4. ASSUME WriteText \/ AppendText PROVE OutcomeInv'
  <2>1. /\ pc \in Steps /\ child = "none" /\ cmd.op = "write" /\ cmd.path \in Files
        /\ cmd.changes = {} /\ UNCHANGED <<child, cmd, old, touched, left>>
    BY <1>4, <1>d, CommandAssumption DEF WriteText, AppendText, Steps, RestOK
  <2>2. CASE code' = "IO_ERROR"
    BY <2>1, <2>2, <1>b
  <2>3. CASE code' # "IO_ERROR"
    <3>1. pc' = "idle" /\ code' = "OK"
      BY <1>4, <2>3 DEF WriteText, AppendText
    <3>2. ASSUME touched[cmd.path] = "no" PROVE disk'[cmd.path] = Wanted
      <4>1. PICK t \in Texts, s \in Contents, p \in Files :
              t = cmd.text /\ s = disk[cmd.path] /\ p = cmd.path
        BY <2>1, ContentFacts DEF DiskOK, RestOK
      <4>2. CASE WriteText
        <5>1. linked /\ s = <<>> /\ cmd.mode # "append"
          BY <4>1, <4>2, <3>2, <2>1 DEF WriteText, TextInv, CallInv, Steps
        <5>2. disk' = [disk EXCEPT ![p] = <<t>> \o SubSeq(s, 2, Len(s))]
          BY <4>1, <4>2, <2>3, <5>1 DEF WriteText
        <5>3. <<t>> \o SubSeq(s, 2, Len(s)) = <<t>>
          BY <5>1, ContentFacts, WrittenContents
        <5>4. disk'[p] = <<t>>
          BY <5>2, <5>3 DEF DiskOK
        <5>5. Wanted = <<t>>
          BY <4>1, <5>1 DEF Wanted
        <5> QED BY <4>1, <5>4, <5>5
      <4>3. CASE AppendText
        <5>1. linked /\ cmd.mode = "append" /\ s = IF old[p] = Absent THEN <<>> ELSE old[p]
          BY <4>1, <4>3, <3>2, <2>1 DEF AppendText, TextInv, CallInv, Steps
        <5>2. disk' = [disk EXCEPT ![p] = Append(s, t)]
          BY <4>1, <4>3, <2>3, <5>1 DEF AppendText
        <5>3. s = <<>> => Append(s, t) = <<t>>
          BY ContentFacts, WrittenContents
        <5>4. disk'[p] = Append(s, t)
          BY <5>2 DEF DiskOK
        <5>5. CASE old[p] = Absent
          BY <4>1, <5>1, <5>3, <5>4, <5>5 DEF Wanted
        <5>6. CASE old[p] # Absent
          BY <4>1, <5>1, <5>4, <5>6 DEF Wanted
        <5> QED BY <5>5, <5>6
      <4> QED BY <1>4, <4>2, <4>3
    <3>3. WriteTrue' /\ PatchTrue'
      BY <2>1, <3>2, <1>w DEF WriteTrue, PatchTrue
    <3>4. RefusedLeavesNoTrace' /\ Told'
      BY <2>1, <3>1 DEF RefusedLeavesNoTrace, Told, Refusals
    <3> QED BY <3>3, <3>4 DEF OutcomeInv
  <2> QED BY <2>2, <2>3
<1>5. CASE Return
  <2>1. /\ cmd.op # "write" /\ UNCHANGED <<disk, cmd, old, touched, child, left>>
        /\ pc = "run" /\ pc' = "idle" /\ (cmd.op = "patch" => ~ Expired)
        /\ code' = IF Expired THEN "TIMEOUT" ELSE IF child = "ok" THEN "OK" ELSE "FAILED"
    BY <1>5 DEF Return, CallInv, Expired, Timed
  <2>2. \A f \in cmd.changes : cmd.op = "patch"
    BY CommandAssumption DEF RestOK
  <2>3. WriteTrue' /\ PatchTrue'
    BY <2>1, <2>2 DEF WriteTrue, PatchTrue, PatchInv
  <2>4. RefusedLeavesNoTrace'
    BY <2>1 DEF RefusedLeavesNoTrace, PatchInv, Refusals
  <2>5. Told'
    BY <2>1 DEF Told, ProgramInv, Expired
  <2> QED BY <2>3, <2>4, <2>5 DEF OutcomeInv
<1>6. ASSUME Kill \/ Tick \/ ChildExits \/ Fork PROVE OutcomeInv'
  <2>1. pc' = "run"
    BY <1>6 DEF Kill, Tick, ChildExits, Fork
  <2> QED BY <2>1, <1>a
<1>7. ASSUME LeavePipe \/ UNCHANGED vars PROVE OutcomeInv'
  <2>1. UNCHANGED <<pc, code, cmd, old, disk, touched, child, left>>
    BY <1>7 DEF LeavePipe
  <2>2. WriteTrue' /\ PatchTrue'
    BY <2>1, <1>w DEF OutcomeInv, WriteTrue, PatchTrue
  <2>3. RefusedLeavesNoTrace' /\ Told'
    BY <2>1 DEF OutcomeInv, RefusedLeavesNoTrace, Told, Expired
  <2> QED BY <2>2, <2>3 DEF OutcomeInv
<1>8. ASSUME NEW f \in Files, Save(f) \/ Remove(f) PROVE OutcomeInv'
  <2>1. /\ UNCHANGED <<pc, code, cmd, old, child, left>>
        /\ \A g \in Files : touched'[g] = "no" => touched[g] = "no" /\ g # f
        /\ \A g \in Files : g # f => disk'[g] = disk[g]
    BY <1>8 DEF Save, Remove, Touch, DiskOK, RestOK
  <2>2. \A g \in cmd.changes : g \in Files
    BY CommandAssumption DEF RestOK
  <2>3. WriteTrue' /\ PatchTrue'
    BY <2>1, <2>2, <1>w DEF OutcomeInv, WriteTrue, PatchTrue
  <2>4. RefusedLeavesNoTrace' /\ Told'
    BY <2>1 DEF OutcomeInv, RefusedLeavesNoTrace, Told, Expired
  <2> QED BY <2>3, <2>4 DEF OutcomeInv
<1>9. CASE Exit
  BY <1>9, <1>b DEF Exit
<1> QED BY <1>1, <1>2, <1>3, <1>4, <1>5, <1>6, <1>7, <1>8, <1>9 DEF Next, Write

\* The inductive invariant holds before the first command, and in every state.
LEMMA Invariance == SafeSpec => []IInv
<1>1. Init => IInv
  <2> SUFFICES ASSUME Init PROVE IInv
    OBVIOUS
  <2>1. CallInv /\ ProgramInv /\ SparedInv /\ TextInv /\ PatchInv
    BY DEF Init, CallInv, ProgramInv, SparedInv, TextInv, PatchInv, Steps
  <2>2. OutcomeInv
    BY DEF Init, OutcomeInv, WriteTrue, PatchTrue, RefusedLeavesNoTrace, Told, Refusals
  <2> QED BY <2>1, <2>2, TypeInit DEF IInv
<1>2. IInv /\ [Next]_vars => IInv'
  BY TypeStep, CallStep, OutcomeStep DEF IInv
<1> QED BY <1>1, <1>2, PTL DEF SafeSpec

-------------------------------------------------------------------------------
(* The results.                                                               *)

\* An OK tells the truth about every file that nobody else has touched.
THEOREM WrittenTrue == SafeSpec => []WrittenIsThere
<1>1. IInv => WrittenIsThere
  BY DEF IInv, OutcomeInv, WriteTrue, PatchTrue, Wanted, WrittenIsThere
<1> QED BY <1>1, Invariance, PTL

\* Refusals, dry runs and patches that fail leave no trace.
THEOREM RefusedTraceless == SafeSpec => []RefusedLeavesNoTrace
<1>1. IInv => RefusedLeavesNoTrace
  BY DEF IInv, OutcomeInv
<1> QED BY <1>1, Invariance, PTL

\* When an answer is out the program has ended and its pipe is closed; an OK means that
\* it ended well in time, and a killed program is told as such.
THEOREM ToldTruly == SafeSpec => []ProgramToldTruly
<1>1. IInv => ProgramToldTruly
  BY DEF IInv, OutcomeInv, Told, ProgramInv, ProgramToldTruly
<1> QED BY <1>1, Invariance, PTL

\* Mode create changes no file that was there from the beginning, however others race.
THEOREM OldSpared == SafeSpec => CreateSparesOld
<1>1. ASSUME IInv, [Next]_vars
      PROVE  [Write /\ cmd.mode = "create"
                => \A f \in Files : old[f] \notin {NoDir, Absent} /\ touched[f] # "removed"
                     => disk'[f] = disk[f]]_vars
  <2> SUFFICES ASSUME Write, cmd.mode = "create", NEW f \in Files,
                      old[f] \notin {NoDir, Absent}, touched[f] # "removed"
               PROVE  disk'[f] = disk[f]
    OBVIOUS
  <2>1. DiskOK /\ RestOK /\ CallInv /\ SparedInv
    BY <1>1, Halves DEF IInv
  <2>2. pc \in {"mkdir", "truncate", "write"} => f # cmd.path
    BY <2>1 DEF SparedInv, Gone
  <2>3. pc \notin {"openAppend", "append"}
    BY <2>1 DEF CallInv
  <2> QED BY <2>1, <2>2, <2>3
          DEF Write, Stat, MkdirAll, Truncate, WriteText, OpenAppend, AppendText, Put, Goto, DiskOK
<1> QED BY <1>1, Invariance, PTL DEF SafeSpec, CreateSparesOld
===============================================================================
