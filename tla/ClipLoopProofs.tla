---------------------------- MODULE ClipLoopProofs ----------------------------
(***************************************************************************)
(* Proofs about ClipLoop, for any texts, pipelines, clipboards and bounds,    *)
(* and whichever tools fail.                                                *)
(***************************************************************************)
EXTENDS ClipLoop, SequenceTheorems, FiniteSetTheorems, TLAPS

\* A sequence has finitely many places, and so does what holds at some of them.
LEMMA Places ==
  ASSUME NEW n \in Nat, NEW A \in SUBSET (1..n)
  PROVE  IsFiniteSet(A) /\ Cardinality(A) \in Nat /\ Cardinality(A) <= n
<1>1. IsFiniteSet(1..n) /\ Cardinality(1..n) = n
  BY FS_Interval
<1>2. IsFiniteSet(A) /\ Cardinality(A) <= n
  BY <1>1, FS_Subset
<1> QED BY <1>2, FS_CardinalityType

\* One place more makes the count one larger.
LEMMA OneMore ==
  ASSUME NEW n \in Nat, NEW A \in SUBSET (1..n), NEW k, k \notin A
  PROVE  Cardinality(A \cup {k}) = Cardinality(A) + 1
<1>1. IsFiniteSet(A)
  BY Places
<1> QED BY <1>1, FS_AddElement

USE TextAssumption, SourceAssumption, OriginAssumption, BoundAssumption
USE DEF outsideVars, pageVars, restartVars

Statuses == {"waiting", "running", "done", "error"}

\* A batch in a new state leaves the others alone.
LEMMA SetBatch ==
  ASSUME runs \in Seq(Batches), NEW r \in DOMAIN runs, NEW b \in Batches, Set(r, b)
  PROVE  /\ runs' \in Seq(Batches) /\ Len(runs') = Len(runs) /\ DOMAIN runs' = DOMAIN runs
         /\ runs'[r] = b /\ \A q \in DOMAIN runs : q # r => runs'[q] = runs[q]
BY DEF Set

\* The pieces of a batch keep their types when its goroutine makes a step.
LEMMA BatchFields ==
  ASSUME NEW b \in Batches
  PROVE  /\ b.text \in Texts /\ b.step \in Nat \ {0} /\ b.good \in BOOLEAN
         /\ b.target \in Nat /\ b.statuses \in Seq(Statuses)
         /\ b.pc \in {"next", "dispatch", "store", "write", "finish", "done", "killed"}
BY DEF Batches, Statuses

\* Replacing an element keeps the type and the length of a sequence, also where there
\* is no such element.
LEMMA ExceptTyped ==
  ASSUME NEW T, NEW q \in Seq(T), NEW i \in Nat, NEW t \in T
  PROVE  [q EXCEPT ![i] = t] \in Seq(T) /\ Len([q EXCEPT ![i] = t]) = Len(q)
<1>1. CASE i \in 1..Len(q)
  BY <1>1, ExceptSeq
<1>2. CASE i \notin 1..Len(q)
  <2>1. q \in [1..Len(q) -> T]
    OBVIOUS
  <2>2. [q EXCEPT ![i] = t] = q
    BY <1>2, <2>1
  <2> QED BY <2>2
<1> QED BY <1>1, <1>2

\* A status replaced in a list of statuses, if there is one for the step.
LEMMA MarkedTyped ==
  ASSUME NEW b \in Batches, NEW s \in Statuses
  PROVE  Marked(b, s) \in Seq(Statuses) /\ Len(Marked(b, s)) = Len(b.statuses)
<1>1. PICK q \in Seq(Statuses), i \in Nat : b.statuses = q /\ b.step = i
  BY BatchFields
<1>2. [q EXCEPT ![i] = s] \in Seq(Statuses) /\ Len([q EXCEPT ![i] = s]) = Len(q)
  BY <1>1, ExceptTyped
<1>3. CASE q = <<>>
  BY <1>1, <1>3 DEF Marked
<1>4. CASE q # <<>>
  BY <1>1, <1>2, <1>4 DEF Marked
<1> QED BY <1>3, <1>4

\* A response is one of the contents of a clipboard.
LEMMA PayloadTyped == ASSUME NEW b \in Batches PROVE Payload(b) \in Contents
BY BatchFields DEF Payload, Response, Responses, Contents

\* The turn of the poller stays within the tools.
LEMMA TurnTyped == ASSUME turn \in DOMAIN Sources, NextTurn PROVE turn' \in DOMAIN Sources
<1>1. Len(Sources) \in Nat \ {0} /\ DOMAIN Sources = 1..Len(Sources)
  OBVIOUS
<1>2. (turn % Len(Sources)) \in 0..(Len(Sources) - 1)
  BY <1>1
<1> QED BY <1>1, <1>2 DEF NextTurn

-------------------------------------------------------------------------------
(* What one step of a goroutine does to its batch.                            *)

\* PipelineTellsTheTruth of one batch, strengthened: the step is one of the commands.
Tells(b) ==
  LET reached == CASE b.pc = "next" -> "waiting"
                   [] b.pc = "dispatch" -> "running"
                   [] OTHER -> IF b.good THEN "done" ELSE "error" IN
  /\ b.step <= Steps[b.text]
  /\ \A i \in DOMAIN b.statuses :
       b.statuses[i] = IF i < b.step THEN "done" ELSE IF i = b.step THEN reached ELSE "waiting"
  /\ b.pc \in {"store", "write", "finish", "done"} /\ b.good => b.step = Steps[b.text]

\* A batch at one of its ends has no goroutine any more.
Ends == {"done", "killed"}

\* The batch c may become b in one step of its goroutine.
Follows(c, b) == b \in Batches /\ b.text = c.text /\ c.pc \notin Ends /\ (Tells(c) => Tells(b))

\* Before a command, its status becomes "running".
LEMMA BeginFollows ==
  ASSUME NEW c \in Batches, c.pc = "next"
  PROVE  Follows(c, [c EXCEPT !.pc = "dispatch", !.statuses = Marked(c, "running")])
<1>1. PICK b : b = [c EXCEPT !.pc = "dispatch", !.statuses = Marked(c, "running")]
  OBVIOUS
<1>2. Marked(c, "running") \in Seq(Statuses) /\ Len(Marked(c, "running")) = Len(c.statuses)
  BY MarkedTyped DEF Statuses
<1>3. /\ b.text = c.text /\ b.step = c.step /\ b.good = c.good /\ b.target = c.target
      /\ b.pc = "dispatch" /\ b.statuses = Marked(c, "running")
  BY <1>1 DEF Batches
<1>4. b \in Batches
  BY <1>1, <1>2 DEF Batches, Statuses
<1>5. ASSUME Tells(c) PROVE Tells(b)
  <2>1. PICK q \in Seq(Statuses), k \in Nat \ {0} : c.statuses = q /\ c.step = k
    BY BatchFields
  <2>2. \A i \in DOMAIN q :
          q[i] = IF i < k THEN "done" ELSE "waiting"
    BY <1>5, <2>1 DEF Tells
  <2>3. b.statuses = IF q = <<>> THEN q ELSE [q EXCEPT ![k] = "running"]
    BY <1>3, <2>1 DEF Marked
  <2>4. DOMAIN b.statuses = DOMAIN q
    BY <2>3
  <2>5. \A i \in DOMAIN q :
          b.statuses[i] = IF i < k THEN "done" ELSE IF i = k THEN "running" ELSE "waiting"
    BY <2>2, <2>3
  <2> QED BY <1>3, <1>5, <2>1, <2>4, <2>5 DEF Tells
<1> QED BY <1>1, <1>3, <1>4, <1>5 DEF Follows, Ends

\* Where Dispatch returns: the status tells the outcome, and only a good one goes on.
Ended(c, good) ==
  LET more == good /\ c.step < Extract(c.text) IN
  [c EXCEPT !.statuses = Marked(c, IF good THEN "done" ELSE "error"),
            !.good = good,
            !.pc = IF more THEN "next" ELSE "store",
            !.step = IF more THEN c.step + 1 ELSE c.step]

\* After a command, the status tells its outcome, and only a good one is followed by
\* the next.
LEMMA EndFollows ==
  ASSUME NEW c \in Batches, c.pc = "dispatch", NEW good \in BOOLEAN
  PROVE  Follows(c, Ended(c, good)) /\ Ended(c, good).pc \notin Ends
<1>1. PICK b : b = Ended(c, good)
  OBVIOUS
<1>2. PICK status \in Statuses : status = IF good THEN "done" ELSE "error"
  BY DEF Statuses
<1>3. Marked(c, status) \in Seq(Statuses) /\ Len(Marked(c, status)) = Len(c.statuses)
  BY MarkedTyped
<1>4. c.text \in Texts /\ Extract(c.text) = Steps[c.text] /\ Steps[c.text] \in Nat
  BY BatchFields DEF Extract
<1>5. PICK more \in BOOLEAN : more <=> (good /\ c.step < Steps[c.text])
  OBVIOUS
<1>6. /\ b.text = c.text /\ b.good = good /\ b.target = c.target
      /\ b.step = (IF more THEN c.step + 1 ELSE c.step)
      /\ b.pc = (IF more THEN "next" ELSE "store")
      /\ b.statuses = Marked(c, status)
  BY <1>1, <1>2, <1>4, <1>5 DEF Ended, Batches
<1>7. b \in Batches
  <2>1. b.step \in Nat \ {0} /\ b.pc \in {"next", "store"} /\ b.statuses \in Seq(Statuses)
    BY <1>3, <1>6, BatchFields
  <2>2. DOMAIN b = DOMAIN c /\ b = [x \in DOMAIN c |-> b[x]]
    BY <1>1 DEF Ended
  <2> QED BY <1>6, <2>1, <2>2, BatchFields DEF Batches, Statuses
<1>8. ASSUME Tells(c) PROVE Tells(b)
  <2>1. PICK q \in Seq(Statuses), k \in Nat \ {0} : c.statuses = q /\ c.step = k
    BY BatchFields
  <2>2. /\ \A i \in DOMAIN q :
            q[i] = IF i < k THEN "done" ELSE IF i = k THEN "running" ELSE "waiting"
        /\ k <= Steps[c.text]
    BY <1>8, <2>1 DEF Tells
  <2>3. b.statuses = IF q = <<>> THEN q ELSE [q EXCEPT ![k] = status]
    BY <1>6, <2>1 DEF Marked
  <2>4. DOMAIN b.statuses = DOMAIN q /\ DOMAIN q \subseteq Nat
    BY <2>3
  <2>5. \A i \in DOMAIN q :
          b.statuses[i] = IF i < k THEN "done" ELSE IF i = k THEN status ELSE "waiting"
    BY <2>2, <2>3
  <2>6. CASE more
    <3>1. b.step = k + 1 /\ b.pc = "next" /\ status = "done" /\ k + 1 <= Steps[b.text]
      <4>1. good /\ k < Steps[b.text]
        BY <1>5, <1>6, <2>1, <2>6
      <4> QED BY <1>2, <1>4, <1>6, <2>1, <2>6, <4>1
    <3>2. \A i \in DOMAIN q : b.statuses[i] = IF i < k + 1 THEN "done" ELSE "waiting"
      BY <2>4, <2>5, <3>1
    <3> QED BY <2>4, <3>1, <3>2 DEF Tells
  <2>7. CASE ~ more
    <3>1. b.step = k /\ b.pc = "store" /\ k <= Steps[b.text] /\ (b.good => k = Steps[b.text])
      BY <1>4, <1>5, <1>6, <2>1, <2>2, <2>7
    <3>2. status = IF b.good THEN "done" ELSE "error"
      BY <1>2, <1>6
    <3> QED BY <2>4, <2>5, <3>1, <3>2 DEF Tells
  <2> QED BY <2>6, <2>7
<1> QED BY <1>1, <1>6, <1>7, <1>8 DEF Follows, Ends

\* The last steps of a goroutine leave what its batch tells alone.
LEMMA CloseFollows ==
  ASSUME NEW c \in Batches, c.pc \in {"store", "write", "finish"},
         NEW pc \in {"store", "write", "finish", "done"}, NEW target \in Nat
  PROVE  Follows(c, [c EXCEPT !.pc = pc, !.target = target])
<1>1. PICK b : b = [c EXCEPT !.pc = pc, !.target = target]
  OBVIOUS
<1>2. /\ b.text = c.text /\ b.step = c.step /\ b.good = c.good
      /\ b.pc = pc /\ b.statuses = c.statuses
  BY <1>1 DEF Batches
<1>3. b \in Batches
  BY <1>1 DEF Batches
<1>4. Tells(c) => Tells(b)
  BY <1>2 DEF Tells
<1> QED BY <1>1, <1>2, <1>3, <1>4 DEF Follows, Ends

-------------------------------------------------------------------------------
(* The steps of a goroutine, as far as the invariants can tell.                *)

\* A step of goroutine r puts a batch that follows in the place of its own; the flag
\* changes exactly where the batch is done.
LEMMA ProcessFollows ==
  ASSUME runs \in Seq(Batches), NEW r \in DOMAIN runs, Process(r)
  PROVE  \E b \in Batches : /\ Set(r, b) /\ Follows(runs[r], b)
                            /\ b.pc # "killed"
                            /\ processing' = IF b.pc = "done" THEN FALSE ELSE processing
<1>1. PICK c \in Batches : c = runs[r]
  OBVIOUS
<1>2. CASE StepBegins(r)
  <2>1. PICK b : b = [c EXCEPT !.pc = "dispatch", !.statuses = Marked(c, "running")]
    OBVIOUS
  <2>2. c.pc = "next" /\ Set(r, b) /\ UNCHANGED processing
    BY <1>1, <1>2, <2>1 DEF StepBegins, flagVars
  <2>3. Follows(c, b) /\ b.pc = "dispatch"
    BY <2>1, <2>2, BeginFollows DEF Batches
  <2> QED BY <1>1, <2>2, <2>3 DEF Follows, Ends
<1>3. CASE StepEnds(r)
  <2>1. PICK good \in BOOLEAN : Set(r, Ended(c, good))
    BY <1>1, <1>3 DEF StepEnds, Ended
  <2>2. c.pc = "dispatch" /\ UNCHANGED processing
    BY <1>1, <1>3 DEF StepEnds, flagVars
  <2>3. Follows(c, Ended(c, good)) /\ Ended(c, good).pc \notin Ends
    BY <2>2, EndFollows
  <2> QED BY <1>1, <2>1, <2>2, <2>3 DEF Follows, Ends
<1>4. CASE StoreWritten(r)
  <2>1. PICK b : b = [c EXCEPT !.pc = "write", !.target = c.target]
    OBVIOUS
  <2>2. c.pc = "store" /\ Set(r, b) /\ UNCHANGED processing
    BY <1>1, <1>4, <2>1 DEF StoreWritten, Batches
  <2>3. Follows(c, b) /\ b.pc = "write"
    BY <2>1, <2>2, CloseFollows, BatchFields DEF Batches
  <2> QED BY <1>1, <2>2, <2>3 DEF Follows, Ends
<1>5. CASE WriteOne(r)
  <2>1. PICK pc \in {"finish", "write"}, target \in Nat :
          /\ pc = IF c.target = Len(Sources) THEN "finish" ELSE "write"
          /\ target = c.target + 1
    BY BatchFields
  <2>2. PICK b : b = [c EXCEPT !.target = target, !.pc = pc]
    OBVIOUS
  <2>3. c.pc = "write" /\ Set(r, b) /\ UNCHANGED processing
    BY <1>1, <1>5, <2>1, <2>2 DEF WriteOne, flagVars, Batches
  <2>4. b = [c EXCEPT !.pc = pc, !.target = target]
    BY <2>2 DEF Batches
  <2>5. Follows(c, b) /\ b.pc \notin Ends
    BY <2>1, <2>3, <2>4, CloseFollows DEF Batches, Ends
  <2> QED BY <1>1, <2>3, <2>5 DEF Follows, Ends
<1>6. CASE Finish(r)
  <2>1. PICK b : b = [c EXCEPT !.pc = "done", !.target = c.target]
    OBVIOUS
  <2>2. c.pc = "finish" /\ Set(r, b) /\ processing' = FALSE
    BY <1>1, <1>6, <2>1 DEF Finish, Batches
  <2>3. Follows(c, b) /\ b.pc = "done"
    BY <2>1, <2>2, CloseFollows, BatchFields DEF Batches
  <2> QED BY <1>1, <2>2, <2>3 DEF Follows, Ends
<1> QED BY <1>2, <1>3, <1>4, <1>5, <1>6 DEF Process

-------------------------------------------------------------------------------
(* The invariant.                                                             *)

\* Only the batch started last can be running, and it holds the flag.
OneActive == \A r \in DOMAIN runs : runs[r].pc \notin Ends => r = Len(runs) /\ processing

\* What the batches tell is true of each.
AllTell == \A r \in DOMAIN runs : Tells(runs[r])

IInv == TypeOK /\ OneActive /\ AllTell

\* The invariant and its strengthenings imply the properties that the runs check.
LEMMA Implied == IInv => OneBatch /\ PipelineTellsTheTruth
<1> SUFFICES ASSUME IInv PROVE OneBatch /\ PipelineTellsTheTruth
  OBVIOUS
<1>1. OneBatch
  BY DEF IInv, OneActive, OneBatch, Running, Ends
<1>2. PipelineTellsTheTruth
  BY DEF IInv, AllTell, Tells, PipelineTellsTheTruth
<1> QED BY <1>1, <1>2

\* It holds at the start: no batch has been started.
LEMMA InitInv == Init => IInv
<1> SUFFICES ASSUME Init PROVE IInv
  OBVIOUS
<1>1. 1 \in DOMAIN Sources
  OBVIOUS
<1>2. runs = <<>> /\ ch = <<>>
  BY DEF Init
<1>3. runs \in Seq(Batches) /\ ch \in Seq(Contents) /\ Len(ch) = 0 /\ DOMAIN runs = {}
  BY <1>2
<1>4. /\ clipboard \in [Clipboards -> Contents \cup {NoText}]
      /\ last \in [DOMAIN Sources -> Contents \cup {NoText}] /\ copied \in [Texts -> Nat]
  BY DEF Init
<1>5. /\ lastSent \in Contents \cup {NoText} /\ turn \in DOMAIN Sources
      /\ at \in {"select", "filter", "start"} /\ content \in Contents \cup {NoText}
      /\ processing \in BOOLEAN /\ lastWritten \in Contents \cup {NoText}
      /\ quick \in [text : QuickTexts \cup {NoText}, target : Nat]
      /\ failures \in Nat /\ clicks \in Nat /\ restarts \in Nat /\ before \in Nat
  BY <1>1 DEF Init, Idle
<1>6. Len(ch) <= Cap
  BY <1>3
<1>7. TypeOK
  BY <1>3, <1>4, <1>5, <1>6 DEF TypeOK
<1> QED BY <1>3, <1>7 DEF IInv, OneActive, AllTell

\* The batch that runs is the last one, and puts the flag down where it is done.
LEMMA ActiveKept ==
  ASSUME OneActive, NEW r \in DOMAIN runs, runs[r].pc \notin Ends, NEW b,
         b.pc \notin Ends /\ processing => processing', Len(runs') = Len(runs), DOMAIN runs' = DOMAIN runs, runs'[r] = b,
         \A q \in DOMAIN runs : q # r => runs'[q] = runs[q]
  PROVE  OneActive'
<1>1. r = Len(runs) /\ processing /\ \A q \in DOMAIN runs : q # r => runs[q].pc \in Ends
  BY DEF OneActive
<1>2. b.pc \notin Ends => processing'
  BY <1>1
<1>3. ASSUME NEW q \in DOMAIN runs', runs'[q].pc \notin Ends
      PROVE  q = Len(runs') /\ processing'
  BY <1>1, <1>2, <1>3
<1> QED BY <1>3 DEF OneActive, Ends

\* A step of a goroutine keeps what the invariant says of the batches and the flag.
LEMMA WorkKeepsBatches ==
  ASSUME runs \in Seq(Batches), OneActive, AllTell, processing \in BOOLEAN,
         NEW r \in DOMAIN runs, Process(r)
  PROVE  runs' \in Seq(Batches) /\ OneActive' /\ AllTell' /\ processing' \in BOOLEAN
<1>1. PICK b \in Batches :
        /\ Set(r, b) /\ Follows(runs[r], b)
        /\ processing' = IF b.pc = "done" THEN FALSE ELSE processing
  BY ProcessFollows
<1>2. /\ runs' \in Seq(Batches) /\ Len(runs') = Len(runs) /\ DOMAIN runs' = DOMAIN runs
      /\ runs'[r] = b /\ \A q \in DOMAIN runs : q # r => runs'[q] = runs[q]
  BY <1>1, SetBatch
<1>3. OneActive'
  <2>1. runs[r].pc \notin Ends
    BY <1>1 DEF Follows
  <2>2. b.pc \notin Ends /\ processing => processing'
    BY <1>1 DEF Ends
  <2>3. /\ Len(runs') = Len(runs) /\ DOMAIN runs' = DOMAIN runs
        /\ runs'[r] = b /\ \A q \in DOMAIN runs : q # r => runs'[q] = runs[q]
    BY <1>2
  <2> QED BY <2>1, <2>2, <2>3, ActiveKept
<1>4. AllTell'
  <2>1. Tells(runs[r]) /\ Tells(b)
    BY <1>1 DEF AllTell, Follows
  <2>2. \A q \in DOMAIN runs' : Tells(runs'[q])
    BY <1>2, <2>1 DEF AllTell
  <2> QED BY <2>2 DEF AllTell, Tells
<1> QED BY <1>1, <1>2, <1>3, <1>4

\* The batch that is started has the text, and its first status is one of its own.
LEMMA StartedBatch ==
  ASSUME TypeOK, Start
  PROVE  content \in Texts /\ \E b \in Batches : Tells(b) /\ b.text = content /\ runs' = Append(runs, b)
<1>1. content \in Contents \cup {NoText}
  BY DEF TypeOK
<1>2. /\ content \in Texts /\ Extract(content) = Steps[content]
      /\ Steps[content] \in Nat \ {0}
  BY DEF Start, Extract
<1>3. PICK q \in Seq(Statuses) :
        /\ q = IF Extract(content) = 1 THEN <<>> ELSE [i \in 1..Extract(content) |-> "waiting"]
        /\ \A i \in DOMAIN q : i \in Nat \ {0} /\ q[i] = "waiting"
  <2>1. CASE Extract(content) = 1
    <3>1. <<>> \in Seq(Statuses) /\ DOMAIN <<>> = {}
      OBVIOUS
    <3> QED BY <2>1, <3>1
  <2>2. CASE Extract(content) # 1
    <3>1. PICK n \in Nat : n = Extract(content)
      BY <1>2
    <3>2. PICK q : q = [i \in 1..n |-> "waiting"]
      OBVIOUS
    <3>3. q \in [1..n -> Statuses] /\ DOMAIN q = 1..n /\ \A i \in 1..n : q[i] = "waiting"
      BY <3>2 DEF Statuses
    <3>4. q \in Seq(Statuses)
      BY <3>3
    <3>5. q = IF Extract(content) = 1 THEN <<>> ELSE [i \in 1..Extract(content) |-> "waiting"]
      BY <2>2, <3>1, <3>2
    <3>6. \A i \in DOMAIN q : i \in Nat \ {0} /\ q[i] = "waiting"
      BY <3>3
    <3> QED BY <3>4, <3>5, <3>6
  <2> QED BY <2>1, <2>2
<1>4. PICK b : b = [text |-> content, pc |-> "next", step |-> 1, good |-> TRUE,
                    target |-> 1, statuses |-> q]
  OBVIOUS
<1>5. b \in Batches /\ Tells(b) /\ b.text = content
  BY <1>2, <1>3, <1>4 DEF Batches, Statuses, Tells
<1>6. runs' = Append(runs, b)
  BY <1>3, <1>4 DEF Start
<1> QED BY <1>2, <1>5, <1>6

\* A batch is started where none runs, and takes the flag.
LEMMA StartKeepsBatches ==
  ASSUME TypeOK, OneActive, AllTell, Start
  PROVE  runs' \in Seq(Batches) /\ OneActive' /\ AllTell'
<1>1. runs \in Seq(Batches)
  BY DEF TypeOK
<1>2. ~ processing /\ processing'
  BY DEF Start
<1>3. PICK b \in Batches : Tells(b) /\ runs' = Append(runs, b)
  BY StartedBatch
<1>4. /\ runs' \in Seq(Batches) /\ DOMAIN runs' = 1..(Len(runs) + 1)
      /\ Len(runs') = Len(runs) + 1 /\ runs'[Len(runs) + 1] = b
      /\ DOMAIN runs = 1..Len(runs) /\ Len(runs) \in Nat
      /\ \A r \in DOMAIN runs : runs'[r] = runs[r]
  BY <1>1, <1>3
<1>5. OneActive'
  BY <1>2, <1>4 DEF OneActive
<1>6. AllTell'
  BY <1>3, <1>4 DEF AllTell, Tells
<1> QED BY <1>4, <1>5, <1>6

-------------------------------------------------------------------------------
(* The invariant is kept.                                                     *)

\* The parts of TypeOK that are not about the batches.
TypesBesideRuns ==
  /\ clipboard \in [Clipboards -> Contents \cup {NoText}]
  /\ last \in [DOMAIN Sources -> Contents \cup {NoText}]
  /\ lastSent \in Contents \cup {NoText}
  /\ turn \in DOMAIN Sources
  /\ ch \in Seq(Contents) /\ Len(ch) <= Cap
  /\ at \in {"select", "filter", "start"}
  /\ content \in Contents \cup {NoText}
  /\ processing \in BOOLEAN
  /\ lastWritten \in Contents \cup {NoText}
  /\ quick \in [text : QuickTexts \cup {NoText}, target : Nat]
  /\ copied \in [Texts -> Nat]
  /\ failures \in Nat /\ clicks \in Nat /\ restarts \in Nat /\ before \in Nat

\* The poller and the users keep the types and leave the batches alone.
LEMMA OutsideKeepsTypes ==
  ASSUME TypesBesideRuns, Poll \/ \E t \in CopyTexts, set \in CopySets : Copy(t, set)
  PROVE  TypesBesideRuns' /\ UNCHANGED <<runs, processing>>
<1>1. CASE PollFails
  BY <1>1, TurnTyped DEF TypesBesideRuns, PollFails, consumerVars, flagVars
<1>2. CASE PollNothing
  BY <1>2, TurnTyped DEF TypesBesideRuns, PollNothing, consumerVars, flagVars, history
<1>3. Sources[turn] \in Clipboards
  BY DEF TypesBesideRuns, Clipboards
<1>4. CASE PollTwin
  <2>1. Read \in Contents \cup {NoText}
    BY <1>3 DEF TypesBesideRuns, Read
  <2>2. last' \in [DOMAIN Sources -> Contents \cup {NoText}]
    BY <1>4, <2>1 DEF TypesBesideRuns, PollTwin
  <2> QED BY <1>4, <2>2, TurnTyped DEF TypesBesideRuns, PollTwin, consumerVars, flagVars, history
<1>5. CASE PollEmit
  <2>1. Read \in Contents
    BY <1>3, <1>5 DEF TypesBesideRuns, Read, PollEmit
  <2>2. last' \in [DOMAIN Sources -> Contents \cup {NoText}]
    BY <1>5, <2>1 DEF TypesBesideRuns, PollEmit
  <2>3. ch' \in Seq(Contents) /\ Len(ch') <= Cap
    <3>1. PICK s \in Contents : s = Read
      BY <2>1
    <3>2. ch' = IF Len(ch) < Cap THEN Append(ch, s) ELSE ch
      BY <1>5, <3>1 DEF PollEmit, Emit
    <3>3. ch \in Seq(Contents) /\ Len(ch) <= Cap
      BY DEF TypesBesideRuns
    <3> QED BY <3>2, <3>3
  <2> QED BY <1>5, <2>1, <2>2, <2>3, TurnTyped
          DEF TypesBesideRuns, PollEmit, consumerVars, flagVars, history
<1>6. ASSUME NEW t \in CopyTexts, NEW set \in CopySets, Copy(t, set)
      PROVE  TypesBesideRuns' /\ UNCHANGED <<runs, processing>>
  <2>1. clipboard' \in [Clipboards -> Contents \cup {NoText}]
    BY <1>6 DEF TypesBesideRuns, Copy, Contents
  <2>2. copied' = [copied EXCEPT ![t] = copied[t] + 1]
    BY <1>6 DEF Copy
  <2>3. copied' \in [Texts -> Nat]
    <3>1. copied \in [Texts -> Nat]
      BY DEF TypesBesideRuns
    <3>2. copied[t] + 1 \in Nat
      BY <3>1
    <3> QED BY <2>2, <3>1, <3>2
  <2> QED BY <1>6, <2>1, <2>3 DEF TypesBesideRuns, Copy, pollVars, consumerVars, flagVars
<1> QED BY <1>1, <1>2, <1>4, <1>5, <1>6 DEF Poll

\* So does the consumer, which sets the flag where it starts a batch and nowhere else.
LEMMA ConsumerKeepsTypes ==
  ASSUME TypesBesideRuns, Consume
  PROVE  TypesBesideRuns' /\ (~ Start => UNCHANGED <<runs, processing>>)
<1>1. CASE Receive
  <2>1. PICK q \in Seq(Contents) : q = ch /\ Len(q) <= Cap /\ q # <<>>
    BY <1>1 DEF TypesBesideRuns, Receive
  <2>2. Len(q) \in Nat /\ Head(q) \in Contents /\ Tail(q) \in Seq(Contents)
        /\ Len(Tail(q)) = Len(q) - 1
    BY <2>1
  <2>3. Len(Tail(q)) <= Cap
    BY <2>1, <2>2
  <2>4. content' \in Contents \cup {NoText} /\ ch' \in Seq(Contents) /\ Len(ch') <= Cap
    BY <1>1, <2>1, <2>2, <2>3 DEF Receive
  <2> QED BY <1>1, <2>4 DEF TypesBesideRuns, Receive, pollVars, flagVars, history
<1>2. CASE Filter
  BY <1>2 DEF TypesBesideRuns, Filter, pollVars, flagVars, history
<1>3. CASE Skip
  BY <1>3 DEF TypesBesideRuns, Skip, pollVars, flagVars, history
<1>4. CASE Start
  BY <1>4 DEF TypesBesideRuns, Start, pollVars, history
<1> QED BY <1>1, <1>2, <1>3, <1>4 DEF Consume

\* So do the goroutines.
LEMMA WorkKeepsTypes ==
  ASSUME TypesBesideRuns, runs \in Seq(Batches), NEW r \in DOMAIN runs, Process(r)
  PROVE  TypesBesideRuns'
<1>1. PICK c \in Batches : c = runs[r]
  OBVIOUS
<1>2. CASE StepBegins(r)
  BY <1>2 DEF TypesBesideRuns, StepBegins, pollVars, consumerVars, flagVars, history
<1>3. CASE StepEnds(r)
  BY <1>3 DEF TypesBesideRuns, StepEnds, pollVars, consumerVars, flagVars, history
<1>4. CASE StoreWritten(r)
  <2>1. lastWritten' \in Contents
    BY <1>1, <1>4, PayloadTyped DEF StoreWritten
  <2> QED BY <1>4, <2>1 DEF TypesBesideRuns, StoreWritten, pollVars, consumerVars, history
<1>5. CASE WriteOne(r)
  <2>1. clipboard' \in [Clipboards -> Contents \cup {NoText}]
    <3>1. PICK s \in Contents : s = Payload(runs[r])
      BY <1>1, PayloadTyped
    <3>2. \/ UNCHANGED clipboard
          \/ clipboard' = [clipboard EXCEPT ![Sources[runs[r].target]] = s]
      BY <1>5, <3>1 DEF WriteOne
    <3> QED BY <3>2 DEF TypesBesideRuns
  <2>2. failures' \in Nat
    BY <1>5 DEF TypesBesideRuns, WriteOne
  <2> QED BY <1>5, <2>1, <2>2 DEF TypesBesideRuns, WriteOne, pollVars, consumerVars, flagVars
<1>6. CASE Finish(r)
  BY <1>6 DEF TypesBesideRuns, Finish, pollVars, consumerVars, history
<1> QED BY <1>2, <1>3, <1>4, <1>5, <1>6 DEF Process

\* The handler of a quick command writes texts with commands, and leaves the batches
\* alone.
LEMMA PageKeepsTypes ==
  ASSUME TypesBesideRuns, QuickWrite \/ \E t \in QuickTexts : QuickBegin(t)
  PROVE  TypesBesideRuns' /\ UNCHANGED <<runs, processing>>
<1>1. ASSUME NEW t \in QuickTexts, QuickBegin(t)
      PROVE  TypesBesideRuns' /\ UNCHANGED <<runs, processing>>
  BY <1>1 DEF TypesBesideRuns, QuickBegin, pollVars, consumerVars, flagVars, history
<1>2. CASE QuickWrite
  <2>1. PICK q \in [text : QuickTexts \cup {NoText}, target : Nat] : q = quick
    BY DEF TypesBesideRuns
  <2>2. q.text \in QuickTexts \/ q.text = NoText
    BY <2>1
  <2>3. clipboard' \in [Clipboards -> Contents \cup {NoText}]
    <3>1. PICK s \in Contents \cup {NoText} : s = quick.text
      BY <2>1, <2>2 DEF Contents
    <3>2. \/ UNCHANGED clipboard
          \/ clipboard' = [clipboard EXCEPT ![Sources[quick.target]] = s]
      BY <1>2, <3>1 DEF QuickWrite
    <3>3. PICK T : T = Contents \cup {NoText}
      OBVIOUS
    <3>4. clipboard \in [Clipboards -> T] /\ s \in T
      BY <3>1, <3>3 DEF TypesBesideRuns
    <3>5. clipboard' \in [Clipboards -> T]
      BY <3>2, <3>4
    <3> QED BY <3>3, <3>5
  <2>4. quick' \in [text : QuickTexts \cup {NoText}, target : Nat]
    <3>1. quick' = Idle \/ quick' = [q EXCEPT !.target = q.target + 1]
      BY <1>2, <2>1 DEF QuickWrite
    <3> QED BY <3>1 DEF Idle
  <2>5. failures' \in Nat
    BY <1>2 DEF TypesBesideRuns, QuickWrite
  <2> QED BY <1>2, <2>3, <2>4, <2>5 DEF TypesBesideRuns, QuickWrite, pollVars, consumerVars,
                                        flagVars
<1> QED BY <1>1, <1>2

\* A restart cuts off the batch that runs, if there is one: its statuses are gone, and
\* no other batch can be running when the flag is new.
LEMMA RestartKeepsBatches ==
  ASSUME TypesBesideRuns, runs \in Seq(Batches), AllTell, Restart
  PROVE  TypesBesideRuns' /\ runs' \in Seq(Batches) /\ OneActive' /\ AllTell'
<1>1. 1 \in DOMAIN Sources /\ Len(runs) \in Nat
  OBVIOUS
<1>2. TypesBesideRuns'
  <2>1. last' \in [DOMAIN Sources -> Contents \cup {NoText}] /\ ch' \in Seq(Contents) /\ Len(ch') = 0
    BY DEF Restart
  <2>2. Len(ch') <= Cap
    BY <2>1
  <2>3. restarts' \in Nat /\ before' \in Nat
    BY <1>1 DEF TypesBesideRuns, Restart
  <2>4. quick' \in [text : QuickTexts \cup {NoText}, target : Nat]
    BY DEF Restart, Idle
  <2> QED BY <1>1, <2>1, <2>2, <2>3, <2>4 DEF TypesBesideRuns, Restart, history
<1>3. ASSUME NEW c \in Batches
      PROVE  /\ Killed(c) \in Batches /\ Killed(c).pc \in Ends
             /\ Tells(c) => Tells(Killed(c))
  <2>1. CASE c.pc = "done"
    BY <2>1 DEF Killed, Ends
  <2>2. CASE c.pc # "done"
    <3>1. PICK b : b = [c EXCEPT !.pc = "killed", !.target = 1, !.statuses = <<>>]
      OBVIOUS
    <3>2. Killed(c) = b
      BY <2>2, <3>1 DEF Killed
    <3>3. b.pc = "killed" /\ b.step = c.step /\ b.text = c.text /\ b.statuses = <<>>
      BY <3>1 DEF Batches
    <3>4. b \in Batches
      <4>1. <<>> \in Seq({"waiting", "running", "done", "error"})
        OBVIOUS
      <4> QED BY <3>1, <4>1 DEF Batches
    <3>5. Tells(c) => Tells(b)
      BY <3>3 DEF Tells
    <3> QED BY <3>2, <3>3, <3>4, <3>5 DEF Ends
  <2> QED BY <2>1, <2>2
<1>4. runs' = [r \in 1..Len(runs) |-> Killed(runs[r])] /\ DOMAIN runs = 1..Len(runs)
  BY DEF Restart
<1>5. runs' \in [1..Len(runs) -> Batches]
  BY <1>3, <1>4
<1>6. runs' \in Seq(Batches) /\ DOMAIN runs' = DOMAIN runs
  BY <1>1, <1>4, <1>5
<1>7. \A r \in DOMAIN runs : runs'[r].pc \in Ends /\ Tells(runs'[r])
  BY <1>3, <1>4 DEF AllTell
<1>8. OneActive'
  BY <1>6, <1>7 DEF OneActive
<1>9. AllTell'
  BY <1>6, <1>7 DEF AllTell, Tells
<1> QED BY <1>2, <1>6, <1>8, <1>9

\* Every step keeps the invariant.
LEMMA NextInv == IInv /\ [Next]_vars => IInv'
<1> SUFFICES ASSUME IInv, [Next]_vars PROVE IInv'
  OBVIOUS
<1>1. TypesBesideRuns /\ runs \in Seq(Batches) /\ OneActive /\ AllTell /\ processing \in BOOLEAN
  BY DEF IInv, TypeOK, TypesBesideRuns
<1>2. ASSUME TypesBesideRuns', runs' \in Seq(Batches), OneActive', AllTell' PROVE IInv'
  BY <1>2 DEF IInv, TypeOK, TypesBesideRuns
<1>3. ASSUME UNCHANGED <<runs, processing>>
      PROVE  runs' \in Seq(Batches) /\ OneActive' /\ AllTell'
  BY <1>1, <1>3 DEF OneActive, AllTell, Tells
<1>4. CASE Poll \/ \E t \in CopyTexts, set \in CopySets : Copy(t, set)
  BY <1>1, <1>2, <1>3, <1>4, OutsideKeepsTypes
<1>5. CASE Consume
  <2>1. CASE Start
    BY <1>1, <1>2, <1>5, <2>1, ConsumerKeepsTypes, StartKeepsBatches DEF IInv
  <2>2. CASE ~ Start
    BY <1>1, <1>2, <1>3, <1>5, <2>2, ConsumerKeepsTypes
  <2> QED BY <2>1, <2>2
<1>6. CASE Work
  <2>1. PICK r \in DOMAIN runs : Process(r)
    BY <1>6 DEF Work
  <2>2. runs' \in Seq(Batches) /\ OneActive' /\ AllTell'
    BY <1>1, <2>1, WorkKeepsBatches
  <2>3. TypesBesideRuns'
    BY <1>1, <2>1, WorkKeepsTypes
  <2> QED BY <1>2, <2>2, <2>3
<1>7. CASE QuickWrite \/ \E t \in QuickTexts : QuickBegin(t)
  BY <1>1, <1>2, <1>3, <1>7, PageKeepsTypes
<1>8. CASE Restart
  BY <1>1, <1>2, <1>8, RestartKeepsBatches
<1>9. CASE UNCHANGED vars
  <2>1. TypesBesideRuns'
    BY <1>1, <1>9 DEF TypesBesideRuns, vars, pollVars, consumerVars, flagVars, history
  <2> QED BY <1>2, <1>3, <1>9, <2>1 DEF vars, flagVars
<1> QED BY <1>4, <1>5, <1>6, <1>7, <1>8, <1>9 DEF Next

\* The invariant holds in every state.
LEMMA Invariance == SafeSpec => []IInv
BY InitInv, NextInv, PTL DEF SafeSpec

-------------------------------------------------------------------------------
(* Where the responses come from: whatever lies on a clipboard, in the channel  *)
(* or with the consumer was copied there, or answers a batch of this list.      *)

\* The batch has recorded its response.
Stored(b) == b.pc \in {"write", "finish", "done"}

\* The response of batch r can be anywhere: it was recorded, or a daemon before this
\* one ran the batch.
Left(r) == r <= before \/ Stored(runs[r])

Answers(r, s) == Payload(runs[r]) = s /\ Left(r)
Known(s) == s \in Texts \cup {NoText} \/ \E r \in DOMAIN runs : Answers(r, s)

\* The batches of the daemons before this one are at one of their ends.
OldEnded == before <= Len(runs) /\ \A r \in DOMAIN runs : r <= before => runs[r].pc \in Ends

AllKnown ==
  /\ \A s \in Clipboards : Known(clipboard[s])
  /\ \A i \in DOMAIN ch : Known(ch[i])
  /\ Known(content) /\ (at # "select" => content # NoText)

\* The response that the consumer compares with is the one recorded last.
LatestKept ==
  \A r \in DOMAIN runs :
    r > before /\ Stored(runs[r])
      => Payload(runs[r]) = lastWritten \/ \E q \in DOMAIN runs : r < q /\ Stored(runs[q])

\* OnlyOldOutputPasses, strengthened: the response of r can be anywhere.
OldPassed ==
  at = "start" /\ content \notin Texts
    => \E r \in DOMAIN runs :
         Answers(r, content) /\ (r <= before \/ \E q \in DOMAIN runs : r < q /\ Stored(runs[q]))

OriginInv == IInv /\ OldEnded /\ AllKnown /\ LatestKept /\ OldPassed

\* What may happen to the list of batches in a step: a response that can be anywhere
\* stays what it is, and a recorded one stays recorded, unless the daemon is another.
ListKept ==
  /\ DOMAIN runs \subseteq DOMAIN runs' /\ before <= before'
  /\ \A r \in DOMAIN runs : Left(r) => Payload(runs'[r]) = Payload(runs[r]) /\ Left(r)'
  /\ UNCHANGED before => \A r \in DOMAIN runs : Stored(runs[r]) => Stored(runs'[r])

\* The goroutine of r records its response, keeps it, or has none yet.
LEMMA ProcessStores ==
  ASSUME runs \in Seq(Batches), NEW r \in DOMAIN runs, Process(r)
  PROVE  \E b \in Batches :
           /\ Set(r, b) /\ runs[r].pc \notin Ends
           /\ \/ /\ Stored(runs[r]) /\ Stored(b) /\ UNCHANGED lastWritten
                 /\ Payload(b) = Payload(runs[r])
              \/ ~ Stored(runs[r]) /\ ~ Stored(b) /\ UNCHANGED lastWritten
              \/ /\ ~ Stored(runs[r]) /\ Stored(b)
                 /\ Payload(b) = Payload(runs[r]) /\ lastWritten' = Payload(b)
<1>1. PICK c \in Batches : c = runs[r]
  OBVIOUS
<1>2. PICK b \in Batches : Set(r, b) /\ Follows(c, b)
  BY <1>1, ProcessFollows
<1>3. b = runs'[r] /\ c.pc \notin Ends
  BY <1>2, SetBatch DEF Follows
<1>4. CASE StepBegins(r)
  <2>1. PICK d : d = [c EXCEPT !.pc = "dispatch", !.statuses = Marked(c, "running")]
    OBVIOUS
  <2>2. c.pc = "next" /\ Set(r, d) /\ UNCHANGED lastWritten
    BY <1>1, <1>4, <2>1 DEF StepBegins, flagVars
  <2>3. b = d /\ d.pc = "dispatch"
    BY <1>3, <2>1, <2>2 DEF Batches, Set
  <2> QED BY <1>1, <1>2, <1>3, <2>2, <2>3 DEF Stored
<1>5. CASE StepEnds(r)
  <2>1. PICK good \in BOOLEAN : Set(r, Ended(c, good))
    BY <1>1, <1>5 DEF StepEnds, Ended
  <2>2. c.pc = "dispatch" /\ UNCHANGED lastWritten
    BY <1>1, <1>5 DEF StepEnds, flagVars
  <2>3. PICK pc, step, statuses :
          /\ Ended(c, good) = [c EXCEPT !.statuses = statuses, !.good = good, !.pc = pc, !.step = step]
          /\ pc \in {"next", "store"}
    BY DEF Ended
  <2>4. Ended(c, good).pc = pc
    BY <2>3 DEF Batches
  <2>5. b = Ended(c, good)
    BY <1>3, <2>1 DEF Set
  <2> QED BY <1>1, <1>2, <1>3, <2>2, <2>3, <2>4, <2>5 DEF Stored
<1>6. CASE StoreWritten(r)
  <2>1. PICK d : d = [c EXCEPT !.pc = "write"]
    OBVIOUS
  <2>2. c.pc = "store" /\ Set(r, d) /\ lastWritten' = Payload(c)
    BY <1>1, <1>6, <2>1 DEF StoreWritten
  <2>3. d.pc = "write" /\ d.text = c.text /\ d.step = c.step /\ d.good = c.good
    BY <2>1 DEF Batches
  <2>4. b = d
    BY <1>3, <2>2 DEF Set
  <2> QED BY <1>1, <1>2, <1>3, <2>2, <2>3, <2>4 DEF Stored, Payload
<1>7. CASE WriteOne(r)
  <2>1. PICK pc, target :
          /\ pc = IF c.target = Len(Sources) THEN "finish" ELSE "write"
          /\ pc \in {"finish", "write"} /\ target = c.target + 1
    OBVIOUS
  <2>2. PICK d : d = [c EXCEPT !.target = target, !.pc = pc]
    OBVIOUS
  <2>3. c.pc = "write" /\ Set(r, d) /\ UNCHANGED lastWritten
    BY <1>1, <1>7, <2>1, <2>2 DEF WriteOne, flagVars
  <2>4. d.pc = pc /\ d.text = c.text /\ d.step = c.step /\ d.good = c.good
    BY <2>2 DEF Batches
  <2>5. b = d
    BY <1>3, <2>3 DEF Set
  <2> QED BY <1>1, <1>2, <1>3, <2>1, <2>3, <2>4, <2>5 DEF Stored, Payload
<1>8. CASE Finish(r)
  <2>1. PICK d : d = [c EXCEPT !.pc = "done"]
    OBVIOUS
  <2>2. c.pc = "finish" /\ Set(r, d) /\ UNCHANGED lastWritten
    BY <1>1, <1>8, <2>1 DEF Finish
  <2>3. d.pc = "done" /\ d.text = c.text /\ d.step = c.step /\ d.good = c.good
    BY <2>1 DEF Batches
  <2>4. b = d
    BY <1>3, <2>2 DEF Set
  <2> QED BY <1>1, <1>2, <1>3, <2>2, <2>3, <2>4 DEF Stored, Payload
<1> QED BY <1>4, <1>5, <1>6, <1>7, <1>8 DEF Process

\* A goroutine leaves all responses in place; the one it records is that of the last
\* batch.
LEMMA WorkKeepsList ==
  ASSUME IInv, OldEnded, LatestKept, NEW r \in DOMAIN runs, Process(r)
  PROVE  ListKept /\ OldEnded' /\ LatestKept'
<1>1. runs \in Seq(Batches) /\ before \in Nat /\ OneActive
  BY DEF IInv, TypeOK
<1>2. PICK b \in Batches :
        /\ Set(r, b) /\ runs[r].pc \notin Ends
        /\ \/ /\ Stored(runs[r]) /\ Stored(b) /\ UNCHANGED lastWritten
              /\ Payload(b) = Payload(runs[r])
           \/ ~ Stored(runs[r]) /\ ~ Stored(b) /\ UNCHANGED lastWritten
           \/ /\ ~ Stored(runs[r]) /\ Stored(b)
              /\ Payload(b) = Payload(runs[r]) /\ lastWritten' = Payload(b)
  BY <1>1, ProcessStores
<1>3. /\ Len(runs') = Len(runs) /\ DOMAIN runs' = DOMAIN runs
      /\ runs'[r] = b /\ \A q \in DOMAIN runs : q # r => runs'[q] = runs[q]
  BY <1>1, <1>2, SetBatch
<1>4. UNCHANGED before
  BY DEF Process, StepBegins, StepEnds, StoreWritten, WriteOne, Finish
<1>5. r = Len(runs) /\ ~ r <= before
  BY <1>1, <1>2 DEF OneActive, OldEnded
<1>6. /\ Stored(runs[r]) => Stored(runs'[r]) /\ Payload(runs'[r]) = Payload(runs[r])
      /\ \A q \in DOMAIN runs : q # r => runs'[q] = runs[q]
  BY <1>2, <1>3
<1>7. ListKept
  <2>1. \A q \in DOMAIN runs : Stored(runs[q]) => Stored(runs'[q])
    BY <1>6
  <2>2. ASSUME NEW q \in DOMAIN runs, Left(q)
        PROVE  Payload(runs'[q]) = Payload(runs[q]) /\ (q <= before' \/ Stored(runs'[q]))
    BY <1>4, <1>5, <1>6, <2>2 DEF Left
  <2>3. before <= before'
    BY <1>1, <1>4
  <2> QED BY <1>3, <2>1, <2>2, <2>3 DEF ListKept, Left, Stored
<1>8. OldEnded'
  BY <1>3, <1>4, <1>5 DEF OldEnded
<1>9. LatestKept'
  <2>1. r \in 1..Len(runs) /\ \A q \in DOMAIN runs : q \in 1..Len(runs)
    BY <1>1
  <2>2. CASE Stored(runs[r]) \/ ~ Stored(b)
    <3>1. UNCHANGED lastWritten /\ (Stored(runs'[r]) <=> Stored(runs[r]))
      BY <1>2, <1>3, <2>2
    <3>2. \A q \in DOMAIN runs : (Stored(runs'[q]) <=> Stored(runs[q]))
      BY <1>6, <3>1
    <3>3. \A q \in DOMAIN runs : Stored(runs[q]) => Payload(runs'[q]) = Payload(runs[q])
      BY <1>6
    <3>4. \A q \in DOMAIN runs' :
            q > before' /\ Stored(runs'[q])
              => Payload(runs'[q]) = lastWritten' \/ \E p \in DOMAIN runs' : q < p /\ Stored(runs'[p])
      BY <1>3, <1>4, <3>1, <3>2, <3>3 DEF LatestKept
    <3> QED BY <3>4 DEF LatestKept, Stored, Payload, Response
  <2>3. CASE ~ Stored(runs[r]) /\ Stored(b)
    <3>1. Payload(runs'[r]) = lastWritten' /\ Stored(runs'[r])
      BY <1>2, <1>3, <2>3
    <3>2. \A q \in DOMAIN runs' : q = r \/ q < r
      BY <1>1, <1>3, <1>5, <2>1
    <3>3. \A q \in DOMAIN runs' :
            q > before' /\ Stored(runs'[q])
              => Payload(runs'[q]) = lastWritten' \/ \E p \in DOMAIN runs' : q < p /\ Stored(runs'[p])
      BY <1>3, <3>1, <3>2
    <3> QED BY <3>3 DEF LatestKept, Stored, Payload, Response
  <2> QED BY <2>2, <2>3
<1> QED BY <1>7, <1>8, <1>9

\* A new batch has not recorded anything yet.
LEMMA StartKeepsList ==
  ASSUME IInv, OldEnded, LatestKept, Start
  PROVE  ListKept /\ OldEnded' /\ LatestKept'
<1>1. /\ runs \in Seq(Batches) /\ before \in Nat /\ Len(runs) \in Nat
      /\ DOMAIN runs = 1..Len(runs)
  BY DEF IInv, TypeOK
<1>2. PICK b : runs' = Append(runs, b) /\ b.pc = "next"
  BY DEF Start
<1>3. /\ Len(runs') = Len(runs) + 1 /\ DOMAIN runs' = 1..(Len(runs) + 1)
      /\ runs'[Len(runs) + 1] = b /\ \A r \in DOMAIN runs : runs'[r] = runs[r]
  BY <1>1, <1>2
<1>4. UNCHANGED <<before, lastWritten>>
  BY DEF Start
<1>5. ~ Stored(b)
  BY <1>2 DEF Stored
<1>6. ListKept
  BY <1>1, <1>3, <1>4 DEF ListKept, Left, Stored
<1>7. OldEnded'
  BY <1>1, <1>3, <1>4 DEF OldEnded
<1>8. \A r \in DOMAIN runs' :
        r > before' /\ Stored(runs'[r])
          => Payload(runs'[r]) = lastWritten' \/ \E q \in DOMAIN runs' : r < q /\ Stored(runs'[q])
  <2> SUFFICES ASSUME NEW r \in DOMAIN runs', r > before', Stored(runs'[r])
               PROVE  Payload(runs'[r]) = lastWritten'
                      \/ \E q \in DOMAIN runs' : r < q /\ Stored(runs'[q])
    OBVIOUS
  <2>1. r \in DOMAIN runs /\ runs'[r] = runs[r]
    BY <1>1, <1>3, <1>5
  <2>2. Payload(runs[r]) = lastWritten \/ \E q \in DOMAIN runs : r < q /\ Stored(runs[q])
    BY <1>4, <2>1 DEF LatestKept
  <2> QED BY <1>1, <1>3, <1>4, <2>1, <2>2
<1>9. LatestKept'
  BY <1>8 DEF LatestKept, Stored, Payload, Response
<1> QED BY <1>6, <1>7, <1>9

\* After a restart all batches belong to the daemons before, with their texts, steps
\* and outcomes.
LEMMA RestartKeepsList ==
  ASSUME IInv, OldEnded, Restart
  PROVE  ListKept /\ OldEnded' /\ LatestKept'
<1>1. /\ runs \in Seq(Batches) /\ before \in Nat /\ Len(runs) \in Nat
      /\ DOMAIN runs = 1..Len(runs)
  BY DEF IInv, TypeOK
<1>2. runs' = [r \in DOMAIN runs |-> Killed(runs[r])] /\ before' = Len(runs)
  BY DEF Restart
<1>3. runs' \in Seq(Batches) /\ DOMAIN runs' = DOMAIN runs /\ Len(runs') = Len(runs)
  <2>1. runs' \in Seq(Batches)
    BY RestartKeepsBatches DEF IInv, TypeOK, TypesBesideRuns
  <2> QED BY <1>1, <1>2, <2>1
<1>4. ASSUME NEW c \in Batches
      PROVE  /\ Payload(Killed(c)) = Payload(c) /\ Killed(c).pc \in Ends
             /\ c.pc \in Ends /\ Stored(c) => Stored(Killed(c))
  BY DEF Killed, Payload, Batches, Ends, Stored
<1>5. \A r \in DOMAIN runs : r <= before' /\ runs'[r].pc \in Ends
                             /\ Payload(runs'[r]) = Payload(runs[r])
  BY <1>1, <1>2, <1>4
<1>6. /\ \A r \in DOMAIN runs : Left(r) => Payload(runs'[r]) = Payload(runs[r]) /\ Left(r)'
      /\ before <= before'
  BY <1>2, <1>5 DEF Left, OldEnded
<1>7. ASSUME UNCHANGED before, NEW r \in DOMAIN runs, Stored(runs[r]) PROVE Stored(runs'[r])
  BY <1>1, <1>2, <1>4, <1>7 DEF OldEnded
<1>8. OldEnded'
  BY <1>1, <1>2, <1>3, <1>5 DEF OldEnded
<1>9. LatestKept'
  BY <1>1, <1>2, <1>3 DEF LatestKept
<1> QED BY <1>3, <1>6, <1>7, <1>8, <1>9 DEF ListKept

\* Known, of a content in the next state.
KnownNext(s) ==
  s \in Texts \cup {NoText} \/ \E r \in DOMAIN runs' :
                                 Payload(runs'[r]) = s /\ (r <= before' \/ Stored(runs'[r]))

\* While the list is kept, what was known to be there remains known.
LEMMA KnownKept == ASSUME ListKept, NEW s, Known(s) PROVE KnownNext(s)
BY DEF ListKept, Known, KnownNext, Answers, Left, Stored

\* The contents of the next state, one by one.
LEMMA AllKnownNext ==
  ASSUME \A s \in Clipboards : KnownNext(clipboard'[s]),
         \A i \in DOMAIN ch' : KnownNext(ch'[i]),
         KnownNext(content'), at' # "select" => content' # NoText
  PROVE  AllKnown'
BY DEF AllKnown, Known, KnownNext, Answers, Left, Stored, Payload, Response

\* A response that has passed the comparison remains one that may pass, while the
\* consumer holds it.
LEMMA PassedKept ==
  ASSUME ListKept, OldPassed, UNCHANGED <<at, content, before>>
  PROVE  OldPassed'
<1> SUFFICES ASSUME at = "start", content \notin Texts
             PROVE  \E r \in DOMAIN runs' :
                      /\ Payload(runs'[r]) = content /\ Left(r)'
                      /\ r <= before \/ \E q \in DOMAIN runs' : r < q /\ Stored(runs'[q])
  BY DEF OldPassed, Answers, Stored, Payload, Response
<1>1. PICK r \in DOMAIN runs :
        /\ Payload(runs[r]) = content /\ Left(r)
        /\ r <= before \/ \E q \in DOMAIN runs : r < q /\ Stored(runs[q])
  BY DEF OldPassed, Answers
<1>2. Payload(runs'[r]) = content /\ Left(r)'
  BY <1>1 DEF ListKept
<1>3. CASE r <= before
  BY <1>2, <1>3 DEF ListKept
<1>4. CASE \E q \in DOMAIN runs : r < q /\ Stored(runs[q])
  <2>1. PICK q \in DOMAIN runs : r < q /\ Stored(runs[q])
    BY <1>4
  <2>2. q \in DOMAIN runs' /\ Stored(runs'[q])
    BY <2>1 DEF ListKept
  <2> QED BY <1>2, <2>1, <2>2 DEF ListKept
<1> QED BY <1>1, <1>3, <1>4

\* Steps outside the daemon's goroutines leave the list alone.
LEMMA ListSame ==
  ASSUME IInv, OldEnded, LatestKept, UNCHANGED <<runs, before, lastWritten>>
  PROVE  ListKept /\ OldEnded' /\ LatestKept'
<1>1. before \in Nat
  BY DEF IInv, TypeOK
<1>2. ListKept
  BY <1>1 DEF ListKept, Left, Stored
<1>3. OldEnded'
  BY DEF OldEnded
<1>4. LatestKept'
  BY DEF LatestKept, Stored, Payload, Response
<1> QED BY <1>2, <1>3, <1>4

\* A clipboard that is written with something known holds something known.
LEMMA WrittenKnown ==
  ASSUME IInv, ListKept, AllKnown, NEW v, KnownNext(v), NEW c,
         UNCHANGED clipboard \/ clipboard' = [clipboard EXCEPT ![c] = v]
  PROVE  \A s \in Clipboards : KnownNext(clipboard'[s])
<1> SUFFICES ASSUME NEW s \in Clipboards PROVE KnownNext(clipboard'[s])
  OBVIOUS
<1>1. clipboard \in [Clipboards -> Contents \cup {NoText}]
  BY DEF IInv, TypeOK
<1>2. clipboard'[s] = clipboard[s] \/ clipboard'[s] = v
  BY <1>1
<1>3. KnownNext(clipboard[s])
  <2>1. PICK u : u = clipboard[s] /\ Known(u)
    BY DEF AllKnown
  <2> QED BY <2>1, KnownKept
<1> QED BY <1>2, <1>3

\* The clipboards, the channel and the consumer that a step leaves alone.
LEMMA RestKnown ==
  ASSUME ListKept, AllKnown
  PROVE  /\ UNCHANGED clipboard => \A s \in Clipboards : KnownNext(clipboard'[s])
         /\ UNCHANGED ch => \A i \in DOMAIN ch' : KnownNext(ch'[i])
         /\ UNCHANGED content => KnownNext(content')
         /\ UNCHANGED <<at, content>> => (at' # "select" => content' # NoText)
<1>1. ASSUME NEW s \in Clipboards PROVE KnownNext(clipboard[s])
  <2>1. PICK u : u = clipboard[s] /\ Known(u)
    BY DEF AllKnown
  <2> QED BY <2>1, KnownKept
<1>2. ASSUME NEW i \in DOMAIN ch PROVE KnownNext(ch[i])
  <2>1. PICK u : u = ch[i] /\ Known(u)
    BY DEF AllKnown
  <2> QED BY <2>1, KnownKept
<1>3. KnownNext(content)
  <2>1. PICK u : u = content /\ Known(u)
    BY DEF AllKnown
  <2> QED BY <2>1, KnownKept
<1> QED BY <1>1, <1>2, <1>3 DEF AllKnown

\* Users, the page and the poller bring in texts with commands, and move what is there.
LEMMA OutsideKeepsOrigin ==
  ASSUME OriginInv,
         \/ Poll \/ \E t \in CopyTexts, set \in CopySets : Copy(t, set)
         \/ QuickWrite \/ \E t \in QuickTexts : QuickBegin(t)
  PROVE  OldEnded' /\ AllKnown' /\ LatestKept' /\ OldPassed'
<1>1. UNCHANGED <<runs, before, lastWritten, at, content>>
  BY DEF Poll, PollFails, PollNothing, PollTwin, PollEmit, Copy, QuickWrite, QuickBegin,
         consumerVars, flagVars
<1>2. ListKept /\ OldEnded' /\ LatestKept' /\ OldPassed'
  BY <1>1, ListSame, PassedKept DEF OriginInv
<1>3. IInv /\ AllKnown
  BY DEF OriginInv
<1>4. \A s \in Clipboards : KnownNext(clipboard'[s])
  <2>1. CASE Poll \/ \E t \in QuickTexts : QuickBegin(t)
    <3>1. UNCHANGED clipboard
      BY <2>1 DEF Poll, PollFails, PollNothing, PollTwin, PollEmit, QuickBegin
    <3> QED BY <1>2, <1>3, <3>1, RestKnown
  <2>2. CASE QuickWrite
    <3>1. PICK v : v = quick.text
      OBVIOUS
    <3>2. quick \in [text : QuickTexts \cup {NoText}, target : Nat]
      BY <1>3 DEF IInv, TypeOK
    <3>3. KnownNext(v)
      BY <3>1, <3>2 DEF KnownNext
    <3>4. UNCHANGED clipboard \/ clipboard' = [clipboard EXCEPT ![Sources[quick.target]] = v]
      BY <2>2, <3>1 DEF QuickWrite
    <3> QED BY <1>2, <1>3, <3>3, <3>4, WrittenKnown
  <2>3. ASSUME NEW t \in CopyTexts, NEW set \in CopySets, Copy(t, set), NEW s \in Clipboards
        PROVE  KnownNext(clipboard'[s])
    <3>1. clipboard'[s] = t \/ clipboard'[s] = clipboard[s]
      BY <2>3 DEF Copy
    <3>2. KnownNext(t)
      BY DEF KnownNext
    <3>3. PICK u : u = clipboard[s] /\ Known(u)
      BY <1>3 DEF AllKnown
    <3>4. KnownNext(u)
      BY <1>2, <3>3, KnownKept
    <3> QED BY <3>1, <3>2, <3>3, <3>4
  <2> QED BY <2>1, <2>2, <2>3
<1>5. \A i \in DOMAIN ch' : KnownNext(ch'[i])
  <2>1. CASE PollEmit
    <3>1. PICK v : v = Read
      OBVIOUS
    <3>2. turn \in DOMAIN Sources /\ clipboard \in [Clipboards -> Contents \cup {NoText}]
      BY <1>3 DEF IInv, TypeOK
    <3>3. Sources[turn] \in Clipboards /\ v \in Contents
      BY <2>1, <3>1, <3>2 DEF Clipboards, Read, PollEmit
    <3>4. Known(v)
      BY <1>3, <3>1, <3>3 DEF AllKnown, Read
    <3>5. PICK q \in Seq(Contents) : q = ch
      BY <1>3 DEF IInv, TypeOK
    <3>6. ch' = Append(q, v) \/ ch' = q
      BY <2>1, <3>1, <3>5 DEF PollEmit, Emit
    <3>7. \A i \in DOMAIN ch' : ch'[i] = v \/ (i \in DOMAIN q /\ ch'[i] = q[i])
      BY <3>3, <3>5, <3>6
    <3>8. KnownNext(v)
      BY <1>2, <3>4, KnownKept
    <3>9. ASSUME NEW i \in DOMAIN q PROVE KnownNext(q[i])
      <4>1. PICK u : u = q[i] /\ Known(u)
        BY <1>3, <3>5 DEF AllKnown
      <4> QED BY <1>2, <4>1, KnownKept
    <3> QED BY <3>7, <3>8, <3>9
  <2>2. CASE ~ PollEmit
    <3>1. UNCHANGED ch
      BY <2>2 DEF Poll, PollFails, PollNothing, PollTwin, Copy, QuickWrite, QuickBegin
    <3> QED BY <1>2, <1>3, <3>1, RestKnown
  <2> QED BY <2>1, <2>2
<1>6. KnownNext(content') /\ (at' # "select" => content' # NoText)
  BY <1>1, <1>2, <1>3, RestKnown
<1> QED BY <1>2, <1>4, <1>5, <1>6, AllKnownNext

\* What passes the comparison differs from the latest response; so it answers a daemon
\* before this one, or a batch that another has followed.
LEMMA ConsumeKeepsOrigin ==
  ASSUME OriginInv, Consume
  PROVE  OldEnded' /\ AllKnown' /\ LatestKept' /\ OldPassed'
<1>1. IInv /\ AllKnown /\ OldEnded /\ LatestKept /\ OldPassed
  BY DEF OriginInv
<1>2. UNCHANGED <<clipboard, before, lastWritten>>
  BY DEF Consume, Receive, Filter, Skip, Start, flagVars
<1>3. ListKept /\ OldEnded' /\ LatestKept'
  <2>1. CASE Start
    BY <1>1, <2>1, StartKeepsList
  <2>2. CASE ~ Start
    <3>1. UNCHANGED runs
      BY <2>2 DEF Consume, Receive, Filter, Skip
    <3> QED BY <1>1, <1>2, <3>1, ListSame
  <2> QED BY <2>1, <2>2
<1>4. \A s \in Clipboards : KnownNext(clipboard'[s])
  BY <1>1, <1>2, <1>3, RestKnown
<1>5. CASE Receive
  <2>1. PICK q \in Seq(Contents) : q = ch /\ q # <<>>
    BY <1>1, <1>5 DEF IInv, TypeOK, Receive
  <2>2. /\ 1 \in DOMAIN q /\ Head(q) = q[1] /\ Head(q) \in Contents
        /\ \A i \in DOMAIN Tail(q) : i + 1 \in DOMAIN q /\ Tail(q)[i] = q[i + 1]
    BY <2>1
  <2>3. content' = Head(q) /\ ch' = Tail(q) /\ at' = "filter"
    BY <1>5, <2>1 DEF Receive
  <2>4. ASSUME NEW i \in DOMAIN q PROVE KnownNext(q[i])
    <3>1. PICK u : u = q[i] /\ Known(u)
      BY <1>1, <2>1 DEF AllKnown
    <3> QED BY <1>3, <3>1, KnownKept
  <2>5. KnownNext(content') /\ \A i \in DOMAIN ch' : KnownNext(ch'[i])
    BY <2>2, <2>3, <2>4
  <2>6. content' # NoText
    BY <2>2, <2>3, ResponseAssumption DEF Contents
  <2>7. AllKnown'
    BY <1>4, <2>5, <2>6, AllKnownNext
  <2>8. OldPassed'
    BY <2>3 DEF OldPassed
  <2> QED BY <1>3, <2>7, <2>8
<1>6. CASE Filter
  <2>1. \A i \in DOMAIN ch' : KnownNext(ch'[i])
    BY <1>1, <1>3, <1>6, RestKnown DEF Filter
  <2>2. UNCHANGED <<runs, before>> /\ at = "filter"
    BY <1>6 DEF Filter
  <2>3. CASE content = lastWritten
    <3>1. content' = NoText /\ at' = "select"
      BY <1>6, <2>3 DEF Filter
    <3>2. AllKnown'
      BY <1>4, <2>1, <3>1, AllKnownNext DEF KnownNext
    <3>3. OldPassed'
      BY <3>1 DEF OldPassed
    <3> QED BY <1>3, <3>2, <3>3
  <2>4. CASE content # lastWritten
    <3>1. content' = content /\ at' = "start"
      BY <1>6, <2>4 DEF Filter
    <3>2. content # NoText /\ KnownNext(content')
      BY <1>1, <1>3, <2>2, <3>1, RestKnown DEF AllKnown
    <3>3. AllKnown'
      BY <1>4, <2>1, <3>1, <3>2, AllKnownNext
    <3>4. ASSUME content \notin Texts
          PROVE  \E r \in DOMAIN runs :
                   /\ Answers(r, content)
                   /\ r <= before \/ \E q \in DOMAIN runs : r < q /\ Stored(runs[q])
      <4>1. PICK r \in DOMAIN runs : Answers(r, content)
        BY <1>1, <3>2, <3>4 DEF AllKnown, Known
      <4>2. CASE r <= before
        BY <4>1, <4>2
      <4>3. CASE ~ r <= before
        <5>1. r > before /\ Stored(runs[r]) /\ Payload(runs[r]) # lastWritten
          <6>1. r \in Nat /\ before \in Nat
            BY <1>1 DEF IInv, TypeOK
          <6> QED BY <2>4, <4>1, <4>3, <6>1 DEF Answers, Left
        <5>2. \E q \in DOMAIN runs : r < q /\ Stored(runs[q])
          BY <1>1, <5>1 DEF LatestKept
        <5> QED BY <4>1, <5>2
      <4> QED BY <4>2, <4>3
    <3>5. OldPassed'
      BY <2>2, <3>1, <3>4 DEF OldPassed, Answers, Left, Stored, Payload, Response
    <3> QED BY <1>3, <3>3, <3>5
  <2> QED BY <2>3, <2>4
<1>7. CASE Skip \/ Start
  <2>1. content' = NoText /\ at' = "select" /\ UNCHANGED ch
    BY <1>7 DEF Skip, Start
  <2>2. AllKnown'
    BY <1>1, <1>3, <1>4, <2>1, RestKnown, AllKnownNext DEF KnownNext
  <2>3. OldPassed'
    BY <2>1 DEF OldPassed
  <2> QED BY <1>3, <2>2, <2>3
<1> QED BY <1>5, <1>6, <1>7 DEF Consume

\* A goroutine writes the response that it has recorded.
LEMMA WorkKeepsOrigin ==
  ASSUME OriginInv, NEW r \in DOMAIN runs, Process(r)
  PROVE  OldEnded' /\ AllKnown' /\ LatestKept' /\ OldPassed'
<1>1. IInv /\ AllKnown /\ OldEnded /\ LatestKept /\ OldPassed
  BY DEF OriginInv
<1>2. ListKept /\ OldEnded' /\ LatestKept'
  BY <1>1, WorkKeepsList
<1>3. UNCHANGED <<before, at, content, ch>>
  BY DEF Process, StepBegins, StepEnds, StoreWritten, WriteOne, Finish, consumerVars
<1>4. \A s \in Clipboards : KnownNext(clipboard'[s])
  <2>1. CASE WriteOne(r)
    <3>1. PICK v, c : /\ v = Payload(runs[r])
                      /\ UNCHANGED clipboard \/ clipboard' = [clipboard EXCEPT ![c] = v]
      BY <2>1 DEF WriteOne
    <3>2. Known(v)
      BY <2>1, <3>1 DEF WriteOne, Known, Answers, Left, Stored
    <3>3. KnownNext(v)
      BY <1>2, <3>2, KnownKept
    <3> QED BY <1>1, <1>2, <3>1, <3>3, WrittenKnown
  <2>2. CASE ~ WriteOne(r)
    <3>1. UNCHANGED clipboard
      BY <2>2 DEF Process, StepBegins, StepEnds, StoreWritten, Finish
    <3> QED BY <1>1, <1>2, <3>1, RestKnown
  <2> QED BY <2>1, <2>2
<1>5. AllKnown'
  BY <1>1, <1>2, <1>3, <1>4, RestKnown, AllKnownNext
<1>6. OldPassed'
  BY <1>1, <1>2, <1>3, PassedKept
<1> QED BY <1>2, <1>5, <1>6

\* A restart leaves the clipboards as they are and forgets the rest.
LEMMA RestartKeepsOrigin ==
  ASSUME OriginInv, Restart
  PROVE  OldEnded' /\ AllKnown' /\ LatestKept' /\ OldPassed'
<1>1. IInv /\ AllKnown /\ OldEnded
  BY DEF OriginInv
<1>2. ListKept /\ OldEnded' /\ LatestKept'
  BY <1>1, RestartKeepsList
<1>3. UNCHANGED clipboard /\ ch' = <<>> /\ at' = "select" /\ content' = NoText
  BY DEF Restart
<1>4. AllKnown'
  BY <1>1, <1>2, <1>3, RestKnown, AllKnownNext DEF KnownNext
<1>5. OldPassed'
  BY <1>3 DEF OldPassed
<1> QED BY <1>2, <1>4, <1>5

\* The provenance of the responses holds in every state.
LEMMA OriginInvariance == SafeSpec => []OriginInv
<1>1. Init => OriginInv
  <2> SUFFICES ASSUME Init PROVE OriginInv
    OBVIOUS
  <2>1. IInv
    BY InitInv
  <2>2. DOMAIN runs = {} /\ Len(runs) = 0 /\ DOMAIN ch = {}
    BY DEF Init
  <2> QED BY <2>1, <2>2 DEF Init, OriginInv, OldEnded, AllKnown, Known, LatestKept, OldPassed
<1>2. OriginInv /\ [Next]_vars => OriginInv'
  <2> SUFFICES ASSUME OriginInv, [Next]_vars PROVE OriginInv'
    OBVIOUS
  <2>1. IInv'
    BY NextInv DEF OriginInv
  <2>2. CASE Poll \/ QuickWrite \/ (\E t \in QuickTexts : QuickBegin(t))
             \/ \E t \in CopyTexts, set \in CopySets : Copy(t, set)
    BY <2>1, <2>2, OutsideKeepsOrigin DEF OriginInv
  <2>3. CASE Consume
    BY <2>1, <2>3, ConsumeKeepsOrigin DEF OriginInv
  <2>4. CASE Work
    BY <2>1, <2>4, WorkKeepsOrigin DEF OriginInv, Work
  <2>5. CASE Restart
    BY <2>1, <2>5, RestartKeepsOrigin DEF OriginInv
  <2>6. CASE UNCHANGED vars
    <3>1. UNCHANGED <<clipboard, ch, runs, before, lastWritten, at, content>>
      BY <2>6 DEF vars, consumerVars, flagVars
    <3>2. ListKept /\ OldEnded' /\ LatestKept' /\ OldPassed'
      BY <3>1, ListSame, PassedKept DEF OriginInv
    <3>3. AllKnown'
      BY <3>1, <3>2, RestKnown, AllKnownNext DEF OriginInv
    <3> QED BY <2>1, <3>2, <3>3 DEF OriginInv
  <2> QED BY <2>2, <2>3, <2>4, <2>5, <2>6 DEF Next
<1> QED BY <1>1, <1>2, PTL DEF SafeSpec

-------------------------------------------------------------------------------
(* The results.                                                               *)

\* Type correctness, for any number of clipboards, texts and commands.
THEOREM TypeCorrect == SafeSpec => []TypeOK
<1>1. IInv => TypeOK
  BY DEF IInv
<1> QED BY <1>1, Invariance, PTL

\* Two batches never run at the same time, and the one that runs holds the flag.
THEOREM OneAtATime == SafeSpec => []OneBatch
BY Implied, Invariance, PTL

\* The statuses and the response tell what the pipeline did, for pipelines of any length.
THEOREM PipelineTrue == SafeSpec => []PipelineTellsTheTruth
BY Implied, Invariance, PTL

\* A response that gets past the comparison with lastWritten is an old one: a later
\* batch has answered meanwhile, or a daemon before this one wrote it.
THEOREM OldOutputOnly == SafeSpec => []OnlyOldOutputPasses
<1>1. OriginInv => OnlyOldOutputPasses
  BY DEF OriginInv, OldPassed, Answers, OnlyOldOutputPasses, Stored
<1> QED BY <1>1, OriginInvariance, PTL

-------------------------------------------------------------------------------
(* The next command of the user.                                              *)

\* The flag is set only while a batch runs, and a text of the user is never taken for
\* the response written last.
FlagInv == (processing => Running # {}) /\ lastWritten \notin Texts

\* A response is no text of commands.
LEMMA PayloadNoText == ASSUME NEW b \in Batches PROVE Payload(b) \notin Texts
BY ResponseAssumption, BatchFields DEF Payload, Response, Responses

\* A batch either ends, and gives the flag back, or goes on running.
LEMMA WorkKeepsFlag ==
  ASSUME IInv, FlagInv, NEW r \in DOMAIN runs, Process(r)
  PROVE  FlagInv'
<1>1. runs \in Seq(Batches)
  BY DEF IInv, TypeOK
<1>2. PICK b \in Batches :
        /\ Set(r, b) /\ b.pc # "killed"
        /\ processing' = IF b.pc = "done" THEN FALSE ELSE processing
  BY <1>1, ProcessFollows
<1>3. DOMAIN runs' = DOMAIN runs /\ runs'[r] = b
  BY <1>1, <1>2, SetBatch
<1>4. processing' => Running' # {}
  <2>1. processing' => b.pc \notin {"done", "killed"}
    BY <1>2
  <2> QED BY <1>3, <2>1 DEF Running
<1>5. lastWritten' \notin Texts
  BY <1>1, ProcessStores, PayloadNoText DEF FlagInv
<1> QED BY <1>4, <1>5 DEF FlagInv

\* Every step keeps it.
LEMMA NextFlag == IInv /\ FlagInv /\ [Next]_vars => FlagInv'
<1> SUFFICES ASSUME IInv, FlagInv, [Next]_vars PROVE FlagInv'
  OBVIOUS
<1>1. ASSUME UNCHANGED <<runs, processing, lastWritten>> PROVE FlagInv'
  BY <1>1 DEF FlagInv, Running
<1>2. CASE Start
  <2>1. PICK b : runs' = Append(runs, b) /\ b.pc = "next"
    BY <1>2 DEF Start
  <2>2. runs \in Seq(Batches)
    BY DEF IInv, TypeOK
  <2>3. Len(runs) + 1 \in DOMAIN runs' /\ runs'[Len(runs) + 1] = b
    BY <2>1, <2>2
  <2>4. Len(runs) + 1 \in Running'
    BY <2>1, <2>3 DEF Running
  <2> QED BY <1>2, <2>4 DEF FlagInv, Start
<1>3. CASE Work
  BY <1>3, WorkKeepsFlag DEF Work
<1>4. CASE Restart
  BY <1>4 DEF Restart, FlagInv
<1>5. CASE Poll \/ Receive \/ Filter \/ Skip \/ QuickWrite \/ UNCHANGED vars
  BY <1>1, <1>5 DEF Poll, PollFails, PollNothing, PollTwin, PollEmit, Receive, Filter, Skip,
                    QuickWrite, vars, flagVars
<1>6. CASE \E t \in CopyTexts, set \in CopySets : Copy(t, set)
  BY <1>1, <1>6 DEF Copy, flagVars
<1>7. CASE \E t \in QuickTexts : QuickBegin(t)
  BY <1>1, <1>7 DEF QuickBegin, flagVars
<1> QED BY <1>2, <1>3, <1>4, <1>5, <1>6, <1>7 DEF Next, Consume

LEMMA FlagInvariance == SafeSpec => []FlagInv
<1>1. Init => FlagInv
  BY DEF Init, FlagInv
<1> QED BY <1>1, Invariance, NextFlag, PTL DEF SafeSpec

\* What is on its way stays there while the poller takes its turns.
LEMMA PollKeepsDue ==
  ASSUME IInv, NEW t \in Texts, Due(t), PollNothing \/ PollTwin \/ PollEmit
  PROVE  Due(t)'
<1>1. /\ turn \in DOMAIN Sources /\ t # NoText
      /\ last \in [DOMAIN Sources -> Contents \cup {NoText}]
      /\ Read \in {NoText, last[turn], t}
  BY DEF IInv, TypeOK, Due, Read
<1>2. UNCHANGED <<clipboard, at, content, runs, quick>>
  BY DEF PollNothing, PollTwin, PollEmit, consumerVars
<1>3. Running' = Running
  BY <1>2 DEF Running
<1>4. CASE PollNothing
  BY <1>2, <1>3, <1>4 DEF PollNothing, Due
<1>5. CASE PollTwin \/ PollEmit
  <2>1. Read = t /\ last[turn] # t /\ last' = [last EXCEPT ![turn] = t]
    BY <1>1, <1>5 DEF PollTwin, PollEmit
  <2>2. \A i \in DOMAIN Sources : last'[i] = IF i = turn THEN t ELSE last[i]
    BY <1>1, <2>1
  <2>3. \A i \in DOMAIN Sources : clipboard'[Sources[i]] \in {NoText, last'[i], t}
    <3> TAKE i \in DOMAIN Sources
    <3>1. clipboard' = clipboard /\ clipboard[Sources[i]] \in {NoText, last[i], t}
      BY <1>2 DEF Due
    <3>2. CASE i = turn
      BY <2>1, <3>1, <3>2 DEF Read
    <3>3. CASE i # turn
      BY <2>2, <3>1, <3>3
    <3> QED BY <3>2, <3>3
  <2>4. CASE PollTwin
    BY <1>2, <1>3, <2>1, <2>3, <2>4 DEF PollTwin, Due
  <2>5. CASE PollEmit
    <3>1. t # lastSent /\ lastSent' = t /\ ch = <<>> /\ at = "select"
      BY <2>1, <2>5 DEF PollEmit, Due
    <3>2. ch' = <<t>>
      BY <2>1, <2>5, <3>1 DEF PollEmit, Emit
    <3> QED BY <1>2, <1>3, <2>3, <3>1, <3>2 DEF Due
  <2> QED BY <1>5, <2>4, <2>5
<1> QED BY <1>4, <1>5

\* The consumer takes it out of the channel, through the comparison with lastWritten, and
\* finds the flag free.
LEMMA ConsumeKeepsDue ==
  ASSUME IInv, FlagInv, NEW t \in Texts, Due(t), Consume
  PROVE  Due(t)' \/ Begun(t)'
<1>1. t # lastWritten /\ ~ processing /\ Extract(t) > 0
  BY DEF FlagInv, Due, Extract
<1>2. CASE Receive
  <2>1. ch = <<t>> /\ t = lastSent
    BY <1>2 DEF Receive, Due
  <2>2. at' = "filter" /\ content' = t /\ ch' = <<>>
    BY <1>2, <2>1 DEF Receive
  <2> QED BY <1>2, <2>1, <2>2 DEF Receive, Due, Running, pollVars
<1>3. CASE Filter
  <2>1. ch = <<>> /\ content = t /\ t = lastSent
    BY <1>3 DEF Filter, Due
  <2>2. at' = "start" /\ content' = t
    BY <1>1, <1>3, <2>1 DEF Filter
  <2> QED BY <1>3, <2>1, <2>2 DEF Filter, Due, Running, pollVars
<1>4. CASE Skip
  <2>1. content = t
    BY <1>4 DEF Skip, Due
  <2> QED BY <1>1, <1>4, <2>1 DEF Skip, Due
<1>5. CASE Start
  <2>1. content = t
    BY <1>5 DEF Start, Due
  <2>2. PICK b : runs' = Append(runs, b) /\ b.pc = "next" /\ b.text = t
    BY <1>5, <2>1 DEF Start
  <2>3. runs \in Seq(Batches)
    BY DEF IInv, TypeOK
  <2>4. Len(runs) + 1 \in DOMAIN runs' /\ runs'[Len(runs) + 1] = b
    BY <2>2, <2>3
  <2>5. Len(runs) + 1 \in Running'
    BY <2>2, <2>4 DEF Running
  <2> QED BY <2>2, <2>4, <2>5 DEF Begun
<1> QED BY <1>2, <1>3, <1>4, <1>5 DEF Consume

\* A command that the user copies while the loop rests is run, unless something else
\* comes from outside first.
THEOREM NextCommandRuns == SafeSpec => CopyAtRestRuns
<1>1. ASSUME IInv, FlagInv, [Next]_vars, NEW t \in Texts, Due(t), UNCHANGED Outside
      PROVE  Due(t)' \/ Begun(t)'
  <2>1. /\ copied \in [Texts -> Nat] /\ failures \in Nat /\ clicks \in Nat /\ restarts \in Nat
        /\ runs \in Seq(Batches)
        /\ UNCHANGED <<copied, failures, clicks, restarts>>
    BY <1>1 DEF IInv, TypeOK, Outside
  <2>2. CASE \E u \in CopyTexts, set \in CopySets : Copy(u, set)
    <3>1. PICK u \in CopyTexts : copied' = [copied EXCEPT ![u] = @ + 1]
      BY <2>2 DEF Copy
    <3>2. u \in Texts /\ copied[u] \in Nat /\ copied'[u] = copied[u] + 1
      BY <2>1, <3>1
    <3> QED BY <2>1, <3>2
  <2>3. CASE PollFails
    BY <2>1, <2>3 DEF PollFails
  <2>4. CASE PollNothing \/ PollTwin \/ PollEmit
    BY <1>1, <2>4, PollKeepsDue
  <2>5. CASE Consume
    BY <1>1, <2>5, ConsumeKeepsDue
  <2>6. CASE Work
    <3>1. PICK r \in DOMAIN runs : Process(r)
      BY <2>6 DEF Work
    <3>2. runs[r].pc \notin Ends
      BY <2>1, <3>1, ProcessFollows DEF Follows
    <3> QED BY <1>1, <3>2 DEF Due, Running, Ends
  <2>7. CASE QuickWrite
    BY <1>1, <2>7 DEF QuickWrite, Due
  <2>8. CASE \E u \in QuickTexts : QuickBegin(u)
    BY <2>1, <2>8 DEF QuickBegin
  <2>9. CASE Restart
    BY <2>1, <2>9 DEF Restart
  <2>10. CASE UNCHANGED vars
    BY <1>1, <2>10 DEF vars, pollVars, consumerVars, Due, Running
  <2> QED BY <1>1, <2>2, <2>3, <2>4, <2>5, <2>6, <2>7, <2>8, <2>9, <2>10 DEF Next, Poll
<1>2. IInv /\ FlagInv /\ [Next]_vars
        => [\A t \in Texts : Due(t) => (Due(t) \/ Begun(t))' \/ Outside' # Outside]_vars
  BY <1>1
<1> QED BY <1>2, Invariance, FlagInvariance, PTL DEF SafeSpec, CopyAtRestRuns

-------------------------------------------------------------------------------
(* Counting.                                                                  *)

\* How often a content is in a sequence.
Count(q, t) == Cardinality({i \in DOMAIN q : q[i] = t})

\* What is appended counts once.
LEMMA CountAppend ==
  ASSUME NEW S, NEW q \in Seq(S), NEW v \in S, NEW t
  PROVE  /\ Count(q, t) \in Nat
         /\ v = t => Count(Append(q, v), t) = Count(q, t) + 1
         /\ v # t => Count(Append(q, v), t) = Count(q, t)
<1>1. PICK n \in Nat : n = Len(q)
  OBVIOUS
<1>2. PICK a : a = Append(q, v)
  OBVIOUS
<1>3. DOMAIN q = 1..n /\ DOMAIN a = 1..(n + 1)
  BY <1>1, <1>2
<1>4. a[n + 1] = v /\ \A i \in 1..n : a[i] = q[i]
  BY <1>1, <1>2, AppendProperties
<1>5. PICK A, B : A = {i \in DOMAIN q : q[i] = t} /\ B = {i \in DOMAIN a : a[i] = t}
  OBVIOUS
<1>6. /\ v = t => B = A \cup {n + 1}
      /\ v # t => B = A
  <2>1. DOMAIN a = DOMAIN q \cup {n + 1}
    BY <1>3
  <2> QED BY <1>3, <1>4, <1>5, <2>1
<1>7. A \in SUBSET (1..n) /\ n + 1 \notin A
  BY <1>3, <1>5
<1>8. Cardinality(A) \in Nat /\ Cardinality(A \cup {n + 1}) = Cardinality(A) + 1
  BY <1>7, Places, OneMore
<1>9. Count(q, t) = Cardinality(A) /\ Count(Append(q, v), t) = Cardinality(B)
  BY <1>2, <1>5 DEF Count
<1> QED BY <1>6, <1>8, <1>9

\* What is taken from the front counts no more.
LEMMA CountTail ==
  ASSUME NEW S, NEW q \in Seq(S), q # <<>>, NEW t
  PROVE  /\ Count(Tail(q), t) \in Nat
         /\ Head(q) = t => Count(q, t) = Count(Tail(q), t) + 1
         /\ Head(q) # t => Count(q, t) = Count(Tail(q), t)
<1>1. PICK n \in Nat : n + 1 = Len(q)
  <2>1. PICK m \in Nat : m = Len(q) /\ m # 0
    OBVIOUS
  <2>2. m - 1 \in Nat /\ (m - 1) + 1 = Len(q)
    BY <2>1
  <2> QED BY <2>2
<1>2. PICK a : a = Tail(q)
  OBVIOUS
<1>3. DOMAIN q = 1..(n + 1) /\ DOMAIN a = 1..n /\ q[1] = Head(q)
  BY <1>1, <1>2
<1>4. \A i \in 1..n : a[i] = q[i + 1]
  BY <1>1, <1>2, HeadTailProperties
<1>5. PICK A, B : A = {i \in DOMAIN a : a[i] = t} /\ B = {i \in 2..(n + 1) : q[i] = t}
  OBVIOUS
<1>6. A \in SUBSET (1..n) /\ B \in SUBSET (1..(n + 1)) /\ 1 \notin B
  BY <1>3, <1>5
<1>7. Cardinality(A) = Cardinality(B)
  <2>1. PICK f : f = [i \in A |-> i + 1]
    OBVIOUS
  <2>2. \A i \in A : i \in 1..n /\ i + 1 \in B
    BY <1>3, <1>4, <1>5
  <2>3. \A j \in B : j - 1 \in A /\ (j - 1) + 1 = j
    BY <1>3, <1>4, <1>5
  <2>4. f \in [A -> B] /\ (\A i, k \in A : f[i] = f[k] => i = k) /\ \A j \in B : f[j - 1] = j
    BY <2>1, <2>2, <2>3
  <2>5. f \in Injection(A, B)
    BY <2>4 DEF Injection, IsInjective
  <2>6. f \in Surjection(A, B)
    BY <2>3, <2>4 DEF Surjection
  <2>7. IsFiniteSet(A)
    BY <1>6, Places
  <2> QED BY <2>5, <2>6, <2>7, FS_Surjection
<1>8. Cardinality(A) \in Nat /\ Cardinality(B \cup {1}) = Cardinality(B) + 1
  <2>1. Cardinality(A) \in Nat
    BY <1>6, Places
  <2>2. PICK m \in Nat : m = n + 1
    OBVIOUS
  <2>3. B \in SUBSET (1..m)
    BY <1>6, <2>2
  <2> QED BY <1>6, <2>1, <2>3, OneMore
<1>9. PICK C : C = {i \in DOMAIN q : q[i] = t}
  OBVIOUS
<1>10. /\ Head(q) = t => C = B \cup {1}
       /\ Head(q) # t => C = B
  <2>1. DOMAIN q = 2..(n + 1) \cup {1} /\ 1 \notin 2..(n + 1)
    BY <1>3
  <2> QED BY <1>3, <1>5, <1>9, <2>1
<1>11. Count(Tail(q), t) = Cardinality(A) /\ Count(q, t) = Cardinality(C)
  BY <1>2, <1>5, <1>9 DEF Count
<1> QED BY <1>7, <1>8, <1>10, <1>11

\* The batches of a text are as many as before when no batch changes its text, and one
\* more when a batch with this text is started.
LEMMA RanKept ==
  ASSUME runs \in Seq(Batches), NEW t, DOMAIN runs' = DOMAIN runs,
         \A r \in DOMAIN runs : runs'[r].text = runs[r].text
  PROVE  Ran(t) \in Nat /\ Ran(t)' = Ran(t)
<1>1. PICK A : A = {r \in DOMAIN runs : runs[r].text = t}
  OBVIOUS
<1>2. A \in SUBSET (1..Len(runs)) /\ Len(runs) \in Nat
  BY <1>1
<1>3. Cardinality(A) \in Nat
  BY <1>2, Places
<1>4. A = {r \in DOMAIN runs' : runs'[r].text = t}
  BY <1>1
<1> QED BY <1>1, <1>3, <1>4 DEF Ran

LEMMA RanStarted ==
  ASSUME runs \in Seq(Batches), NEW t, NEW b \in Batches, runs' = Append(runs, b)
  PROVE  /\ Ran(t) \in Nat
         /\ b.text = t => Ran(t)' = Ran(t) + 1
         /\ b.text # t => Ran(t)' = Ran(t)
<1>1. PICK n \in Nat : n = Len(runs)
  OBVIOUS
<1>2. DOMAIN runs = 1..n /\ DOMAIN runs' = 1..(n + 1)
  BY <1>1
<1>3. runs'[n + 1] = b /\ \A i \in 1..n : runs'[i] = runs[i]
  BY <1>1, AppendProperties
<1>4. PICK A, B : /\ A = {r \in DOMAIN runs : runs[r].text = t}
                  /\ B = {r \in DOMAIN runs' : runs'[r].text = t}
  OBVIOUS
<1>5. /\ b.text = t => B = A \cup {n + 1}
      /\ b.text # t => B = A
  <2>1. DOMAIN runs' = DOMAIN runs \cup {n + 1}
    BY <1>2
  <2> QED BY <1>2, <1>3, <1>4, <2>1
<1>6. A \in SUBSET (1..n) /\ n + 1 \notin A
  BY <1>2, <1>4
<1>7. Cardinality(A) \in Nat /\ Cardinality(A \cup {n + 1}) = Cardinality(A) + 1
  BY <1>6, Places, OneMore
<1>8. Ran(t) = Cardinality(A) /\ Ran(t)' = Cardinality(B)
  BY <1>4 DEF Ran
<1> QED BY <1>5, <1>7, <1>8

-------------------------------------------------------------------------------
(* The account of a text.                                                     *)


\* What was run, and what is on its way to the watcher.
Held(t) == IF content = t THEN 1 ELSE 0
Spent(t) == Ran(t) + Count(ch, t) + Held(t)

\* What may be run, in a world of one clipboard.
Allowed(t) == IF Shown(t) = 0 THEN 0 ELSE Shown(t) + restarts

\* The tools that show the text and have not read it since; they can report it, except
\* that the next one will not while the text is the one emitted last.
Unread(t) == {i \in DOMAIN Sources : clipboard[Sources[i]] = t /\ last[i] # t}
Pending(t) == IF Unread(t) = {} \/ (lastSent = t /\ Unread(t) \subseteq {turn}) THEN 0 ELSE 1

\* What a click has still to write.
Writes(t) == IF quick.text = t THEN (Len(Sources) + 1) - quick.target ELSE 0

\* A text that is on a clipboard, or on its way there, was shown.
ShownFirst ==
  /\ \A s \in Clipboards : clipboard[s] \in Texts => Shown(clipboard[s]) # 0
  /\ quick.text \in Texts => Shown(quick.text) # 0
  /\ quick.target \in DOMAIN Sources

\* Each tool counts what is shown once; two of them count it once together while none
\* fails.
PerTool(t) ==
  Spent(t) + Cardinality(Unread(t)) + Len(Sources) * Writes(t) <= Len(Sources) * Allowed(t)
Together(t) == Spent(t) + Pending(t) + 1 * Writes(t) <= 1 * Allowed(t)

AccountInv ==
  /\ IInv /\ ShownFirst
  /\ \A t \in Texts : PerTool(t)
  /\ failures = 0 /\ Len(Sources) <= 2 => \A t \in Texts : Together(t)

\* The quantities of the account are natural numbers.
Typed(t) ==
  /\ Spent(t) \in Nat /\ Shown(t) \in Nat /\ Allowed(t) \in Nat /\ Writes(t) \in Nat
  /\ Ran(t) \in Nat /\ Count(ch, t) \in Nat
  /\ Pending(t) \in 0..1 /\ IsFiniteSet(Unread(t))
  /\ Cardinality(Unread(t)) \in 0..Len(Sources)

AllTyped == \A t \in Texts : Typed(t)

LEMMA Quantities == IInv /\ ShownFirst => \A t \in Texts : Typed(t)
<1> SUFFICES ASSUME IInv, ShownFirst, NEW t \in Texts PROVE Typed(t)
  OBVIOUS
<1>1. PICK n \in Nat \ {0} : n = Len(Sources) /\ DOMAIN Sources = 1..n
  OBVIOUS
<1>2. /\ runs \in Seq(Batches) /\ ch \in Seq(Contents) /\ copied \in [Texts -> Nat]
      /\ clicks \in Nat /\ restarts \in Nat
  BY DEF IInv, TypeOK
<1>3. Ran(t) \in Nat
  <2>1. PICK A : A = {r \in DOMAIN runs : runs[r].text = t}
    OBVIOUS
  <2>2. A \in SUBSET (1..Len(runs)) /\ Len(runs) \in Nat
    BY <1>2, <2>1
  <2>3. Cardinality(A) \in Nat
    BY <2>2, Places
  <2> QED BY <2>1, <2>3 DEF Ran
<1>4. Count(ch, t) \in Nat
  <2>1. PICK A : A = {i \in DOMAIN ch : ch[i] = t}
    OBVIOUS
  <2>2. A \in SUBSET (1..Len(ch)) /\ Len(ch) \in Nat
    BY <1>2, <2>1
  <2>3. Cardinality(A) \in Nat
    BY <2>2, Places
  <2> QED BY <2>1, <2>3 DEF Count
<1>5. Spent(t) \in Nat
  BY <1>3, <1>4 DEF Spent, Held
<1>6. clicks * n \in Nat
  BY <1>1, <1>2
<1>7. Shown(t) \in Nat /\ Allowed(t) \in Nat
  BY <1>1, <1>2, <1>6, SMTT(20) DEF Shown, Allowed
<1>8. Writes(t) \in Nat
  BY <1>1 DEF Writes, ShownFirst
<1>9. Unread(t) \in SUBSET (1..n)
  BY <1>1 DEF Unread
<1>10. IsFiniteSet(Unread(t)) /\ Cardinality(Unread(t)) \in 0..n
  BY <1>9, Places
<1>11. Pending(t) \in 0..1
  BY DEF Pending
<1> QED BY <1>1, <1>3, <1>4, <1>5, <1>7, <1>8, <1>10, <1>11 DEF Typed

LEMMA QuantitiesNext == IInv' /\ ShownFirst' => AllTyped'
<1>1. IInv /\ ShownFirst => AllTyped
  BY Quantities DEF AllTyped
<1> QED BY <1>1, PTL

\* One entry of the account: e is what the step pays in, and what it takes out is less.
LEMMA Balance ==
  ASSUME NEW k \in Nat, NEW s \in Nat, NEW w \in Nat, NEW q \in Nat, NEW a \in Nat,
         NEW s2 \in Nat, NEW w2 \in Nat, NEW q2 \in Nat, NEW a2 \in Nat, NEW e \in Nat,
         s + w + k * q <= k * a, a2 + q = a + q2 + e, s2 + w2 <= s + w + k * e
  PROVE  s2 + w2 + k * q2 <= k * a2
<1>1. k * (a2 + q) = k * a2 + k * q
  OBVIOUS
<1>2. k * (a + q2 + e) = k * a + k * q2 + k * e
  OBVIOUS
<1>3. k * a2 + k * q = k * a + k * q2 + k * e
  BY <1>1, <1>2
<1>4. k * a \in Nat /\ k * a2 \in Nat /\ k * q2 \in Nat /\ k * e \in Nat /\ k * q \in Nat
  OBVIOUS
<1> QED BY <1>3, <1>4

\* What a step may do to the account of a text: leave it alone, emit the text, or pay
\* in for one more.
Quiet(t) ==
  /\ Spent(t)' <= Spent(t) /\ Allowed(t) + Writes(t)' <= Allowed(t)' + Writes(t)
  /\ Cardinality(Unread(t))' <= Cardinality(Unread(t))
  /\ failures' = 0 /\ Len(Sources) <= 2 => Pending(t)' <= Pending(t)
Emitted(t) ==
  /\ Spent(t)' <= Spent(t) + 1 /\ Allowed(t)' = Allowed(t) /\ Writes(t)' = Writes(t)
  /\ Cardinality(Unread(t))' + 1 <= Cardinality(Unread(t))
  /\ failures' = 0 /\ Len(Sources) <= 2 => Pending(t)' + 1 <= Pending(t)
PaidFor(t) ==
  Spent(t)' <= Spent(t) /\ Allowed(t) + Writes(t)' + 1 <= Allowed(t)' + Writes(t)

\* In each case the account still balances.
LEMMA AccountBalances ==
  ASSUME AccountInv, IInv', ShownFirst', failures' = 0 => failures = 0,
         \A t \in Texts : Quiet(t) \/ Emitted(t) \/ PaidFor(t)
  PROVE  AccountInv'
<1> SUFFICES ASSUME NEW t \in Texts
             PROVE  PerTool(t)' /\ (failures' = 0 /\ Len(Sources) <= 2 => Together(t)')
  BY DEF AccountInv
<1>1. PICK n \in Nat \ {0} : n = Len(Sources)
  OBVIOUS
<1>2. IInv /\ ShownFirst /\ PerTool(t)
      /\ (failures' = 0 /\ Len(Sources) <= 2 => Together(t))
  BY DEF AccountInv
<1>3. PICK s \in Nat, q \in Nat, a \in Nat, u \in 0..n, p \in 0..1 :
        /\ s = Spent(t) /\ q = Writes(t) /\ a = Allowed(t)
        /\ u = Cardinality(Unread(t)) /\ p = Pending(t)
  BY <1>1, <1>2, Quantities DEF Typed
<1>4. /\ Spent(t)' \in Nat /\ Writes(t)' \in Nat /\ Allowed(t)' \in Nat
      /\ Cardinality(Unread(t))' \in 0..n /\ Pending(t)' \in 0..1
  <2>1. AllTyped'
    BY QuantitiesNext
  <2>2. Typed(t)'
    BY <2>1 DEF AllTyped
  <2> QED BY <1>1, <2>2 DEF Typed
<1>5. PICK s2 \in Nat, q2 \in Nat, a2 \in Nat, u2 \in 0..n, p2 \in 0..1 :
        /\ s2 = Spent(t)' /\ q2 = Writes(t)' /\ a2 = Allowed(t)'
        /\ u2 = Cardinality(Unread(t))' /\ p2 = Pending(t)'
  BY <1>4
<1>6. s + u + n * q <= n * a
  BY <1>1, <1>2, <1>3 DEF PerTool
<1>7. failures' = 0 /\ n <= 2 => s + p + 1 * q <= 1 * a
  BY <1>1, <1>2, <1>3 DEF Together
<1>8. PICK e \in Int : e = (a2 + q) - (a + q2)
  OBVIOUS
<1>9. /\ e \in Nat /\ s2 + u2 <= s + u + n * e
      /\ failures' = 0 /\ n <= 2 => s2 + p2 <= s + p + 1 * e
  <2>1. CASE Quiet(t)
    <3>1. s2 <= s /\ u2 <= u /\ (failures' = 0 /\ n <= 2 => p2 <= p)
      BY <1>1, <1>3, <1>5, <2>1 DEF Quiet
    <3>2. a + q2 <= a2 + q
      BY <1>3, <1>5, <2>1 DEF Quiet
    <3>3. e \in Nat
      BY <1>8, <3>2
    <3>4. n * e \in Nat
      BY <3>3
    <3> QED BY <3>1, <3>3, <3>4
  <2>2. CASE Emitted(t)
    <3>1. e = 0 /\ s2 <= s + 1 /\ u2 + 1 <= u /\ (failures' = 0 /\ n <= 2 => p2 + 1 <= p)
      BY <1>1, <1>3, <1>5, <1>8, <2>2 DEF Emitted
    <3> QED BY <3>1
  <2>3. CASE PaidFor(t)
    <3>1. PICK d \in Nat : e = d + 1
      <4>1. a + q2 + 1 <= a2 + q
        BY <1>3, <1>5, <2>3 DEF PaidFor
      <4>2. e - 1 \in Nat /\ e = (e - 1) + 1
        BY <1>8, <4>1
      <4> QED BY <4>2
    <3>2. s2 <= s
      BY <1>3, <1>5, <2>3 DEF PaidFor
    <3>3. n * e = n * d + n /\ n * d \in Nat
      BY <3>1
    <3> QED BY <3>1, <3>2, <3>3
  <2> QED BY <2>1, <2>2, <2>3
<1>10. a2 + q = a + q2 + e
  BY <1>8
<1>11. s2 + u2 + n * q2 <= n * a2
  BY <1>6, <1>9, <1>10, Balance
<1>12. failures' = 0 /\ n <= 2 => s2 + p2 + 1 * q2 <= 1 * a2
  BY <1>7, <1>9, <1>10
<1> QED BY <1>1, <1>5, <1>11, <1>12 DEF PerTool, Together

-------------------------------------------------------------------------------
(* What each step does to the account of a text.                               *)

\* The parts of the account that a step leaves alone.
LEMMA PartsKept ==
  ASSUME NEW t
  PROVE  /\ UNCHANGED runs => Ran(t)' = Ran(t)
         /\ UNCHANGED ch => Count(ch, t)' = Count(ch, t)
         /\ UNCHANGED content => Held(t)' = Held(t)
         /\ UNCHANGED <<copied, clicks>> => Shown(t)' = Shown(t)
         /\ UNCHANGED <<copied, clicks, restarts>> => Allowed(t)' = Allowed(t)
         /\ UNCHANGED quick => Writes(t)' = Writes(t)
         /\ UNCHANGED <<clipboard, last>> => Unread(t)' = Unread(t)
<1>1. UNCHANGED runs => Ran(t)' = Ran(t)
  BY DEF Ran
<1>2. UNCHANGED ch => Count(ch, t)' = Count(ch, t)
  BY DEF Count
<1>3. UNCHANGED content => Held(t)' = Held(t)
  BY DEF Held
<1>4. UNCHANGED <<copied, clicks>> => Shown(t)' = Shown(t)
  BY DEF Shown
<1>5. UNCHANGED <<copied, clicks, restarts>> => Allowed(t)' = Allowed(t)
  BY <1>4 DEF Allowed
<1>6. UNCHANGED quick => Writes(t)' = Writes(t)
  BY DEF Writes
<1>7. UNCHANGED <<clipboard, last>> => Unread(t)' = Unread(t)
  BY DEF Unread
<1> QED BY <1>1, <1>2, <1>3, <1>4, <1>5, <1>6, <1>7

\* What is in the channel next.
LEMMA CountNext == ASSUME NEW t PROVE Count(ch, t)' = Count(ch', t)
BY DEF Count

\* A text that is shown no less stays shown.
LEMMA ShownFirstNext ==
  ASSUME quick'.target \in DOMAIN Sources,
         \A t \in Texts :
           quick'.text = t \/ (\E s \in Clipboards : clipboard'[s] = t) => Shown(t)' # 0
  PROVE  ShownFirst'
BY DEF ShownFirst, Shown

LEMMA ShownFirstKept ==
  ASSUME ShownFirst, UNCHANGED <<clipboard, quick, copied, clicks>>
  PROVE  ShownFirst'
BY DEF ShownFirst, Shown

\* A clipboard that loses the text can only take tools off the list.
LEMMA UnreadShrinks ==
  ASSUME IInv, ShownFirst, NEW t \in Texts, Unread(t)' \subseteq Unread(t),
         UNCHANGED <<lastSent, turn>>
  PROVE  /\ Cardinality(Unread(t))' <= Cardinality(Unread(t))
         /\ Pending(t)' <= Pending(t)
<1>1. PICK U, V : U = Unread(t) /\ V = Unread(t)'
  OBVIOUS
<1>2. IsFiniteSet(U) /\ V \in SUBSET U
  BY <1>1, Quantities DEF Typed
<1>3. Cardinality(V) <= Cardinality(U)
  BY <1>2, FS_Subset
<1>4. Pending(t)' <= Pending(t)
  <2>1. /\ Pending(t) = IF U = {} \/ (lastSent = t /\ U \subseteq {turn}) THEN 0 ELSE 1
        /\ Pending(t)' = IF V = {} \/ (lastSent = t /\ V \subseteq {turn}) THEN 0 ELSE 1
    BY <1>1 DEF Pending
  <2>2. CASE U = {} \/ (lastSent = t /\ U \subseteq {turn})
    <3>1. V = {} \/ (lastSent = t /\ V \subseteq {turn})
      BY <1>2, <2>2
    <3> QED BY <2>1, <3>1
  <2>3. CASE ~ (U = {} \/ (lastSent = t /\ U \subseteq {turn}))
    BY <2>1, <2>3
  <2> QED BY <2>2, <2>3
<1> QED BY <1>1, <1>3, <1>4

\* A tool that has read the clipboard is off the list of the text it shows.
LEMMA UnreadPolled ==
  ASSUME IInv, NEW t \in Texts, PollNothing \/ PollTwin \/ PollEmit
  PROVE  Unread(t)' = Unread(t) \ {turn}
<1>1. /\ last \in [DOMAIN Sources -> Contents \cup {NoText}] /\ turn \in DOMAIN Sources
      /\ t # NoText /\ UNCHANGED clipboard
  BY DEF IInv, TypeOK, PollNothing, PollTwin, PollEmit
<1>2. CASE PollNothing
  <2>1. UNCHANGED last /\ turn \notin Unread(t)
    BY <1>1, <1>2 DEF PollNothing, Read, Unread
  <2> QED BY <1>1, <2>1 DEF Unread
<1>3. CASE PollTwin \/ PollEmit
  <2>1. last' = [last EXCEPT ![turn] = Read]
    BY <1>3 DEF PollTwin, PollEmit
  <2>2. last'[turn] = clipboard[Sources[turn]] /\ \A i \in DOMAIN Sources : i # turn => last'[i] = last[i]
    BY <1>1, <2>1 DEF Read
  <2>3. \A i \in DOMAIN Sources :
          (clipboard[Sources[i]] = t /\ last'[i] # t)
            <=> (i # turn /\ clipboard[Sources[i]] = t /\ last[i] # t)
    BY <2>2
  <2> QED BY <1>1, <2>3 DEF Unread
<1> QED BY <1>2, <1>3

\* Two tools take turns.
LEMMA OtherTurn ==
  ASSUME turn \in DOMAIN Sources, NextTurn, Len(Sources) <= 2, NEW i \in DOMAIN Sources, i # turn
  PROVE  i = turn'
<1>1. PICK n \in Nat \ {0} : n = Len(Sources) /\ DOMAIN Sources = 1..n
  OBVIOUS
<1>2. n = 2
  BY <1>1
<1>3. turn' = (turn % 2) + 1 /\ turn \in 1..2 /\ i \in 1..2
  BY <1>1, <1>2 DEF NextTurn
<1> QED BY <1>3

\* The poller passes over a text, or emits it and takes the tool off the list; then
\* the other tool, if it shows the text as well, comes next and finds it emitted.
LEMMA PollCounts ==
  ASSUME AccountInv, Poll
  PROVE  ShownFirst' /\ \A t \in Texts : Quiet(t) \/ Emitted(t)
<1>1. /\ IInv /\ ShownFirst /\ failures \in Nat /\ turn \in DOMAIN Sources
      /\ ch \in Seq(Contents)
  BY DEF AccountInv, IInv, TypeOK
<1>2. UNCHANGED <<clipboard, content, runs, copied, quick, clicks, restarts>>
  BY DEF Poll, PollFails, PollNothing, PollTwin, PollEmit, consumerVars, flagVars, history
<1>3. ShownFirst'
  BY <1>1, <1>2, ShownFirstKept
<1>4. ASSUME NEW t \in Texts PROVE Quiet(t) \/ Emitted(t)
  <2>1. /\ Typed(t) /\ Ran(t)' = Ran(t) /\ Held(t)' = Held(t) /\ Held(t) \in Nat
        /\ Allowed(t)' = Allowed(t) /\ Writes(t)' = Writes(t)
    <3>1. Typed(t)
      BY <1>1, Quantities
    <3>2. Held(t) \in Nat
      BY DEF Held
    <3> QED BY <1>2, <3>1, <3>2, PartsKept
  <2>2. UNCHANGED ch => Spent(t)' = Spent(t)
    BY <2>1, PartsKept DEF Spent
  <2>3. PICK U, V : U = Unread(t) /\ V = Unread(t)'
    OBVIOUS
  <2>4. IsFiniteSet(U) /\ Cardinality(U) \in Nat /\ Spent(t) \in Nat
        /\ Allowed(t) \in Nat /\ Writes(t) \in Nat
    BY <2>1, <2>3 DEF Typed
  <2>5. CASE PollFails
    <3>1. UNCHANGED ch /\ failures' # 0 /\ V = U
      BY <1>1, <1>2, <2>3, <2>5, PartsKept DEF PollFails
    <3> QED BY <2>1, <2>2, <2>3, <2>4, <3>1 DEF Quiet
  <2>6. CASE PollNothing \/ PollTwin \/ (PollEmit /\ Read # t)
    <3>1. V = U \ {turn}
      BY <1>1, <2>3, <2>6, UnreadPolled
    <3>2. Cardinality(V) <= Cardinality(U)
      BY <2>4, <3>1, FS_Subset
    <3>3. Pending(t)' <= Pending(t)
      <4>1. CASE U = {} \/ (lastSent = t /\ U \subseteq {turn})
        <5>1. V = {}
          BY <3>1, <4>1
        <5> QED BY <2>3, <4>1, <5>1 DEF Pending
      <4>2. CASE ~ (U = {} \/ (lastSent = t /\ U \subseteq {turn}))
        BY <2>3, <4>2 DEF Pending
      <4> QED BY <4>1, <4>2
    <3>4. Spent(t)' <= Spent(t)
      <4>1. CASE PollEmit /\ Read # t
        <5>1. ch' = ch \/ (ch' = Append(ch, Read) /\ Read \in Contents)
          <6>1. clipboard \in [Clipboards -> Contents \cup {NoText}] /\ Sources[turn] \in Clipboards
            BY <1>1 DEF IInv, TypeOK, Clipboards
          <6> QED BY <4>1, <6>1 DEF PollEmit, Emit, Read
        <5>2. Count(ch, t)' = Count(ch, t)
          <6>1. CASE ch' = ch
            BY <6>1, PartsKept
          <6>2. CASE ch' = Append(ch, Read) /\ Read \in Contents
            <7>1. Count(Append(ch, Read), t) = Count(ch, t)
              BY <1>1, <4>1, <6>2, CountAppend
            <7> QED BY <6>2, <7>1, CountNext
          <6> QED BY <5>1, <6>1, <6>2
        <5> QED BY <2>1, <2>4, <5>2 DEF Spent
      <4>2. CASE PollNothing \/ PollTwin
        BY <2>2, <2>4, <4>2 DEF PollNothing, PollTwin
      <4> QED BY <2>6, <4>1, <4>2
    <3> QED BY <2>1, <2>3, <2>4, <3>2, <3>3, <3>4 DEF Quiet
  <2>7. CASE PollEmit /\ Read = t
    <3>1. V = U \ {turn} /\ turn \in U
      <4>1. V = U \ {turn}
        BY <1>1, <2>3, <2>7, UnreadPolled
      <4> QED BY <1>1, <2>3, <2>7, <4>1 DEF PollEmit, Read, Unread
    <3>2. Cardinality(V) + 1 <= Cardinality(U)
      <4>1. Cardinality(U \ {turn}) = Cardinality(U) - 1
        BY <2>4, <3>1, FS_RemoveElement
      <4> QED BY <2>4, <3>1, <4>1
    <3>3. Len(Sources) <= 2 => Pending(t)' + 1 <= Pending(t)
      <4>1. lastSent # t /\ lastSent' = t /\ NextTurn
        BY <2>7 DEF PollEmit
      <4>2. ASSUME Len(Sources) <= 2 PROVE V \subseteq {turn'}
        <5>1. \A i \in V : i \in DOMAIN Sources /\ i # turn
          BY <2>3, <3>1 DEF Unread
        <5> QED BY <1>1, <4>1, <4>2, <5>1, OtherTurn
      <4>3. Pending(t) = 1
        BY <2>3, <3>1, <4>1 DEF Pending
      <4>4. Len(Sources) <= 2 => Pending(t)' = 0
        BY <2>3, <4>1, <4>2 DEF Pending
      <4> QED BY <4>3, <4>4
    <3>4. Spent(t)' <= Spent(t) + 1
      <4>1. ch' = ch \/ (ch' = Append(ch, t) /\ t \in Contents)
        BY <2>7 DEF PollEmit, Emit, Contents
      <4>2. Count(ch, t)' <= Count(ch, t) + 1 /\ Count(ch, t) \in Nat /\ Count(ch, t)' \in Nat
        <5>1. Count(ch, t) \in Nat
          BY <2>1 DEF Typed
        <5>2. CASE ch' = ch
          BY <5>1, <5>2, PartsKept
        <5>3. CASE ch' = Append(ch, t) /\ t \in Contents
          <6>1. Count(Append(ch, t), t) = Count(ch, t) + 1
            BY <1>1, <5>3, CountAppend
          <6> QED BY <5>1, <5>3, <6>1, CountNext
        <5> QED BY <4>1, <5>2, <5>3
      <4>3. Ran(t) \in Nat
        BY <2>1 DEF Typed
      <4> QED BY <2>1, <4>2, <4>3 DEF Spent
    <3> QED BY <2>1, <2>3, <2>4, <3>2, <3>3, <3>4 DEF Emitted
  <2> QED BY <2>5, <2>6, <2>7 DEF Poll
<1> QED BY <1>3, <1>4

\* A copy pays in for its text, and takes the others from the clipboards it reaches.
LEMMA CopyCounts ==
  ASSUME AccountInv, NEW u \in CopyTexts, NEW set \in CopySets, Copy(u, set)
  PROVE  ShownFirst' /\ \A t \in Texts : Quiet(t) \/ PaidFor(t)
<1>1. /\ IInv /\ ShownFirst /\ copied \in [Texts -> Nat]
      /\ clipboard \in [Clipboards -> Contents \cup {NoText}] /\ u \in Texts
  BY DEF AccountInv, IInv, TypeOK
<1>2. /\ UNCHANGED <<last, lastSent, turn, ch, content, runs, quick, clicks, restarts, failures>>
      /\ copied' = [copied EXCEPT ![u] = copied[u] + 1]
      /\ clipboard' = [s \in Clipboards |-> IF s \in set THEN u ELSE clipboard[s]]
  BY DEF Copy, pollVars, consumerVars, flagVars
<1>3. ASSUME NEW t \in Texts
      PROVE  /\ t = u => Shown(t)' = Shown(t) + 1
             /\ t # u => Shown(t)' = Shown(t)
             /\ Shown(t) \in Nat /\ Typed(t)
  <2>1. copied'[t] = IF t = u THEN copied[t] + 1 ELSE copied[t]
    BY <1>1, <1>2
  <2>2. Typed(t)
    BY <1>1, Quantities
  <2>3. PICK p \in Nat : p = (IF t \in QuickTexts THEN clicks * Len(Sources) ELSE 0)
    <3>1. clicks \in Nat /\ Len(Sources) \in Nat
      BY <1>1 DEF IInv, TypeOK
    <3>2. clicks * Len(Sources) \in Nat
      BY <3>1
    <3> QED BY <3>2
  <2>4. Shown(t) = copied[t] + p /\ Shown(t)' = copied'[t] + p /\ copied[t] \in Nat
    BY <1>1, <1>2, <2>3 DEF Shown
  <2> QED BY <2>1, <2>2, <2>4
<1>4. ShownFirst'
  <2>1. ASSUME NEW t \in Texts,
               quick'.text = t \/ (\E s \in Clipboards : clipboard'[s] = t)
        PROVE  Shown(t)' # 0
    <3>1. t = u \/ Shown(t) # 0
      BY <1>1, <1>2, <2>1 DEF ShownFirst
    <3> QED BY <1>3, <3>1
  <2>2. quick'.target \in DOMAIN Sources
    BY <1>1, <1>2 DEF ShownFirst
  <2> QED BY <2>1, <2>2, ShownFirstNext
<1>5. ASSUME NEW t \in Texts PROVE Quiet(t) \/ PaidFor(t)
  <2>1. /\ Typed(t) /\ Spent(t)' = Spent(t) /\ Writes(t)' = Writes(t)
        /\ Spent(t) \in Nat /\ Writes(t) \in Nat /\ Allowed(t) \in Nat /\ restarts \in Nat
    <3>1. Ran(t)' = Ran(t) /\ Count(ch, t)' = Count(ch, t) /\ Held(t)' = Held(t)
      BY <1>2, PartsKept
    <3>2. Writes(t)' = Writes(t)
      BY <1>2, PartsKept
    <3> QED BY <1>1, <1>3, <3>1, <3>2 DEF Spent, Typed, IInv, TypeOK
  <2>2. CASE t = u
    <3>1. Allowed(t)' = Shown(t)' + restarts /\ Shown(t)' = Shown(t) + 1
      BY <1>2, <1>3, <2>2 DEF Allowed
    <3>2. Allowed(t) + 1 <= Allowed(t)' /\ Allowed(t)' \in Nat
      BY <1>3, <2>1, <3>1 DEF Allowed
    <3> QED BY <2>1, <3>2 DEF PaidFor
  <2>3. CASE t # u
    <3>1. Allowed(t)' = Allowed(t)
      BY <1>2, <1>3, <2>3 DEF Allowed
    <3>2. Unread(t)' \subseteq Unread(t)
      BY <1>2, <2>3 DEF Unread, Clipboards
    <3>3. Cardinality(Unread(t))' <= Cardinality(Unread(t)) /\ Pending(t)' <= Pending(t)
      BY <1>1, <1>2, <3>2, UnreadShrinks
    <3> QED BY <2>1, <3>1, <3>3 DEF Quiet
  <2> QED BY <2>2, <2>3
<1> QED BY <1>4, <1>5

\* A click pays in for the tools that it is going to write.
LEMMA ClickCounts ==
  ASSUME AccountInv, NEW u \in QuickTexts, QuickBegin(u)
  PROVE  ShownFirst' /\ \A t \in Texts : Quiet(t)
<1>1. /\ IInv /\ ShownFirst /\ copied \in [Texts -> Nat] /\ clicks \in Nat /\ restarts \in Nat
      /\ u \in Texts
  BY DEF AccountInv, IInv, TypeOK
<1>2. /\ UNCHANGED <<clipboard, last, lastSent, turn, ch, content, runs, copied, restarts>>
      /\ quick = Idle /\ quick' = [text |-> u, target |-> 1] /\ clicks' = clicks + 1
  BY DEF QuickBegin, pollVars, consumerVars, flagVars, history
<1>3. PICK n \in Nat \ {0} : n = Len(Sources) /\ 1 \in DOMAIN Sources
  OBVIOUS
<1>4. ASSUME NEW t \in Texts
      PROVE  /\ Shown(t) \in Nat /\ Typed(t)
             /\ Shown(t)' = IF t \in QuickTexts THEN Shown(t) + n ELSE Shown(t)
  <2>1. Typed(t) /\ copied[t] \in Nat
    BY <1>1, Quantities
  <2>2. clicks' * n = clicks * n + n /\ clicks * n \in Nat
    BY <1>1, <1>2
  <2>3. /\ t \in QuickTexts => Shown(t) = copied[t] + clicks * n /\ Shown(t)' = copied[t] + clicks' * n
        /\ t \notin QuickTexts => Shown(t) = copied[t] + 0 /\ Shown(t)' = copied[t] + 0
    BY <1>2, <1>3 DEF Shown
  <2> QED BY <2>1, <2>2, <2>3
<1>5. ShownFirst'
  <2>1. ASSUME NEW t \in Texts,
               quick'.text = t \/ (\E s \in Clipboards : clipboard'[s] = t)
        PROVE  Shown(t)' # 0
    <3>1. t = u \/ Shown(t) # 0
      BY <1>2, <2>1 DEF ShownFirst, AccountInv
    <3> QED BY <1>4, <3>1
  <2>2. quick'.target \in DOMAIN Sources
    BY <1>2, <1>3
  <2> QED BY <2>1, <2>2, ShownFirstNext
<1>6. ASSUME NEW t \in Texts PROVE Quiet(t)
  <2>1. /\ Spent(t)' = Spent(t) /\ Spent(t) \in Nat /\ Allowed(t) \in Nat
    <3>1. Ran(t)' = Ran(t) /\ Count(ch, t)' = Count(ch, t) /\ Held(t)' = Held(t)
      BY <1>2, PartsKept
    <3> QED BY <1>4, <3>1 DEF Spent, Typed
  <2>2. Unread(t)' = Unread(t) /\ Pending(t)' = Pending(t) /\ Pending(t) \in 0..1
        /\ Cardinality(Unread(t)) \in Nat
    BY <1>2, <1>4, PartsKept, SMTT(20) DEF Pending, Typed
  <2>3. Writes(t) = 0
    BY <1>1, <1>2 DEF Writes, Idle
  <2>4. Writes(t)' = IF t = u THEN n ELSE 0
    BY <1>2, <1>3 DEF Writes
  <2>5. Allowed(t) + Writes(t)' <= Allowed(t)'
    <3>1. Allowed(t)' = IF Shown(t)' = 0 THEN 0 ELSE Shown(t)' + restarts
      BY <1>2 DEF Allowed
    <3>2. Allowed(t) = IF Shown(t) = 0 THEN 0 ELSE Shown(t) + restarts
      BY DEF Allowed
    <3>3. PICK a \in Nat, b \in Nat : a = Shown(t) /\ b = (IF t \in QuickTexts THEN a + n ELSE a)
      BY <1>4
    <3>4. Shown(t)' = b
      BY <1>4, <3>3
    <3>5. CASE t = u
      BY <1>1, <2>4, <3>1, <3>2, <3>3, <3>4, <3>5
    <3>6. CASE t # u
      BY <1>1, <2>4, <3>1, <3>2, <3>3, <3>4, <3>6
    <3> QED BY <3>5, <3>6
  <2>6. Allowed(t) + Writes(t)' <= Allowed(t)' + Writes(t)
    <3>1. PICK a \in Nat, b \in Nat : b = Shown(t)' /\ a = IF b = 0 THEN 0 ELSE b + restarts
      <4>1. PICK c \in Nat : c = Shown(t)
        BY <1>4
      <4>2. c + n \in Nat /\ Shown(t)' \in {c, c + n}
        BY <1>4, <4>1
      <4>3. PICK b \in Nat : b = Shown(t)'
        BY <4>1, <4>2
      <4>4. b + restarts \in Nat
        BY <1>1
      <4> QED BY <4>3, <4>4
    <3>2. PICK w \in Nat : w = Writes(t)'
      BY <2>4
    <3>3. Allowed(t)' = a
      BY <1>2, <3>1 DEF Allowed
    <3> QED BY <2>3, <2>5, <3>1, <3>2, <3>3
  <2> QED BY <2>1, <2>2, <2>6 DEF Quiet
<1> QED BY <1>5, <1>6

\* Each of its writes has been paid for.
LEMMA QuickCounts ==
  ASSUME AccountInv, QuickWrite
  PROVE  ShownFirst' /\ \A t \in Texts : Quiet(t) \/ PaidFor(t)
<1>1. /\ IInv /\ ShownFirst /\ clipboard \in [Clipboards -> Contents \cup {NoText}]
      /\ quick \in [text : QuickTexts \cup {NoText}, target : Nat]
  BY DEF AccountInv, IInv, TypeOK
<1>2. PICK n \in Nat \ {0} : n = Len(Sources) /\ DOMAIN Sources = 1..n
  OBVIOUS
<1>3. PICK u, k : /\ u = quick.text /\ k = quick.target
                  /\ u \in QuickTexts \cup {NoText} /\ k \in 1..n
  BY <1>1, <1>2 DEF ShownFirst
<1>4. /\ UNCHANGED <<last, lastSent, turn, ch, content, runs, copied, clicks, restarts>>
      /\ UNCHANGED clipboard \/ clipboard' = [clipboard EXCEPT ![Sources[k]] = u]
      /\ quick' = IF k = n THEN Idle ELSE [quick EXCEPT !.target = k + 1]
  BY <1>2, <1>3 DEF QuickWrite, pollVars, consumerVars, flagVars
<1>5. \/ k = n /\ quick'.text = NoText /\ quick'.target = 1
      \/ k # n /\ quick'.text = u /\ quick'.target = k + 1
  BY <1>1, <1>3, <1>4 DEF Idle
<1>6. ASSUME NEW t \in Texts PROVE Shown(t)' = Shown(t) /\ Allowed(t)' = Allowed(t) /\ Typed(t)
  BY <1>1, <1>4, Quantities, PartsKept DEF AllTyped
<1>7. \A s \in Clipboards : clipboard'[s] = u \/ clipboard'[s] = clipboard[s]
  BY <1>1, <1>4
<1>8. ShownFirst'
  <2>1. ASSUME NEW t \in Texts,
               quick'.text = t \/ (\E s \in Clipboards : clipboard'[s] = t)
        PROVE  Shown(t)' # 0
    <3>1. t = u \/ (\E s \in Clipboards : clipboard[s] = t)
      BY <1>5, <1>7, <2>1
    <3>2. Shown(t) # 0
      BY <1>1, <1>3, <3>1 DEF ShownFirst
    <3> QED BY <1>6, <3>2
  <2>2. quick'.target \in DOMAIN Sources
    BY <1>2, <1>3, <1>5
  <2> QED BY <2>1, <2>2, ShownFirstNext
<1>9. ASSUME NEW t \in Texts PROVE Quiet(t) \/ PaidFor(t)
  <2>1. /\ Spent(t)' = Spent(t) /\ Spent(t) \in Nat /\ Allowed(t) \in Nat
    <3>1. Ran(t)' = Ran(t) /\ Count(ch, t)' = Count(ch, t) /\ Held(t)' = Held(t)
      BY <1>4, PartsKept
    <3> QED BY <1>6, <3>1 DEF Spent, Typed
  <2>2. CASE t = u
    <3>1. Writes(t) = (n + 1) - k
      BY <1>2, <1>3, <2>2 DEF Writes
    <3>2. Writes(t)' = n - k
      BY <1>2, <1>3, <1>5, <2>2 DEF Writes
    <3> QED BY <1>3, <1>6, <2>1, <3>1, <3>2 DEF PaidFor
  <2>3. CASE t # u
    <3>1. Writes(t) = 0 /\ Writes(t)' = 0
      BY <1>3, <1>5, <2>3 DEF Writes
    <3>2. Unread(t)' \subseteq Unread(t)
      BY <1>4, <1>7, <2>3 DEF Unread, Clipboards
    <3>3. Cardinality(Unread(t))' <= Cardinality(Unread(t)) /\ Pending(t)' <= Pending(t)
      BY <1>1, <1>4, <3>2, UnreadShrinks
    <3> QED BY <1>6, <2>1, <3>1, <3>3 DEF Quiet
  <2> QED BY <2>2, <2>3
<1> QED BY <1>8, <1>9

\* The consumer takes a text from the channel, drops it or starts a batch with it: the
\* text is held in another place.
LEMMA ConsumeCounts ==
  ASSUME AccountInv, Consume
  PROVE  ShownFirst' /\ \A t \in Texts : Quiet(t)
<1>1. /\ IInv /\ ShownFirst /\ TypeOK /\ runs \in Seq(Batches) /\ ch \in Seq(Contents)
  BY DEF AccountInv, IInv, TypeOK
<1>2. UNCHANGED <<clipboard, last, lastSent, turn, copied, quick, clicks, restarts>>
  BY DEF Consume, Receive, Filter, Skip, Start, pollVars, flagVars, history
<1>3. ShownFirst'
  BY <1>1, <1>2, ShownFirstKept
<1>4. ASSUME NEW t \in Texts PROVE Quiet(t)
  <2>1. PICK k \in Nat, c \in Nat, h \in 0..1 : k = Ran(t) /\ c = Count(ch, t) /\ h = Held(t)
    <3>1. Typed(t)
      BY <1>1, Quantities
    <3> QED BY <3>1 DEF Typed, Held
  <2>2. Spent(t) = k + c + h
    BY <2>1 DEF Spent
  <2>3. Spent(t)' <= Spent(t)
    <3>1. CASE Receive
      <4>1. /\ UNCHANGED runs /\ ch # <<>> /\ ch' = Tail(ch) /\ content' = Head(ch)
        BY <3>1 DEF Receive
      <4>2. PICK c2 \in Nat : c2 = Count(Tail(ch), t) /\ c = c2 + IF Head(ch) = t THEN 1 ELSE 0
        <5>1. /\ Count(Tail(ch), t) \in Nat
              /\ Head(ch) = t => Count(ch, t) = Count(Tail(ch), t) + 1
              /\ Head(ch) # t => Count(ch, t) = Count(Tail(ch), t)
          BY <1>1, <4>1, CountTail
        <5> QED BY <2>1, <5>1
      <4>3. PICK d \in 0..1 : d = IF Head(ch) = t THEN 1 ELSE 0
        OBVIOUS
      <4>4. Ran(t)' = k /\ Count(ch, t)' = c2 /\ Held(t)' = d
        BY <2>1, <4>1, <4>2, <4>3, PartsKept, CountNext DEF Held
      <4>5. Spent(t)' = k + c2 + d
        BY <4>4 DEF Spent
      <4>6. c = c2 + d
        BY <4>2, <4>3
      <4>7. k + c2 + d <= k + c + h
        BY <4>6
      <4> QED BY <2>2, <4>5, <4>7
    <3>2. CASE Filter \/ Skip
      <4>1. UNCHANGED <<runs, ch>> /\ content' \in {content, NoText}
        BY <3>2 DEF Filter, Skip
      <4>2. Ran(t)' = k /\ Count(ch, t)' = c /\ Held(t)' \in {h, 0}
        <5>1. Held(t)' \in {h, 0}
          BY <2>1, <4>1 DEF Held
        <5> QED BY <2>1, <4>1, <5>1, PartsKept
      <4> QED BY <2>1, <2>2, <4>2 DEF Spent
    <3>3. CASE Start
      <4>1. UNCHANGED ch /\ content' = NoText
        BY <3>3 DEF Start
      <4>2. PICK b \in Batches : b.text = content /\ runs' = Append(runs, b)
        BY <1>1, <3>3, StartedBatch
      <4>3. Ran(t)' = k + h
        BY <1>1, <2>1, <4>2, RanStarted DEF Held
      <4>4. Count(ch, t)' = c /\ Held(t)' = 0
        BY <2>1, <4>1, PartsKept DEF Held
      <4> QED BY <2>1, <2>2, <4>3, <4>4 DEF Spent
    <3> QED BY <3>1, <3>2, <3>3 DEF Consume
  <2>4. Allowed(t)' = Allowed(t) /\ Writes(t)' = Writes(t) /\ Allowed(t) \in Nat /\ Writes(t) \in Nat
    BY <1>1, <1>2, PartsKept, Quantities DEF Typed
  <2>5. Unread(t)' \subseteq Unread(t)
    BY <1>2, PartsKept
  <2>6. Cardinality(Unread(t))' <= Cardinality(Unread(t)) /\ Pending(t)' <= Pending(t)
    BY <1>1, <1>2, <2>5, UnreadShrinks
  <2> QED BY <2>3, <2>4, <2>6 DEF Quiet
<1> QED BY <1>3, <1>4

\* A batch keeps its text, and what it writes is no text with commands.
LEMMA WorkCounts ==
  ASSUME AccountInv, NEW r \in DOMAIN runs, Process(r)
  PROVE  ShownFirst' /\ \A t \in Texts : Quiet(t)
<1>1. /\ IInv /\ ShownFirst /\ runs \in Seq(Batches)
      /\ clipboard \in [Clipboards -> Contents \cup {NoText}]
  BY DEF AccountInv, IInv, TypeOK
<1>2. UNCHANGED <<last, lastSent, turn, ch, content, copied, quick, clicks, restarts>>
  BY DEF Process, StepBegins, StepEnds, StoreWritten, WriteOne, Finish, pollVars,
         consumerVars, history
<1>3. DOMAIN runs' = DOMAIN runs /\ \A q \in DOMAIN runs : runs'[q].text = runs[q].text
  <2>1. PICK b \in Batches : Set(r, b) /\ Follows(runs[r], b)
    BY <1>1, ProcessFollows
  <2>2. DOMAIN runs' = DOMAIN runs /\ runs'[r] = b
        /\ \A q \in DOMAIN runs : q # r => runs'[q] = runs[q]
    BY <1>1, <2>1, SetBatch
  <2> QED BY <2>1, <2>2 DEF Follows
<1>4. \A s \in Clipboards : clipboard'[s] = clipboard[s] \/ clipboard'[s] \notin Texts
  <2>1. CASE WriteOne(r)
    <3>1. PICK p, k : /\ p = Payload(runs[r])
                      /\ UNCHANGED clipboard \/ clipboard' = [clipboard EXCEPT ![k] = p]
      BY <2>1 DEF WriteOne
    <3>2. p \in Responses
      BY <1>1, <3>1, BatchFields DEF Payload, Response, Responses
    <3>3. p \notin Texts
      BY <3>2, ResponseAssumption
    <3> QED BY <1>1, <3>1, <3>3
  <2>2. CASE ~ WriteOne(r)
    <3>1. UNCHANGED clipboard
      BY <2>2 DEF Process, StepBegins, StepEnds, StoreWritten, Finish
    <3> QED BY <3>1
  <2> QED BY <2>1, <2>2
<1>5. ASSUME NEW t \in Texts
      PROVE  Typed(t) /\ Shown(t)' = Shown(t) /\ Allowed(t)' = Allowed(t) /\ Writes(t)' = Writes(t)
  BY <1>1, <1>2, PartsKept, Quantities
<1>6. ShownFirst'
  <2>1. ASSUME NEW t \in Texts,
               quick'.text = t \/ (\E s \in Clipboards : clipboard'[s] = t)
        PROVE  Shown(t)' # 0
    <3>1. Shown(t) # 0
      BY <1>1, <1>2, <1>4, <2>1 DEF ShownFirst
    <3> QED BY <1>5, <3>1
  <2>2. quick'.target \in DOMAIN Sources
    BY <1>1, <1>2 DEF ShownFirst
  <2> QED BY <2>1, <2>2, ShownFirstNext
<1>7. ASSUME NEW t \in Texts PROVE Quiet(t)
  <2>1. Spent(t)' = Spent(t)
    <3>1. Ran(t)' = Ran(t)
      BY <1>1, <1>3, RanKept
    <3>2. Count(ch, t)' = Count(ch, t) /\ Held(t)' = Held(t)
      BY <1>2, PartsKept
    <3> QED BY <3>1, <3>2 DEF Spent
  <2>2. Unread(t)' \subseteq Unread(t)
    BY <1>2, <1>4 DEF Unread, Clipboards
  <2>3. Cardinality(Unread(t))' <= Cardinality(Unread(t)) /\ Pending(t)' <= Pending(t)
    BY <1>1, <1>2, <2>2, UnreadShrinks
  <2> QED BY <1>5, <2>1, <2>3 DEF Quiet, Typed
<1> QED BY <1>6, <1>7

\* A new daemon has read nothing: it may run once more what is shown, and a text that
\* was never shown is nowhere.
LEMMA RestartCounts ==
  ASSUME AccountInv, Restart
  PROVE  ShownFirst' /\ \A t \in Texts : Quiet(t) \/ PaidFor(t)
<1>1. /\ IInv /\ ShownFirst /\ runs \in Seq(Batches) /\ restarts \in Nat
  BY DEF AccountInv, IInv, TypeOK
<1>2. /\ UNCHANGED <<clipboard, copied, clicks>>
      /\ ch' = <<>> /\ content' = NoText /\ quick' = Idle /\ restarts' = restarts + 1
  BY DEF Restart, history
<1>3. ASSUME NEW t \in Texts PROVE Typed(t) /\ Shown(t)' = Shown(t)
  BY <1>1, <1>2, PartsKept, Quantities
<1>4. ShownFirst'
  <2>1. ASSUME NEW t \in Texts,
               quick'.text = t \/ (\E s \in Clipboards : clipboard'[s] = t)
        PROVE  Shown(t)' # 0
    <3>1. Shown(t) # 0
      BY <1>1, <1>2, <2>1 DEF ShownFirst, Idle
    <3> QED BY <1>3, <3>1
  <2>2. quick'.target \in DOMAIN Sources
    BY <1>2 DEF Idle
  <2> QED BY <2>1, <2>2, ShownFirstNext
<1>5. ASSUME NEW t \in Texts PROVE Quiet(t) \/ PaidFor(t)
  <2>1. PICK s \in Nat, w \in Nat, k \in Nat, a \in Nat :
          s = Spent(t) /\ w = Writes(t) /\ k = Ran(t) /\ a = Allowed(t)
    BY <1>3 DEF Typed
  <2>2. Spent(t)' = k /\ k <= s
    <3>1. PICK c \in Nat, h \in 0..1 : c = Count(ch, t) /\ h = Held(t)
      BY <1>3 DEF Typed, Held
    <3>2. Ran(t)' = k
      <4>1. DOMAIN runs' = DOMAIN runs /\ \A r \in DOMAIN runs : runs'[r] = Killed(runs[r])
        BY DEF Restart
      <4>2. \A b \in Batches : Killed(b).text = b.text
        BY DEF Killed, Batches
      <4>3. \A r \in DOMAIN runs : runs[r] \in Batches
        BY <1>1
      <4> QED BY <1>1, <2>1, <4>1, <4>2, <4>3, RanKept
    <3>3. Count(ch, t)' = 0
      <4>1. {i \in DOMAIN <<>> : <<>>[i] = t} = {}
        OBVIOUS
      <4>2. Count(<<>>, t) = 0
        BY <4>1, FS_EmptySet DEF Count
      <4> QED BY <1>2, <4>2, CountNext
    <3>4. Held(t)' = 0
      BY <1>2 DEF Held
    <3>5. s = k + c + h
      BY <2>1, <3>1 DEF Spent
    <3> QED BY <2>1, <3>1, <3>2, <3>3, <3>4, <3>5, SMTT(20) DEF Spent
  <2>3. Writes(t)' = 0
    BY <1>2 DEF Writes, Idle
  <2>4. CASE Shown(t) = 0
    <3>1. Allowed(t)' = 0 /\ a = 0
      BY <1>3, <2>1, <2>4 DEF Allowed
    <3>2. Unread(t)' = {} /\ Unread(t) = {}
      BY <1>1, <1>2, <2>4 DEF Unread, ShownFirst, Clipboards
    <3>3. Cardinality(Unread(t))' = Cardinality(Unread(t)) /\ Cardinality(Unread(t)) \in Nat
      <4>1. PICK U, V : U = Unread(t) /\ V = Unread(t)'
        OBVIOUS
      <4>2. V = U
        BY <3>2, <4>1
      <4>3. Cardinality(U) \in Nat
        BY <1>3, <4>1 DEF Typed
      <4> QED BY <4>1, <4>2, <4>3
    <3>4. Pending(t)' = 0 /\ Pending(t) = 0
      BY <3>2 DEF Pending
    <3> QED BY <2>1, <2>2, <2>3, <3>1, <3>3, <3>4 DEF Quiet
  <2>5. CASE Shown(t) # 0
    <3>1. PICK n \in Nat : n = Shown(t)
      BY <1>3 DEF Typed
    <3>2. a = n + restarts /\ Allowed(t)' = n + (restarts + 1)
      BY <1>2, <1>3, <2>1, <2>5, <3>1 DEF Allowed
    <3> QED BY <1>1, <2>1, <2>2, <2>3, <3>2 DEF PaidFor
  <2> QED BY <2>4, <2>5
<1> QED BY <1>4, <1>5

-------------------------------------------------------------------------------
(* The account balances for ever.                                             *)

\* At the start nothing is shown and nothing was run.
LEMMA InitAccount == Init => AccountInv
<1> SUFFICES ASSUME Init PROVE AccountInv
  OBVIOUS
<1>1. IInv
  BY InitInv
<1>2. ShownFirst
  BY DEF Init, ShownFirst, Idle
<1>3. ASSUME NEW t \in Texts PROVE PerTool(t) /\ Together(t)
  <2>1. PICK n \in Nat : n = Len(Sources)
    OBVIOUS
  <2>2. Ran(t) = 0 /\ Count(ch, t) = 0 /\ Held(t) = 0 /\ Writes(t) = 0 /\ Unread(t) = {}
    <3>1. {r \in DOMAIN runs : runs[r].text = t} = {} /\ {i \in DOMAIN ch : ch[i] = t} = {}
      BY DEF Init
    <3>2. Ran(t) = 0 /\ Count(ch, t) = 0
      BY <3>1, FS_EmptySet DEF Ran, Count
    <3> QED BY <3>2 DEF Init, Held, Writes, Idle, Unread, Clipboards
  <2>3. Spent(t) = 0 /\ Pending(t) = 0 /\ Cardinality(Unread(t)) = 0
    BY <2>2, FS_EmptySet DEF Spent, Pending
  <2>4. Allowed(t) \in Nat
    BY <1>1, <1>2, Quantities DEF Typed
  <2>5. n * Allowed(t) \in Nat /\ n * 0 = 0
    BY <2>4
  <2> QED BY <2>1, <2>2, <2>3, <2>4, <2>5 DEF PerTool, Together
<1> QED BY <1>1, <1>2, <1>3 DEF AccountInv

\* Nothing happens.
LEMMA StutterCounts ==
  ASSUME AccountInv, UNCHANGED vars
  PROVE  ShownFirst' /\ \A t \in Texts : Quiet(t)
<1>1. /\ UNCHANGED <<clipboard, last, lastSent, turn, ch, content, runs>>
      /\ UNCHANGED <<copied, quick, clicks, restarts>>
  BY DEF vars, pollVars, consumerVars, history
<1>2. IInv /\ ShownFirst
  BY DEF AccountInv
<1>3. ShownFirst'
  BY <1>1, <1>2, ShownFirstKept
<1>4. ASSUME NEW t \in Texts PROVE Quiet(t)
  <2>1. Spent(t)' = Spent(t) /\ Allowed(t)' = Allowed(t) /\ Writes(t)' = Writes(t)
        /\ Unread(t)' = Unread(t)
    BY <1>1, PartsKept DEF Spent
  <2>2. Cardinality(Unread(t))' <= Cardinality(Unread(t)) /\ Pending(t)' <= Pending(t)
    BY <1>1, <1>2, <2>1, UnreadShrinks
  <2> QED BY <1>2, <2>1, <2>2, Quantities DEF Quiet, Typed
<1> QED BY <1>3, <1>4

\* A failure is not forgotten.
LEMMA FailuresStay == TypeOK /\ [Next]_vars => (failures' = 0 => failures = 0)
<1> SUFFICES ASSUME TypeOK, [Next]_vars PROVE failures' = 0 => failures = 0
  OBVIOUS
<1>1. failures' \in {failures, failures + 1}
  <2>1. CASE Poll \/ QuickWrite
    BY <2>1 DEF Poll, PollFails, PollNothing, PollTwin, PollEmit, QuickWrite, history
  <2>2. CASE Consume \/ Restart \/ UNCHANGED vars
    BY <2>2 DEF Consume, Receive, Filter, Skip, Start, Restart, history, vars
  <2>3. CASE (\E t \in CopyTexts, set \in CopySets : Copy(t, set)) \/ \E t \in QuickTexts : QuickBegin(t)
    BY <2>3 DEF Copy, QuickBegin, history
  <2>4. CASE Work
    <3>1. PICK r \in DOMAIN runs : Process(r)
      BY <2>4 DEF Work
    <3>2. CASE WriteOne(r)
      BY <3>2 DEF WriteOne
    <3>3. CASE ~ WriteOne(r)
      BY <3>1, <3>3 DEF Process, StepBegins, StepEnds, StoreWritten, Finish, history
    <3> QED BY <3>2, <3>3
  <2> QED BY <2>1, <2>2, <2>3, <2>4 DEF Next
<1>2. failures \in Nat
  BY DEF TypeOK
<1> QED BY <1>1, <1>2

\* Every step leaves the account of every text in balance.
LEMMA NextAccount == AccountInv /\ [Next]_vars => AccountInv'
<1> SUFFICES ASSUME AccountInv, [Next]_vars PROVE AccountInv'
  OBVIOUS
<1>1. IInv /\ TypeOK
  BY DEF AccountInv, IInv
<1>2. IInv' /\ (failures' = 0 => failures = 0)
  BY <1>1, NextInv, FailuresStay
<1>3. ShownFirst' /\ \A t \in Texts : Quiet(t) \/ Emitted(t) \/ PaidFor(t)
  <2>1. CASE \E u \in CopyTexts, set \in CopySets : Copy(u, set)
    BY <2>1, CopyCounts
  <2>2. CASE \E u \in QuickTexts : QuickBegin(u)
    BY <2>2, ClickCounts
  <2>3. CASE Poll
    BY <2>3, PollCounts
  <2>4. CASE Consume
    BY <2>4, ConsumeCounts
  <2>5. CASE Work
    BY <2>5, WorkCounts DEF Work
  <2>6. CASE QuickWrite
    BY <2>6, QuickCounts
  <2>7. CASE Restart
    BY <2>7, RestartCounts
  <2>8. CASE UNCHANGED vars
    BY <2>8, StutterCounts
  <2> QED BY <2>1, <2>2, <2>3, <2>4, <2>5, <2>6, <2>7, <2>8 DEF Next
<1> QED BY <1>2, <1>3, AccountBalances

LEMMA AccountInvariance == SafeSpec => []AccountInv
BY InitAccount, NextAccount, PTL DEF SafeSpec

\* A balanced account bounds what was run.
LEMMA AccountBounds == AccountInv => AtMostOncePerCopy
<1> SUFFICES ASSUME AccountInv, NEW t \in Texts
             PROVE  Ran(t) <= (IF Shown(t) = 0 THEN 0 ELSE Shown(t) + restarts)
                              * (IF failures = 0 /\ Len(Sources) <= 2 THEN 1 ELSE Len(Sources))
  BY DEF AtMostOncePerCopy
<1>1. PICK n \in Nat : n = Len(Sources)
  OBVIOUS
<1>2. Typed(t) /\ PerTool(t) /\ (failures = 0 /\ Len(Sources) <= 2 => Together(t))
  BY Quantities DEF AccountInv
<1>3. PICK k \in Nat, c \in Nat, s \in Nat, a \in Nat, w \in Nat, u \in 0..n, p \in 0..1 :
        /\ k = Ran(t) /\ c = Count(ch, t) /\ s = Spent(t) /\ a = Allowed(t) /\ w = Writes(t)
        /\ u = Cardinality(Unread(t)) /\ p = Pending(t)
  BY <1>1, <1>2 DEF Typed
<1>4. k <= s
  <2>1. PICK h \in 0..1 : h = Held(t)
    BY DEF Held
  <2> QED BY <1>3, <2>1, SMTT(20) DEF Spent
<1>5. a = IF Shown(t) = 0 THEN 0 ELSE Shown(t) + restarts
  BY <1>3 DEF Allowed
<1>6. CASE failures = 0 /\ n <= 2
  <2>1. s + p + 1 * w <= 1 * a
    BY <1>1, <1>2, <1>3, <1>6 DEF Together
  <2>2. k <= a * 1
    BY <1>4, <2>1
  <2> QED BY <1>1, <1>3, <1>5, <1>6, <2>2
<1>7. CASE ~ (failures = 0 /\ n <= 2)
  <2>1. s + u + n * w <= n * a
    BY <1>1, <1>2, <1>3 DEF PerTool
  <2>2. n * w \in Nat /\ n * a = a * n
    OBVIOUS
  <2>3. k <= a * n
    BY <1>4, <2>1, <2>2
  <2> QED BY <1>1, <1>3, <1>5, <1>7, <2>3
<1> QED BY <1>6, <1>7

-------------------------------------------------------------------------------
\* Between clip.Watch, the filter of watcher.go and the page, a text is run no more
\* often than it was shown: once for each time while no clipboard tool fails and there
\* are no more than two, otherwise at most once for each tool; a restart may add one.
THEOREM AtMostOnce == SafeSpec => []AtMostOncePerCopy
<1>1. AccountInv => AtMostOncePerCopy
  BY AccountBounds
<1> QED BY <1>1, AccountInvariance, PTL

================================================================================
