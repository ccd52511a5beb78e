------------------------------- MODULE ClipLoop -------------------------------
(***************************************************************************)
(* The loop through the clipboard: clip.Watch polls every clipboard tool and  *)
(* emits what changed, Watcher.Start filters it and starts a goroutine per    *)
(* batch, Watcher.process runs the commands one after another, and the        *)
(* response goes back into every clipboard, where the poller sees it.  The     *)
(* quick commands of the page write there too, and the daemon can be stopped   *)
(* (handleStop, a signal) and started again at any moment.                    *)
(*                                                                           *)
(* The poller, the consumer, the batch, the page and the user run concurrently. *)
(* What Dispatch does with one command is here only its outcome, ok or not,    *)
(* after any delay (HitlGate has the rest).                                   *)
(***************************************************************************)
EXTENDS Naturals, Sequences, FiniteSets, Functions

CONSTANTS Texts,      \* texts with commands, in the clipboards
          Steps,      \* the commands Extract finds in such a text
          Sources,    \* the clipboard of each tool, in the order the tools are polled and written
          CopySets,   \* the sets of clipboards a copy of the user reaches
          CopyTexts,  \* those users copy
          QuickTexts, \* those the quick commands write, the templates
          MaxCopies,  \* bound: how often users copy something
          MaxEvents,  \* bound: failures of clipboard tools, clicks and restarts together
          Cap,        \* the capacity of the channel of Watch (16 in the code)
          NoText      \* the empty string

Clipboards == {Sources[i] : i \in DOMAIN Sources}

ASSUME TextAssumption == NoText \notin Texts /\ Steps \in [Texts -> Nat]
ASSUME SourceAssumption ==
  Sources \in Seq(Clipboards) /\ Sources # <<>> /\ CopySets \subseteq SUBSET Clipboards
ASSUME OriginAssumption == CopyTexts \subseteq Texts /\ QuickTexts \subseteq Texts
ASSUME BoundAssumption ==
  MaxCopies \in Nat /\ MaxEvents \in Nat /\ Cap \in Nat \ {0}

VARIABLES clipboard,   \* the content of each clipboard
          last,        \* source.last: what each tool last read
          lastSent,    \* what watchAll last emitted
          turn,        \* the source watchAll reads next
          ch,          \* the channel of Watch
          at, content, \* the consumer: its place in Start and the text it received
          processing,  \* Watcher.processing
          lastWritten, \* Watcher.lastWritten
          runs,        \* the batches started so far, one goroutine each
          quick,       \* the handler of a quick command: its text, the tool it writes next
          copied,      \* history: how often users copied each text
          failures,    \* history: how often a clipboard tool has failed
          clicks,      \* history: how often a quick command was clicked
          restarts,    \* how often the daemon has been started again
          before       \* history: the batches of the daemons before this one

pollVars == <<last, lastSent, turn>>
consumerVars == <<at, content>>
flagVars == <<processing, lastWritten>>
history == <<copied, failures>>
restartVars == <<restarts, before>>
pageVars == <<quick, clicks>>
outsideVars == <<pageVars, restartVars>>
vars == <<clipboard, pollVars, ch, consumerVars, flagVars, runs, history, outsideVars>>

\* The JSON text of the responses to n commands of t, of which the last is ok or not.
Response(t, n, good) == [to |-> t, n |-> n, ok |-> good]
Responses == [to : Texts, n : Nat \ {0}, ok : BOOLEAN]
Contents == Texts \cup Responses

\* A response is JSON with "ok":, neither a text with commands nor empty.
ASSUME ResponseAssumption == \A t \in Texts \cup {NoText} : t \notin Responses

\* Slip: the channel is written whatever it holds.
EmitUnbounded(s) == ch' = Append(ch, s)

\* The number of commands in a content; objects that contain "ok": are skipped.
Extract(s) == IF s \in Texts THEN Steps[s] ELSE 0

Batches == [text : Texts, pc : {"next", "dispatch", "store", "write", "finish", "done", "killed"},
            step : Nat \ {0}, good : BOOLEAN, target : Nat,
            statuses : Seq({"waiting", "running", "done", "error"})]

TypeOK ==
  /\ clipboard \in [Clipboards -> Contents \cup {NoText}]
  /\ last \in [DOMAIN Sources -> Contents \cup {NoText}]
  /\ lastSent \in Contents \cup {NoText}
  /\ turn \in DOMAIN Sources
  /\ ch \in Seq(Contents) /\ Len(ch) <= Cap
  /\ at \in {"select", "filter", "start"}
  /\ content \in Contents \cup {NoText}
  /\ processing \in BOOLEAN
  /\ lastWritten \in Contents \cup {NoText}
  /\ runs \in Seq(Batches)
  /\ quick \in [text : QuickTexts \cup {NoText}, target : Nat]
  /\ copied \in [Texts -> Nat]
  /\ failures \in Nat /\ clicks \in Nat /\ restarts \in Nat /\ before \in Nat

Idle == [text |-> NoText, target |-> 1]

Init ==
  /\ clipboard = [s \in Clipboards |-> NoText]
  /\ last = [i \in DOMAIN Sources |-> NoText]
  /\ lastSent = NoText
  /\ turn = 1
  /\ ch = <<>>
  /\ at = "select" /\ content = NoText
  /\ processing = FALSE
  /\ lastWritten = NoText
  /\ runs = <<>>
  /\ quick = Idle
  /\ copied = [t \in Texts |-> 0]
  /\ failures = 0 /\ clicks = 0 /\ restarts = 0 /\ before = 0

\* The bound on what may come from outside, besides the copies.
MayHappen == failures + clicks + restarts < MaxEvents

\* The text read at this turn, the turn after it, and the batch r in a new state.
Read == clipboard[Sources[turn]]
NextTurn == turn' = (turn % Len(Sources)) + 1
Set(r, batch) == runs' = [runs EXCEPT ![r] = batch]
Emit(s) == ch' = IF Len(ch) < Cap THEN Append(ch, s) ELSE ch

-------------------------------------------------------------------------------
(* More slips a maintainer could make; no specification uses them.             *)

\* The text is emitted again when another clipboard has it too.
PollTwice ==
  /\ Read = lastSent /\ Read \notin {NoText, last[turn]}
  /\ last' = [last EXCEPT ![turn] = Read]
  /\ Emit(Read)
  /\ NextTurn
  /\ UNCHANGED <<lastSent, clipboard, consumerVars, flagVars, runs, history, outsideVars>>

\* The flag is left to the goroutine.
StartUnmarked ==
  /\ at = "start" /\ at' = "select" /\ content' = NoText
  /\ ~ processing /\ Extract(content) > 0
  /\ runs' = Append(runs, [text |-> content, pc |-> "next", step |-> 1, good |-> TRUE,
                           target |-> 1, statuses |-> <<>>])
  /\ UNCHANGED <<clipboard, pollVars, ch, flagVars, history, outsideVars>>

\* The pipeline goes on after an error.
StepEndsAnyway(r) ==
  LET b == runs[r] IN
  /\ b.pc = "dispatch"
  /\ \E good \in BOOLEAN :
       Set(r, [b EXCEPT !.statuses = IF Steps[b.text] = 1 THEN b.statuses ELSE
                                     [b.statuses EXCEPT ![b.step] = IF good THEN "done" ELSE "error"],
                        !.good = good,
                        !.pc = IF b.step < Steps[b.text] THEN "next" ELSE "store",
                        !.step = IF b.step < Steps[b.text] THEN b.step + 1 ELSE b.step])
  /\ UNCHANGED <<clipboard, pollVars, ch, consumerVars, flagVars, history, outsideVars>>

\* The response is recorded when the batch ends.
StoreNothing(r) ==
  /\ runs[r].pc = "store"
  /\ Set(r, [runs[r] EXCEPT !.pc = "write"])
  /\ UNCHANGED <<clipboard, pollVars, ch, consumerVars, flagVars, history, outsideVars>>

\* Whatever is received first after a write is taken for the response.
FilterNext ==
  /\ at = "filter"
  /\ IF lastWritten # NoText THEN at' = "select" /\ content' = NoText
                             ELSE at' = "start" /\ UNCHANGED content
  /\ lastWritten' = NoText
  /\ UNCHANGED <<clipboard, pollVars, ch, processing, runs, history, outsideVars>>

\* The flag is reset only after a batch without errors.
FinishGood(r) ==
  /\ runs[r].pc = "finish" /\ runs[r].good
  /\ processing' = FALSE
  /\ Set(r, [runs[r] EXCEPT !.pc = "done"])
  /\ UNCHANGED <<clipboard, pollVars, ch, consumerVars, lastWritten, history, outsideVars>>

-------------------------------------------------------------------------------
(* The user, and watchAll: one source per step, in order, for ever.            *)

Copy(t, set) ==
  /\ FoldFunction(+, 0, copied) < MaxCopies
  /\ clipboard' = [s \in Clipboards |-> IF s \in set THEN t ELSE clipboard[s]]
  /\ copied' = [copied EXCEPT ![t] = @ + 1]
  /\ UNCHANGED <<pollVars, ch, consumerVars, flagVars, runs, failures, outsideVars>>

\* The tool exits with an error.
PollFails ==
  /\ MayHappen /\ failures' = failures + 1
  /\ NextTurn
  /\ UNCHANGED <<last, lastSent, clipboard, ch, consumerVars, flagVars, runs, copied, outsideVars>>

\* The text is empty or the one read last.
PollNothing ==
  /\ Read \in {NoText, last[turn]}
  /\ NextTurn
  /\ UNCHANGED <<last, lastSent, clipboard, ch, consumerVars, flagVars, runs, history, outsideVars>>

\* Another source has already brought this text.
PollTwin ==
  /\ Read = lastSent /\ Read \notin {NoText, last[turn]}
  /\ last' = [last EXCEPT ![turn] = Read]
  /\ NextTurn
  /\ UNCHANGED <<lastSent, clipboard, ch, consumerVars, flagVars, runs, history, outsideVars>>

PollEmit ==
  /\ Read \notin {NoText, lastSent, last[turn]}
  /\ last' = [last EXCEPT ![turn] = Read]
  /\ lastSent' = Read
  /\ Emit(Read)
  /\ NextTurn
  /\ UNCHANGED <<clipboard, consumerVars, flagVars, runs, history, outsideVars>>

Poll == PollFails \/ PollNothing \/ PollTwin \/ PollEmit

-------------------------------------------------------------------------------
(* Watcher.Start.                                                             *)

Receive ==
  /\ at = "select" /\ ch # <<>>
  /\ at' = "filter" /\ content' = Head(ch) /\ ch' = Tail(ch)
  /\ UNCHANGED <<clipboard, pollVars, flagVars, runs, history, outsideVars>>

Filter ==
  /\ at = "filter"
  /\ IF content = lastWritten THEN at' = "select" /\ content' = NoText
                              ELSE at' = "start" /\ UNCHANGED content
  /\ UNCHANGED <<clipboard, pollVars, ch, flagVars, runs, history, outsideVars>>

Skip ==
  /\ at = "start" /\ at' = "select" /\ content' = NoText
  /\ processing \/ Extract(content) = 0
  /\ UNCHANGED <<clipboard, pollVars, ch, flagVars, runs, history, outsideVars>>

\* A pipeline has a status per command; a single command has none.
Start ==
  /\ at = "start" /\ at' = "select" /\ content' = NoText
  /\ ~ processing /\ Extract(content) > 0
  /\ processing' = TRUE
  /\ runs' = Append(runs,
       [text |-> content, pc |-> "next", step |-> 1, good |-> TRUE, target |-> 1,
        statuses |-> IF Extract(content) = 1 THEN <<>>
                     ELSE [i \in 1..Extract(content) |-> "waiting"]])
  /\ UNCHANGED <<clipboard, pollVars, ch, lastWritten, history, outsideVars>>

Consume == Receive \/ Filter \/ Skip \/ Start

-------------------------------------------------------------------------------
(* The goroutine of batch r: process and writeResponse.                       *)

Marked(b, status) ==
  IF b.statuses = <<>> THEN b.statuses ELSE [b.statuses EXCEPT ![b.step] = status]

StepBegins(r) ==
  LET b == runs[r] IN
  /\ b.pc = "next"
  /\ Set(r, [b EXCEPT !.pc = "dispatch", !.statuses = Marked(b, "running")])
  /\ UNCHANGED <<clipboard, pollVars, ch, consumerVars, flagVars, history, outsideVars>>

\* Dispatch returns; an error stops the pipeline.
StepEnds(r) ==
  LET b == runs[r] IN
  /\ b.pc = "dispatch"
  /\ \E good \in BOOLEAN :
       LET more == good /\ b.step < Extract(b.text) IN
       Set(r, [b EXCEPT !.statuses = Marked(b, IF good THEN "done" ELSE "error"),
                        !.good = good,
                        !.pc = IF more THEN "next" ELSE "store",
                        !.step = IF more THEN b.step + 1 ELSE b.step])
  /\ UNCHANGED <<clipboard, pollVars, ch, consumerVars, flagVars, history, outsideVars>>

Payload(b) == Response(b.text, b.step, b.good)

StoreWritten(r) ==
  /\ runs[r].pc = "store"
  /\ lastWritten' = Payload(runs[r])
  /\ Set(r, [runs[r] EXCEPT !.pc = "write"])
  /\ UNCHANGED <<clipboard, pollVars, ch, consumerVars, processing, history, outsideVars>>

\* clip.Write goes through all the tools; one that fails is passed over.
WriteOne(r) ==
  LET b == runs[r] IN
  /\ b.pc = "write"
  /\ \/ clipboard' = [clipboard EXCEPT ![Sources[b.target]] = Payload(b)] /\ UNCHANGED failures
     \/ MayHappen /\ failures' = failures + 1 /\ UNCHANGED clipboard
  /\ Set(r, [b EXCEPT !.target = @ + 1,
                      !.pc = IF b.target = Len(Sources) THEN "finish" ELSE "write"])
  /\ UNCHANGED <<pollVars, ch, consumerVars, flagVars, copied, outsideVars>>

Finish(r) ==
  /\ runs[r].pc = "finish"
  /\ processing' = FALSE
  /\ Set(r, [runs[r] EXCEPT !.pc = "done"])
  /\ UNCHANGED <<clipboard, pollVars, ch, consumerVars, lastWritten, history, outsideVars>>

Process(r) == StepBegins(r) \/ StepEnds(r) \/ StoreWritten(r) \/ WriteOne(r) \/ Finish(r)
Work == \E r \in DOMAIN runs : Process(r)

-------------------------------------------------------------------------------
(* The page: a quick command writes its template into one clipboard after the  *)
(* other, while the watcher and its batch go on.                              *)

QuickBegin(t) ==
  /\ quick = Idle /\ MayHappen /\ clicks' = clicks + 1
  /\ quick' = [text |-> t, target |-> 1]
  /\ UNCHANGED <<clipboard, pollVars, ch, consumerVars, flagVars, runs, history, restartVars>>

QuickWrite ==
  /\ quick # Idle
  /\ \/ /\ clipboard' = [clipboard EXCEPT ![Sources[quick.target]] = quick.text]
        /\ UNCHANGED failures
     \/ MayHappen /\ failures' = failures + 1 /\ UNCHANGED clipboard
  /\ quick' = IF quick.target = Len(Sources) THEN Idle ELSE [quick EXCEPT !.target = @ + 1]
  /\ UNCHANGED <<pollVars, ch, consumerVars, flagVars, runs, copied, clicks, restartVars>>

-------------------------------------------------------------------------------
(* Stop, a signal or a crash, and the next start: everything in memory is new, *)
(* the clipboards are as they were.  A batch that ran is cut off where it was. *)

Killed(b) == IF b.pc = "done" THEN b
             ELSE [b EXCEPT !.pc = "killed", !.target = 1, !.statuses = <<>>]

Restart ==
  /\ MayHappen /\ restarts' = restarts + 1 /\ before' = Len(runs)
  /\ last' = [i \in DOMAIN Sources |-> NoText] /\ lastSent' = NoText /\ turn' = 1
  /\ ch' = <<>> /\ at' = "select" /\ content' = NoText
  /\ processing' = FALSE /\ lastWritten' = NoText /\ quick' = Idle
  /\ runs' = [r \in DOMAIN runs |-> Killed(runs[r])]
  /\ UNCHANGED <<clipboard, history, clicks>>

-------------------------------------------------------------------------------
Next == \/ \E t \in CopyTexts, set \in CopySets : Copy(t, set)
        \/ \E t \in QuickTexts : QuickBegin(t)
        \/ Poll \/ Consume \/ Work \/ QuickWrite \/ Restart

SafeSpec == Init /\ [][Next]_vars

\* The goroutines keep running; Dispatch returns (the gate resolves, and an operation
\* ends).  Nobody has to copy, to click or to stop anything.
Spec == /\ SafeSpec
        /\ WF_vars(Poll) /\ WF_vars(Consume) /\ WF_vars(Work) /\ WF_vars(QuickWrite)

-------------------------------------------------------------------------------
(* Properties.                                                                *)

Running == {r \in DOMAIN runs : runs[r].pc \notin {"done", "killed"}}

\* Two batches never run at the same time, so the clipboard, the gate and the work
\* tree have one writer, although the flag is set and reset by different goroutines.
OneBatch == \A r, q \in Running : r = q /\ processing

\* The statuses on the screen are those of a prefix that went well, the step that
\* runs or failed, and the untouched rest; the response covers exactly the steps
\* that ran, and nothing runs after an error.
PipelineTellsTheTruth ==
  \A r \in DOMAIN runs :
    LET b == runs[r]
        reached == CASE b.pc = "next" -> "waiting"
                     [] b.pc = "dispatch" -> "running"
                     [] OTHER -> IF b.good THEN "done" ELSE "error" IN
    /\ \A i \in DOMAIN b.statuses :
         b.statuses[i] = IF i < b.step THEN "done" ELSE IF i = b.step THEN reached ELSE "waiting"
    /\ b.pc \in {"store", "write", "finish", "done"} /\ b.good => b.step = Steps[b.text]

Ran(t) == Cardinality({r \in DOMAIN runs : runs[r].text = t})

\* How often a text has been put on a clipboard from outside: a copy reaches its
\* clipboards at once, a click writes them one after the other.
Shown(t) == copied[t] + (IF t \in QuickTexts THEN clicks * Len(Sources) ELSE 0)

\* As long as no clipboard tool fails, and there are no more than two of them, a text is
\* run no more often than it was shown, although both tools show it, responses pass
\* through the same clipboards and the poller is late; a restart may count once more,
\* because the new daemon does not know what the old one has read.  Whatever fails, and
\* however many tools there are, each of them counts a text at most once (ClipTwice).
AtMostOncePerCopy ==
  \A t \in Texts :
    Ran(t) <= (IF Shown(t) = 0 THEN 0 ELSE Shown(t) + restarts)
              * (IF failures = 0 /\ Len(Sources) <= 2 THEN 1 ELSE Len(Sources))

\* The comparison with lastWritten keeps a response from the parser as long as it is
\* the latest: one that gets past it was answered by a later batch meanwhile, or by a
\* daemon before this one (watcher.go, "Enregistrer avant d'écrire pour que le hook
\* clipboard ignore ...").
OnlyOldOutputPasses ==
  at = "start" /\ content \notin Texts
    => \E r \in DOMAIN runs :
         /\ Payload(runs[r]) = content
         /\ \/ r <= before
            \/ \E q \in DOMAIN runs : r < q /\ runs[q].pc \in {"write", "finish", "done"}

\* The next command of the user: copied while the loop rests, no clipboard with anything
\* else that is new, and on its way from the tool to the consumer.
Due(t) ==
  /\ Steps[t] > 0 /\ Running = {} /\ quick = Idle
  /\ \A i \in DOMAIN Sources : clipboard[Sources[i]] \in {NoText, last[i], t}
  /\ \/ /\ ch = <<>> /\ at = "select" /\ t # lastSent
        /\ \E i \in DOMAIN Sources : clipboard[Sources[i]] = t /\ last[i] # t
     \/ ch = <<t>> /\ at = "select" /\ t = lastSent
     \/ ch = <<>> /\ at \in {"filter", "start"} /\ content = t /\ t = lastSent

Begun(t) == \E r \in Running : runs[r].text = t

\* What has come from outside.
Outside == <<copied, failures, clicks, restarts>>

\* Such a command stays on its way until it runs, unless something else comes from
\* outside: neither the flag nor what the poller and the watcher remember of earlier
\* texts and responses, the ones that nobody has read before the copy included, makes
\* them deaf to it.
CopyAtRestRuns ==
  [][\A t \in Texts : Due(t) => (Due(t) \/ Begun(t))' \/ Outside' # Outside]_vars

\* When the user stops copying, the loop comes to rest: the daemon's own writes do
\* not keep it going, every batch ends with the flag reset, whatever fails on the
\* way or is cut off, so the watcher never stays deaf, and no command is left on its way.
LoopSettles ==
  <>[](ch = <<>> /\ at = "select" /\ Running = {} /\ ~ processing /\ \A t \in Texts : ~ Due(t))

-------------------------------------------------------------------------------
(* What the comments say and the code does not do.                             *)

\* A copy is never run twice, whatever the tools do (clip_unix.go, "lastSent évite
\* d'émettre deux fois le même contenu si Wayland et X11 sont synchronisés").
NeverTwice == \A t \in Texts : Ran(t) <= copied[t]
===============================================================================
