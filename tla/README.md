# clipdevd in TLA+

clipdevd watches the clipboard for JSON commands (`{"_clipdev": "1.0", "op": ...}`),
runs them in a work directory, asks the user for approval of the ones that write, and
puts the answers back into the clipboard. A web page on a local port shows what happens
and carries the approval buttons. This directory specifies the parts of the daemon in
which goroutines, timers, channels and clipboards meet, model-checks them on small
instances and proves the central properties for all instances.

## 1. The system

| component | state it keeps | operations | who calls it |
|---|---|---|---|
| poller (`internal/clip/clip_unix.go`) | per tool the last text read, the last text emitted | `watchAll`, every 200 ms; `Write` into every clipboard | `watcher` |
| Windows clipboard (`internal/clip/clip_windows.go`) | a mutex, a hidden window's message queue, the fallback poller's last text | `Watch` (listener or poller), `Read`, `Write` | `watcher`, server |
| watcher (`internal/watcher`) | `processing`, `lastWritten` | `Start` (consumer), `process` (one goroutine per batch), `writeResponse` | `main` |
| parser (`internal/parser`) | none | `Extract`, `extractObject` | watcher |
| dispatcher (`internal/dispatch`) | `sessionOnce`, the shared configuration | `Dispatch`, `execute`, `writeObsidian`, `PublishSession` | watcher, server |
| approval gate (`internal/hitl`) | `pending` (id -> operation), a channel and a timer per operation | `Submit`, `Wait`, `Approve`, `Reject`, `TimeoutSecs` | dispatcher, server, timers |
| broker (`internal/broker`) | the set of client channels, an RWMutex | `Subscribe`, `Unsubscribe`, `broadcast` and the `Broadcast*` renderers | everyone |
| server (`internal/server`) | none of its own; writes `cfg.Obsidian` | SSE, approve/reject, stop, Obsidian form and publish, quick commands, file browser | browsers |
| operations (`internal/ops`), sandbox | the work tree | read, grep, find, write, patch, git, go, tree, python | dispatcher |
| main, config | configuration, context | start, stop | the operating system |

How they interact. The poller sends texts over a channel of 16 to the consumer. The
consumer starts a goroutine per batch and marks the watcher busy; that goroutine calls
`Dispatch` for one command after another, and `Dispatch` blocks in the gate until a
POST handler or an `AfterFunc` timer calls `Approve` or `Reject`. Everything broadcasts
events through the broker to the goroutine of each browser tab. The batch ends with the
response in all the clipboards, where the poller meets it again. `writeObsidian` runs in
goroutines nobody waits for, and shares `sessionOnce` and `cfg.Obsidian` with handlers.

What is hard to get right, and hard to test (the list with lines is in PROJECT.json,
"hazards"): answers racing with the auto-reject timer and with the next operation; ids
nobody checks; `Load`, `Stop`, `Delete` and the send being separate steps; a form shown
before its operation is stored; closing a channel that others send to; a busy flag set
and reset in different goroutines; the daemon reading what it wrote, through clipboards
that change at different times and tools that fail, and after a restart; a `sync.Once`
replaced while in use; files and programs that others touch between two system calls;
a killed child whose descendants hold its pipe; a window procedure that reads without
the mutex; the edges of a scan, of ranges and of path comparisons.

## 2. Modules

| module | what it is |
|---|---|
| `Approval` | abstract specification of the gate: one question at a time, settled once, executed only on consent |
| `HitlGate` | the gate as the code implements it; refines `Approval` |
| `Broker` | broker, RWMutex, client channels and SSE handlers |
| `ClipLoop` | poller, consumer, batches, quick commands, stop and restart, and the clipboards |
| `Obsidian` | journal goroutines, Publish button, configuration form |
| `WorkTree` | write, patch, git, go and python as system calls and child processes, beside everybody else who uses the files |
| `Sandbox`, `Reading`, `Extract` | pure operators: `Resolve`; read, grep, find, tree, the file browser and viewer; the scan of the parser |
| `Readers` | the three of them behind one request, compared with what the answers promise |
| `ClipWindows` | the clipboard of Windows: listener, fallback poller, `Write`, other programs |
| `HitlGateProofs`, `BrokerProofs`, `ClipLoopProofs`, `ObsidianProofs`, `WorkTreeProofs`, `ClipWindowsProofs`, `ReadersProofs`, `ExtractProofs` | TLAPS proofs |
| `MCHitlGate`, `MCBroker`, `MCClipLoop`, `MCObsidian`, `MCWorkTree`, `MCReaders`, `MCClipWindows` | instances for TLC |

Each module keeps a section of *slips*: faulty variants of an action or operator. No
specification uses them. Substituted for the definition they vary, they make a property
fail; they document what each property is able to notice.

The modules meet where one component sees no more of another than its outcome:
`ClipLoop` takes from `HitlGate` and `WorkTree` that `Dispatch` returns with success or
an error after any delay, and from `Extract` how many commands a text holds and that a
response holds none.

### HitlGate

`pc[c]` is the place of `Dispatch` with command `c`: `new`, `announced` (after
`BroadcastHITL`), `stored` and `armed` (inside `Submit`), `waiting`, `answered`, `run`,
and the ends `executed`, `rejected`, `unknown`. `pending` is the `sync.Map`, `decision[c]` the
channel of capacity one, `timer[c]` the runtime timer and `timerSet[c]` the field
`p.timer`, which is written after the timer has been started and read without a lock.
`Approve` and `Reject` are the same code, so a POST handler and the goroutine of a timer
are both *callers*: `at[x]` is `load`, `stop`, `delete` or `send`, the four accesses
between which other goroutines run. A click may be made on any form that was ever shown,
because a form stays on the screen of a tab that missed the clear event, and of a second
browser until the event arrives.

| action | code |
|---|---|
| `Refuse`, `Bypass`, `Announce` | `Dispatch` up to `BroadcastHITL`; `Announce` evaluates `TimeoutSecs` where the code does |
| `SubmitStore`, `SubmitArm`, `SubmitAssign` | `Store`, `AfterFunc`, the assignment of `p.timer` |
| `Wait`, `Conclude`, `Execute` | the receive, the test of the decision, `execute` |
| `Click`, `Expire` | a POST arrives; a timer fires |
| `LoadMiss`, `LoadHit`, `StopTimer`, `DeletePending`, `Send` | `Approve` and `Reject` |

`auto_reject` is a variable of the initial state that no step changes, so that one run
covers both settings.

### Broker

`writer` is the client goroutine that holds the writer half of the RWMutex: it has
announced itself, and its critical section runs once the readers before it are gone.
`act[b]` is `blocked` for a broadcast that came after the announcement; `Unlock` admits
it. Both are the rules of `sync.RWMutex`. `todo[b]` is what the loop over the map has
left, in any order. `got` is a history variable.
A tab leaves at any moment; its handler then removes the channel under the lock and
closes it after the unlock, as `Unsubscribe` does.

### ClipLoop

A text stands for the commands `Extract` finds in it (`Steps`). A response is a record
of the text answered, the number of commands that ran, and whether the last went well;
two responses to the same text with the same outcome are equal, the worst case for a loop
that compares texts. `PollFails`, `PollNothing`, `PollTwin` and `PollEmit` are one source
of one tick of `watchAll`, by its three early `continue`s. `Receive`, `Filter`, `Skip` and
`Start` are one turn of `Watcher.Start`, with the reads of `lastWritten` and of
`processing` in separate steps. `StepBegins`, `StepEnds`, `StoreWritten`, `WriteOne` and
`Finish` are the goroutine of a batch; its clipboard writes are separate, so the poller
sees one clipboard with the response and one without. `QuickBegin` and `QuickWrite` are
the handlers of the quick commands, which write their template to the same clipboards
and do not record it. `Sources` gives the clipboard of each tool, in the order of
`knownBackends`; xclip and xsel are two tools with one clipboard. What a tool last read
(`source.last`) belongs to the tool, not to the clipboard. `Restart` is a stop (handler, signal or crash) and the next start:
what was in memory is gone, the clipboards are not, a running batch ends as `killed`.
`Dispatch` is one step with either outcome.

### Obsidian

The copy of `cfg.Obsidian` and the form's assignments go field by field. `Once.Do` is its
flag, its mutex, and the second look at the flag, as in the library; `Reset` is the
assignment of a new `Once` and makes both forget what they knew. `Unlock` of a mutex that
is not locked sets `crashed`: the Go runtime ends the process. In mode `new` a file name
has a resolution of one second (`now`), and `stamped`, a history variable, is the second in
the name of the file a writer wrote. The handler of the form takes any mode: one the
code does not know (`"other"`) appends and writes no header, and like mode `new` it lets
entries into the journal without one, so `OneHeaderFirst` is about mode append.

### WorkTree

One command runs at a time. `pc` is the system call its operation makes next; `disk[f]`
is a sequence of texts, `Absent`, or `NoDir` when the directory is missing too. `Start`
is everything that is decided before the first call (sandbox, forbidden extensions, dry
run, modes, subcommands, missing parameters, time limits). `Stat`, `MkdirAll`, `Truncate`,
`WriteText`, `OpenAppend` and `AppendText` are the calls of write.go, `os.WriteFile` in
two; each may fail. Between any two of them others save or remove files (`Save`,
`Remove`; a removed file stays open as `linked = FALSE`) and the daemon may end (`Exit`).
A program is a `child` that exits when it likes, leaves descendants with its pipe
(`Fork`, `LeavePipe`), is killed when its context expires (`Kill`, `Tick`), and is
answered for by `Return`, which has to wait for both. `git apply` changes all files of a
diff or none; what other programs do to files is among `Save` and `Remove`. `old` and
`touched` are history variables.

### Sandbox, Extract, Reading, Readers

A path is a sequence of names and `Chars` gives their characters, because `Resolve`
compares texts: `Joined` puts a separator before each, `Cleaned` takes dots and empty
names out, both by recursion over the path. A clipboard text is a sequence of marks: braces, quotes, backslashes, the
two keys that are searched for, words. `Step` is one character of `extractObject`,
`Closing` its loop, `Object` the candidate it returns if the candidate has the sentinel;
`Commands` is the loop of `Extract`, which goes on `Past` what it has read: behind an
object, or one character further when there was none. `Json` is what `json.Unmarshal`
makes of an object.

A disk is a function from paths to directories and lines (`IsDisk`: the parent of every
path is a directory). A line is a word; `"long"` does not fit a Scanner's buffer. `Among`
is a loop that keeps some elements, used for entries, lines and files. `Walked` and `Drawn`
are the recursions of `filepath.WalkDir` and `buildTree`, as recursive functions on the
paths of a disk; `WalkDir` and `Rows` call them at the root of a request. `ShowAround` is
the overlap of grep's contexts with the marks `Hit` and `Near`, `ReadRange` the loop of
`readRange`, `Browse` and `View` the browser and viewer of server.go.

`Readers` answers one request, and its invariants compare the answer with a definition
that says what it should hold rather than how it is computed. For the parser this means a
description of texts without a scanner: `Escaped` (an odd number of backslashes before),
`InString` (an odd number of quotes that are not escaped), `Unclosed` (braces outside
strings, opened less closed), and `IsObject`, a text whose count of unclosed braces is first
zero at its end. `Parts` are the pieces a text is made of, `Meant` the commands they hold.

### ClipWindows

`owner` is the program that has the clipboard open, one at a time. The goroutine of
`Watch` either listens (`TakeMessage`, then `OpenToRead` without the mutex) or polls
(`Poll`, which takes `mu`), then reads in `ReadAndClose` and sends in `Send`, dropping the
text when the channel is full. `Write(w)` is a call of `Write` by the watcher or by a quick
command: mutex, open, empty, set, close, each of which may fail as in the code. `Copy`,
`OtherOpens` and `OtherCloses` are the other programs. A text of `Limit` units (2^20) or
more is an index out of range and ends the daemon. `excused` is a history variable: why
the present text may be missing at the watcher.

## 3. What the runs check

All runs are exhaustive.

| run | instance | shows |
|---|---|---|
| `HitlGate` | two writes, a dry run, an unknown operation, two POSTs, auto-reject or not | `CauseUnderItsId`, `MapHoldsTheWaiting` (`Answerable` and `AnsweredLeavesNoEntry`), `RefinesGate`, and under fairness `GateResolves` and `ClickSettles` |
| `Broker` | two tabs, two broadcasters with two events, channels of two | `NoSendOnClosed`, `InOrder`, `NobodyHangs` |
| `ClipLoop` | a pipeline of two and a quick command, two clipboards, two copies, one failure, click or restart, a channel of one | `OneBatch`, `PipelineTellsTheTruth`, `OnlyOldOutputPasses`, `AtMostOncePerCopy`, `CopyAtRestRuns`, `LoopSettles` |
| `Obsidian` | two operations, one Publish, forms that change the file once and the mode twice (append, new, a value the code does not know), two seconds | `OneHeaderFirst`, `EntriesStay`, `WritersEnd` |
| `WorkTree` | two of twenty-three commands on three files, two touches by others, one exit | `WrittenIsThere`, `RefusedLeavesNoTrace`, `ProgramToldTruly`, `CreateSparesOld`, `TimedCommandsEnd` |
| `Readers` | texts of up to three pieces, cuts of texts of two wherever they may fall, paths of up to three names, files of up to four lines, 25 small trees, four work directories with "/" among them | `CommandsFound`, `NothingInvented`, `ResolveExact`, `ReadShowsRange`, `GrepShowsNeighbours`, `WalkIsComplete`, `TreeIsComplete`, `BrowserOpens` |
| `ClipWindows` | two copies, one other program, two writes of which one is too long | `LatestArrives`, `WritesDoNotCollide`, `ClipboardComesBack`, `WatchEnds` |

Six of them check the type invariant too; `Readers` has none, as its answers have no
common type.

Five runs end in a violation: a document or a comment says something the code does not do.

| run | what TLC shows |
|---|---|
| `HitlFormShowsTimeout` | `Dispatch` asks for the timeout before `Submit` has stored the operation: every form says "Auto-reject dans 0s" |
| `HitlLogTellsTheOutcome` | click and timer both load the operation; the timer's send wins, and `Approve` still returns true: the journal says "Opération autorisée par l'utilisateur" of an operation that was rejected |
| `HitlReusedIdLiveness` | two operations with one id: a late answer to the first deletes the entry of the second, whose own timer then finds nothing; the dispatcher waits for ever and the watcher stays busy |
| `ClipTwice` | `lastSent` holds one text for all tools. With wl-paste, xclip and xsel, one copy and no failure: xsel emits the copy first, the batch writes its response to the Wayland clipboard, wl-paste emits it, and xclip, whose clipboard still has the text, takes it for new: its commands run again |
| `ObsidianHeaderOnce` | after Publish the next operation writes the automatic header again, which dispatch.go:114 and :168 exclude |

**What the properties say about the code that a reader may not expect.** They hold, with
these parts in them:

- Pressing Publish at the moment an operation writes the session header ends the daemon
  with "unlock of unlocked mutex": in every continuation the last `Unlock` finds the mutex
  free (`WritersEnd`).
- A restart takes the text still on the clipboard for a new copy: an interrupted batch,
  or a finished one whose response could not be written, runs again (`AtMostOncePerCopy`
  counts restarts). A quick command may count once per tool it is written with. With two
  tools of which none fails a text is run no more often than it was shown; with three
  tools, or after one failed read, each tool may count it once (`ClipTwice`).
- `create` spares a file that was there when the command began. One that appears between
  `Stat` and `WriteFile` is overwritten, although README.md:64 has create fail on an
  existing file; `CreateSparesOld` does not speak of that file; and a stop between the two halves of `WriteFile` leaves an empty file.
- git and patch have no time limit, and a limit kills the child but nobody the child has
  started, so `TimedCommandsEnd` says of the other commands that they end unless a
  descendant keeps the pipe. `CombinedOutput` waits as long: no TIMEOUT, no answer, and
  the watcher stays busy, although README.md:24 and :26 give go and python a timeout. Python's
  default of ten seconds ignores `max_timeout`; a program that ended well may be told as
  TIMEOUT when a descendant held its pipe for too long.
- A command nested in another object that has the sentinel is not found
  (`CommandsFound`), and one behind a brace that is never closed need not be; what is found
  even then are commands of the text, once and in order (`NothingInvented`).
- A selection that is cut off in an object around a command leaves the command bare:
  it is found, and would run, although the whole object would not. `Sealed` is the premise
  of `CommandsFound` that keeps this case out, and `Inside` the part of `NothingInvented`
  that lets it in: it is the only way to a command that the whole text does not mean.
- A response that meets the consumer is kept from running by its "ok": alone when it is an
  old one (`OnlyOldOutputPasses`); that the parser finds nothing in it is `CommandsFound`,
  with the pieces `answer` and `pipeline`. `ClipLoop` takes this from there (`Extract`).
- The user's next command is run when the loop rests, even if the response before it was
  never read (`CopyAtRestRuns`). Copied at any other moment it may be dropped.
- A read fails over a line that is too long one line behind its range; a match that
  an earlier context has shown already gets no mark; a directory whose last entry is ignored
  is drawn without a corner; with "/" as work directory `Resolve` refuses every other path.
- On Windows a text of 2^20 units or more ends the daemon, its own answer included. A
  `Write` that meets the window procedure fails and is not tried again. A text that was
  there before the listener is not seen, and `fallbackPoll` notes a text as seen although
  the channel dropped it.

**Bounds.** Two operations are enough for an answer to one to reach the other, and two
POSTs for two clicks to race with each other and with a timer; a dry run and an unknown
operation only take the other exits of `Dispatch`. Channels of one or two make the full
channel happen (64 and 16 in the code); the code depends on the capacity only through
full or not full. `MaxEvents` of `Broker`, `MaxCopies`, `MaxSecs`, `MaxTouches` and
`MaxOpens` bound what the environment does; `MaxEvents` of `ClipLoop` is the number of
failures of tools, clicks and restarts together, so each happens at every moment, but
two of them not in the same behaviour; the proofs have no such bound. Two
commands of `WorkTree` let the second begin on what the first has left. Its
commands have each mode, each kind of limit and each refusal (but the one for want of a
Python interpreter) at least once. In `Readers` three
pieces put something before and behind every piece; `MaxText` leaves out the few texts of
three of the longest pieces, as the recursion over a text is as deep as the text is long.
Cuts are made at every place of texts of two pieces, of which the first is a command, a
quote, prose or a brace that is never closed and the second is any, the object around a
command included. The tree whose depth is the default of four is not deep enough to be cut
there: that tree stops at the default is left to the proof.
Four lines let two contexts overlap and be cut off at both ends. The bounds end behaviours, so deadlock is not checked: users may stop
clicking, copying and opening tabs. What takes its place are the liveness properties, each
of which says that somebody who has started comes to an end.

**Fairness.** Weak fairness of the steps of goroutines that can run (the Go scheduler), of
timers that are not stopped, of the poller's ticks, and of the return of `Dispatch` in
`ClipLoop`. The last is an assumption: it holds for the gate (`GateResolves`), and for an
operation as far as the program it starts ends. In `WorkTree` the calls of a write, the
return, the clock and the kill are fair; a program need not end by itself, and a
descendant need not let go of the pipe, so for go and python too the assumption is one
about their programs. In `ClipWindows` `EndWatch` is strongly fair: Go's `select` chooses at random
between a tick and the context. Other programs need not close the clipboard. Nothing
obliges a user to click, copy, read a response or close a tab.

## 4. What is proved

With TLAPS, for any sets of commands, ids, POSTs, tabs, broadcasters, texts, clipboard tools,
journal goroutines, files, writers, names and paths and any bound:

| theorem | statement |
|---|---|
| `HitlGateProofs!TypeCorrect` | types of the gate |
| `HitlGateProofs!Approved`, `RejectedForCause` | with unique ids: what ran was approved on its own form; what was rejected was rejected on its own form or by its own timer |
| `HitlGateProofs!CauseShared` | whatever the ids: each outcome has its cause under the same id |
| `HitlGateProofs!AlwaysAnswerable` | a blocked `Dispatch` can still be answered |
| `HitlGateProofs!NoStaleEntry` | the map leads only to operations that wait |
| `HitlGateProofs!MapCorrect` | the last two together |
| `HitlGateProofs!Refinement` | `HitlGate` implements `Approval` |
| `BrokerProofs!TypeCorrect` | types of the broker; no channel exceeds its capacity |
| `BrokerProofs!NeverSendOnClosed` | no broadcast sends on a closed channel |
| `BrokerProofs!SeenInOrder` | a tab sees each goroutine's events in order and misses only what its own full channel dropped |
| `ClipLoopProofs!TypeCorrect` | types of the loop; the channel of `Watch` keeps to its capacity |
| `ClipLoopProofs!OneAtATime` | two batches never run at the same time |
| `ClipLoopProofs!PipelineTrue` | statuses and response tell what the pipeline did |
| `ClipLoopProofs!OldOutputOnly` | only a response that a later batch, or a new daemon, has superseded gets past `lastWritten` |
| `ClipLoopProofs!NextCommandRuns` | a command copied while the loop rests is not lost on its way to a batch (an action property) |
| `ClipLoopProofs!AtMostOnce` | how often a text is run, for any tools, copies, clicks and restarts |
| `ObsidianProofs!TypeCorrect` | types of the journal |
| `ObsidianProofs!HeaderFirst` | one header per reset, and no entry of mode append before a header |
| `ObsidianProofs!EntriesKept` | the entry of an operation stays in the file it wrote, unless another operation wrote in mode new to the file of that name and that second |
| `ObsidianProofs!TornForEver` | a `Reset` inside `Do` is never made good (an action property; the safety half of `Torn ~> crashed` in `WritersEnd`) |
| `WorkTreeProofs!TypeCorrect` | types; a write is under way only on a path of the sandbox |
| `WorkTreeProofs!WrittenTrue` | an OK of write or patch means that the text is there |
| `WorkTreeProofs!RefusedTraceless` | refusals, previews and failed patches leave no trace |
| `WorkTreeProofs!ToldTruly` | an answer tells how its program ended, and comes when nobody can add to it |
| `WorkTreeProofs!OldSpared` | mode create changes no file that was there (an action property) |
| `ClipWindowsProofs!TypeCorrect` | types; who has the clipboard open |
| `ClipWindowsProofs!LatestSent` | no text is lost to the daemon's own writes |
| `ClipWindowsProofs!NoCollision` | no `Write` fails because of another (an action property) |
| `ReadersProofs!ResolveCorrect` | the sandbox accepts exactly what is in the working directory, for paths of any length |
| `ReadersProofs!ReadCorrect` | a read shows the lines of its range, and fails only over a long line it meets, for files of any length |
| `ReadersProofs!GrepCorrect` | grep shows each line near a match once and in order, and no other, for any context |
| `ReadersProofs!WalkCorrect` | find and grep reach everything that is not pruned, sorted, for trees of any size |
| `ReadersProofs!TreeCorrect` | tree draws everything down to its depth that is not ignored, sorted, with the corners where they belong |
| `ReadersProofs!BrowserCorrect` | the browser shows its three levels, and its links lead the viewer back to their files |
| `ExtractProofs!ExtractCorrect` | the parser finds each command of a text once and in order, for texts of any pieces, cut off anywhere |

**Assumptions.** The named ASSUMEs of the modules, which say what the constants are; among
them that a response is neither a text with commands nor empty (`ResponseAssumption`), and
that no goroutine of an operation is one of Publish (`GoroutineAssumption`). About names: a
name has characters, no separator among them, is known by them, and is no dots
(`CharsAssumption`); `ReadDir` sorts them in an order without repetition
(`OrderAssumption`); limits are natural numbers (`LimitAssumption`). About requests
(`RequestAssumption`): the working directory is absolute and clean, as `New` makes it,
whereas the path of a command may hold dots and empty names; a disk is a tree with finitely
many paths. About texts (`PartAssumption`): a piece is prose without an opening brace, or
an object in the sense of `IsObject` (backslashes only in its strings, as in JSON), and one
without the sentinel has no further object in it; a piece called "open" is exempt, and
so are the texts it is in from `CommandsFound`. The assumption describes pieces by counting
quotes and braces and does not mention the scanner. The
theorems about the gate, `TypeCorrect` and `CauseShared` apart, have the premise
`UniqueIds`: no two operations that reach the gate have the same id. The code does not
ensure it (ids come from the clipboard, or from the clock in milliseconds), and
`HitlReusedIdLiveness` shows that the theorems need it. `CauseUnderItsId` is the part of
the two causes that is left without the premise; with it, as in the run, it says the same as both.

**The argument for the gate.** `ExecutedWasApproved` is not inductive: it says nothing of
a decision on its way. `IInv` follows a decision through every place it can be in.
`CallerInv`: a caller acts on the operation of its own form (here unique ids enter), and
what it is about to send to has left the map. `MapInv`: the map leads to operations that
are blocked and undecided. `DecisionInv`: what is in a channel or came out of it has a
cause, a click on that form or that timer. `TimerInv`, `PassInv`: timers start in
`Submit`, and only gated operations are anywhere in the gate. `Answerable` itself is a
conjunct. The refinement maps an operation to the stage of `Approval` by the first
decision that enters its channel; each action maps to one abstract step or a stutter.

**The argument for the broker.** `LockInv`: the client in a critical section is the
writer; a loop only has clients of the set left, as the set does not change while there
are readers; a closed channel belongs to a client whose handler is gone, hence not in the set.
`InOrder` speaks of one sequence per client, what it got followed by what is in its channel
(`Stream`): receiving does not change it, a send makes it longer by one. `OrderInv` says of
each such sequence that the event a broadcast has begun and not offered to this client yet
(`Due`) is not in it, so the next one sent is always the largest of its goroutine, and
that without a drop nothing but the due event is missing.

**The argument for the loop.** `OneBatch` is not inductive, since a batch that has ended
could start again or another one begin beside it. `OneActive` says which one may be at
work: the batch started last, and only while the flag is set. `AllTell` adds to
`PipelineTellsTheTruth` that the current step is one of the commands, which makes a good
end the end of the whole pipeline.

`OnlyOldOutputPasses` needs to know where responses come from. `OriginInv`: whatever is on a
clipboard, in the channel or with the consumer is a text or answers a batch of the list
that has recorded its response or belongs to an earlier daemon (`AllKnown`), and what
`lastWritten` holds is the response recorded last by this daemon (`LatestKept`). A
response that differs from `lastWritten` is therefore one that was followed by another.

`CopyAtRestRuns` needs two facts that no response or batch ever left behind can spoil
(`FlagInv`): the flag is set only while a batch runs, and `lastWritten` is no text of the
user. Then each step of the poller or the consumer takes the command one place further
(`PollKeepsDue`, `ConsumeKeepsDue`), and nobody else has a step that is not from outside.

`AtMostOncePerCopy` is an account for each text. What was shown from outside pays in (once
for each copy, once per tool for a click, once for a restart); what was run, what is in the
channel and with the consumer, the tools that show the text and have not read it yet, and
the writes a click still has to make are taken out. `AccountInv` says that no account is
overdrawn, in two ways: `PerTool` counts every tool by itself and holds whatever fails;
`Together` lets two tools share one entry, because while none fails the second one finds
the text in `lastSent`: they take turns, so nothing is emitted between the two reads. With
three tools something may be, which is `ClipTwice`. A step is quiet, emits a text, or has
paid for what it shows (`Quiet`, `Emitted`, `PaidFor`), and `AccountBalances` is the
arithmetic; the lemmas before it count the elements of sequences and sets.

**The argument for the journal.** `CopyInv`: a goroutine past its copy has all fields, and
the vault is set; this is what makes the types inductive. `JournalInv` puts every entry and
separator in a file that its goroutine's copy names, so an entry can only be lost where
mode `new` truncates a file. `EntryInv` says of each writer that is done: its entry is in its
own file, that of its copy and of the second it was stamped with (`stamped`), or another
writer of mode `new` with the same file and stamp is there in its place. A stamp stays
as it was given (`StampKept`). For the header, `MarkInv`: the flag of the `Once` is set, and the `Once` left, only
when a separator is there. `HoldersInv`: the mutex is locked only with somebody inside
`Do`. `CountInv`: while a `Reset` has never fallen into a `Do`, there is one automatic header
per `Reset` at most, and the flag, or the goroutine about to set it, stands for one.
`TornForEver` makes that premise sound: once the mutex has been replaced under somebody, the
count of goroutines inside never comes right again.

**The argument for the work tree.** The answers are true at the end because of what holds on
the way. `TextInv`: in every call of a write, a file that nobody touched has the contents
that this call expects, the old ones or the empty file. `CallInv`: a call belongs to its
mode, and has not been refused. `ProgramInv`: a killed program belongs to an expired
context, and at the answer nobody runs or holds the pipe. `SparedInv`: mode create is past `Stat` only if the
file was missing or has been removed since. `PatchInv`: as long as the program of a
patch has not ended well, its files are the old ones. They carry `OutcomeInv`, the four
properties themselves, through every step.

**The argument for Windows.** `LatestArrives` speaks of rest, and `ArriveInv` of everything
before it: while there is no excuse, the present text has been handed on, or there is a message in
the queue, or the goroutine is about to open or read, or a writer has the clipboard open and
will notify at its close. `LockInv` says who has the mutex and the clipboard at each
call; two writers cannot both be past their `Lock`, which is `NoCollision`.

**The argument for the sandbox.** Paths are data, so this is an induction over them, and the
induction rule itself is proved: `NatInduct` from the order of the natural numbers, with a
set where the rule of the library has a predicate; `SeqInduct` for sequences, by length;
and `Recursion`, that a function defined by its value on the empty sequence and by what it
makes of the last element exists, which makes the equations of `Joined` and `Cleaned` facts.
`EndedExact` is the heart: a path with a separator behind it ends in a separator, and between
the text of a path and that of the path with one more name there is no separator
(`EndsBefore`). So a text that begins another begins it at the end of a name, and as names
are known by their characters (`SameEnd`) the texts compare like the paths. The root is a
case of its own: its text ends in two separators, and no text of a path has the second
(`SecondCharacter`).

**The argument for the files.** `Recursion` and `IndexRecursion` turn the recursive functions of
the model into equations (`AmongUnfolds`, `GrepUnfolds`), and `TreeRecursion` does so for
those on the paths of a disk: its measure is the distance to the longest path, which is
finite because a disk is (`Bounded`); `TreeInduct` is the induction that belongs to it.
`AmongPicks` says what a loop that keeps some elements returns: they are in it, no others,
in their order. For read a run of consecutive numbers is enough (`IsRun`). For grep
`ShownBy` is the invariant of the loop over the lines: what has been shown after line `i` is
what is near a match up to `i`, in order, because every new line lies behind all that have
been shown. For walk and tree, `Walks` and `Draws` say of each path that its value lists
exactly what is reached or visible from it, sorted. The step is that the lists of the
children, in the order of their names, put one behind the other are sorted again
(`FlatSorted`), and `FlattenPlaces` gives the place of each element of such a list. The
browser's link is a path cut off at the working directory (`LinkLeadsBack`), so
the sandbox leads it back: `ResolveExact` is a comparison name by name.

**The argument for the parser.** The state of the scan after `i` characters is what the
description says of them (`Tracks`): `inStr` is the parity of the unescaped quotes,
`escape` that of the backslashes before, `depth` the braces not closed. So `Closing` finds
the end of an object where `IsObject` has it, and nothing in a beginning of one. What a
scan finds does not depend on what stands behind the end it found; hence `Commands` of a
piece with any text behind it is what the piece means and then the commands of the rest,
and, by induction over the pieces, the meanings of all of them (`PiecesMean`). A text that
is cut off is a number of whole pieces and the beginning of one more (`CutText`), in which
nothing is found (`CutMeansNone`): an object is not closed there, and the scan that starts
again inside of it meets no object with the sentinel, as the piece is sealed.

**Only model-checked.** Liveness (`GateResolves`, `ClickSettles`, `NobodyHangs`,
`LoopSettles`, `WritersEnd`, `TimedCommandsEnd`, `ClipboardComesBack`, `WatchEnds`), which
is out of the prover's reach; and `NothingInvented`, which is about texts with a brace that is
never closed: there an object may begin in one piece and end in another, and whether `Json`
reads it depends on the pieces of the instance. All other invariants and action properties
of the runs are proved.

## 5. What is not modelled

- The HTML of events and pages, logging, the wording and layout of responses, the headers
  of the journal's entries: no property is about them.
- The status page, the routes and the parsing of the configuration: they hold no state
  that changes. The configuration's values are CONSTANTS.
- The arguments of programs and what programs do to files, beyond `git apply` being all or
  nothing. find's `modified_after` is decoded and then ignored.
- Symbolic links: `Resolve` does not follow them, and neither does the model.
- Torn reads inside one string of `cfg.Obsidian`: the race is modelled between fields.
- Failing writes of the journal, which the code ignores.
- The patterns of `filepath.Match`: find's name is compared as it is, and the branch that
  leaves out every entry when the pattern is malformed (find.go:43-47) is not there.
- The dot that grep puts before an extension given without one (grep.go:41-43): extensions
  have theirs.
- The answers of the viewer to a request without a path (server.go:386-389) and to a file
  that exists and cannot be opened (server.go:404-409).
- More than one quick command at a time: the handlers of server.go:308-334 may overlap, the
  model has one click written out before the next. A copy of the user reaches the
  clipboards it reaches in one step.
- `Watcher.Start` tests and sets `processing` in one step (watcher.go:46-55). Only this
  goroutine sets it, and a batch resets it once, so nothing can come between. On Windows,
  likewise, a done context and the `PostMessageW` that follows it are one step
  (clip_windows.go:152-155).
- Objects without the sentinel that hold further objects are not among the pieces of texts
  (`PartAssumption`): the scan looks into them, as it goes on one character further.
- `LatestArrives` takes a text the goroutine dropped at a full channel for handed on
  (`offered`): if the user copies the same text again, nothing says that it arrives.
- Windows: `HasChanged`, which nobody calls; an overflow of the message queue and an error
  of `GetMessage`.
- The composition of all parts in one state space: the interfaces are the outcomes named
  in section 2.

## 6. What is left to do

An abstract specification of the loop (a list of runs, each paid for by a copy), which
`AccountInv` is already the mapping for; `NothingInvented` for any pieces, under an
assumption that `Json` reads no object of parts of several pieces.
