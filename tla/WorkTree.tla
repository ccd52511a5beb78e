------------------------------- MODULE WorkTree -------------------------------
(***************************************************************************)
(* The operations that can change the working directory: write, patch, git,   *)
(* go and python (ops/write.go, patch.go, git.go, gotool.go, python.go), as    *)
(* Dispatcher.execute runs them, one at a time, while the user's editor and    *)
(* anything else on the machine changes the same files.                      *)
(*                                                                           *)
(* A write is a handful of system calls on a path; a program is a child       *)
(* process, its descendants and, for go and python only, a timer.  The daemon  *)
(* can be stopped between any two of these steps.                            *)
(***************************************************************************)
EXTENDS Integers, Sequences

CONSTANTS Files,        \* the paths below the working directory
          Outside,      \* a path that Sandbox.Resolve refuses
          Settings,     \* the files with an extension of forbiddenExts
          Commands,     \* the commands the clipboard may hold
          FirstTree,    \* the files before the first command
          NoDir,        \* not there, nor is its directory
          Absent,       \* not there, in a directory that is
          Unset,        \* the empty string
          Bad,          \* a duration that does not parse
          Foreign,      \* the text that others write
          MaxTimeout,   \* limits.max_timeout
          HasPython,    \* findPython finds an interpreter
          MaxStarts, MaxTouches, MaxExits   \* bounds

PythonDefault == 2      \* the 10 s of python.go, in ticks
Modes == {"create", "overwrite", "append"}   \* "" has become "overwrite"
AllowedGitSubs == {"status", "commit"}       \* two of the nine
AllowedGoSubs == {"build", "test", "mod tidy"}
Texts == {c.text : c \in Commands} \cup {c.from : c \in Commands} \cup {Foreign}
Contents == Seq(Texts) \cup {NoDir, Absent}
Timed == {"go", "python"}

ASSUME FileAssumption == Outside \notin Files /\ Settings \subseteq Files
ASSUME TreeAssumption == FirstTree \in [Files -> Contents]
ASSUME AbsenceAssumption ==
  NoDir \notin Seq(Texts) /\ Absent \notin Seq(Texts) /\ NoDir # Absent
ASSUME BoundAssumption == {MaxTimeout, MaxStarts, MaxTouches, MaxExits} \subseteq Nat
ASSUME CommandAssumption == \A c \in Commands :
  /\ c.op \in {"write", "patch", "git", "go", "python"}
  /\ c.path \in Files \cup {Outside}
  /\ c.changes \subseteq Files /\ (c.op # "patch" => c.changes = {})
  /\ c.timeout \in Int \cup {Unset, Bad}
  /\ c.dry \in BOOLEAN

VARIABLES disk,     \* the working directory
          cmd,      \* the command that runs, or the last one
          pc,       \* the call its operation is about to make
          code,     \* its answer: OK, DRY_RUN or the code of a failure
          linked,   \* the file it has open is still the one at its path
          child,    \* the program it has started
          piped,    \* a descendant of the program has the pipe of its output
          left,     \* the ticks until the context of the program expires
          old,      \* history: the working directory when the command began
          touched,  \* history: what others have done to a file since then
          starts, touches, exits   \* counters for the bounds

fileVars == <<disk, linked>>
programVars == <<child, piped, left>>
commandVars == <<cmd, starts, old>>
othersVars == <<touched, touches>>
vars == <<fileVars, programVars, commandVars, othersVars, pc, code, exits>>

Steps == {"stat", "mkdir", "truncate", "write", "openAppend", "append"}

TypeOK ==
  /\ disk \in [Files -> Contents] /\ old \in [Files -> Contents]
  /\ cmd \in Commands
  /\ pc \in Steps \cup {"idle", "run"}
  /\ pc \in Steps => cmd.op = "write" /\ cmd.path \in Files
  /\ child \in {"none", "running", "ok", "failed", "killed"}
  /\ linked \in BOOLEAN /\ piped \in BOOLEAN
  /\ left \in Int
  /\ touched \in [Files -> {"no", "saved", "removed"}]
  /\ starts \in 0..MaxStarts /\ touches \in 0..MaxTouches /\ exits \in 0..MaxExits

Init ==
  /\ disk = FirstTree /\ old = FirstTree
  /\ cmd \in Commands
  /\ pc = "idle" /\ code = "STARTED"
  /\ linked = FALSE /\ child = "none" /\ piped = FALSE /\ left = 0
  /\ touched = [f \in Files |-> "no"]
  /\ starts = 0 /\ touches = 0 /\ exits = 0

Exists(f) == disk[f] \notin {NoDir, Absent}
Put(content) == disk' = [disk EXCEPT ![cmd.path] = content]

-------------------------------------------------------------------------------
(* What is decided before anything is touched.                                *)

\* A slip, which no specification uses: the path is not resolved in the sandbox.
RefuseNoEscape(c) ==
  IF c.path \in Settings THEN "FORBIDDEN_EXT"
  ELSE IF c.dry THEN "DRY_RUN"
  ELSE IF c.mode \notin Modes THEN "INVALID_MODE" ELSE "none"

WriteRefusal(c) ==
  IF c.path \notin Files THEN "PATH_ESCAPE"
  ELSE IF c.path \in Settings THEN "FORBIDDEN_EXT"
  ELSE IF c.dry THEN "DRY_RUN"
  ELSE IF c.mode \notin Modes THEN "INVALID_MODE" ELSE "none"

PatchRefusal(c) ==
  IF c.text = Unset THEN "MISSING_PARAM"
  ELSE IF c.path \notin Files THEN "PATH_ESCAPE"
  ELSE IF c.dry THEN "DRY_RUN" ELSE "none"

PythonRefusal(c) ==
  IF c.text = Unset THEN "MISSING_PARAM"
  ELSE IF ~ HasPython THEN "NOT_FOUND" ELSE "none"

SubRefusal(c, allowed) == IF c.sub \notin allowed THEN "FORBIDDEN_SUBCMD" ELSE "none"

Refusal(c) ==
  CASE c.op = "write" -> WriteRefusal(c)
    [] c.op = "patch" -> PatchRefusal(c)
    [] c.op = "python" -> PythonRefusal(c)
    [] c.op = "git" -> SubRefusal(c, AllowedGitSubs)
    [] c.op = "go" -> SubRefusal(c, AllowedGoSubs)

Refusals == {"PATH_ESCAPE", "FORBIDDEN_EXT", "DRY_RUN", "INVALID_MODE", "MISSING_PARAM",
             "NOT_FOUND", "FORBIDDEN_SUBCMD", "FILE_EXISTS"}

\* The limit of go is the shorter of the two; that of python is 10 s, whatever
\* max_timeout, unless the command gives one.
GoLimit(c) ==
  IF c.timeout \in Int /\ c.timeout < MaxTimeout THEN c.timeout ELSE MaxTimeout
PythonLimit(c) ==
  IF c.timeout \notin Int THEN PythonDefault
  ELSE IF c.timeout > MaxTimeout THEN MaxTimeout ELSE c.timeout
Limit(c) == IF c.op = "go" THEN GoLimit(c) ELSE PythonLimit(c)
Expired == cmd.op \in Timed /\ left <= 0

Goto(from, to) == pc = from /\ pc' = to
Answer(c) == pc' = "idle" /\ code' = c

-------------------------------------------------------------------------------
(* Slips a maintainer could make; no specification uses them.                  *)

\* The directory is made before the dry run is told.
StartMaking(c) ==
  /\ pc = "idle" /\ starts < MaxStarts /\ starts' = starts + 1
  /\ cmd' = c /\ old' = disk /\ touched' = [f \in Files |-> "no"]
  /\ disk' = IF c.op = "write" /\ c.path \in Files /\ disk[c.path] = NoDir
               THEN [disk EXCEPT ![c.path] = Absent] ELSE disk
  /\ IF Refusal(c) # "none" THEN Answer(Refusal(c))
     ELSE /\ code' = "none"
          /\ pc' = IF c.op # "write" THEN "run"
                   ELSE CASE c.mode = "create" -> "stat"
                          [] c.mode = "overwrite" -> "mkdir"
                          [] c.mode = "append" -> "openAppend"
  /\ child' = IF pc' # "run" THEN "none"
              ELSE IF c.op \in Timed /\ Limit(c) <= 0 THEN "failed" ELSE "running"
  /\ left' = Limit(c) /\ piped' = FALSE
  /\ UNCHANGED <<linked, touches, exits>>

\* Create goes on when the file is there.
StatBlindly ==
  /\ Goto("stat", "mkdir") /\ UNCHANGED code
  /\ UNCHANGED <<fileVars, programVars, commandVars, othersVars, exits>>

\* The file is opened without O_TRUNC.
OpenKeeping ==
  /\ pc = "truncate"
  /\ \/ /\ disk[cmd.path] # NoDir
        /\ Put(IF Exists(cmd.path) THEN disk[cmd.path] ELSE <<>>)
        /\ linked' = TRUE /\ pc' = "write" /\ UNCHANGED code
     \/ Answer("IO_ERROR") /\ UNCHANGED fileVars
  /\ UNCHANGED <<programVars, commandVars, othersVars, exits>>

\* The error of the command is looked at before that of the context.
ReturnError ==
  /\ pc = "run" /\ child # "running" /\ ~ piped
  /\ Answer(IF child # "ok" THEN "FAILED" ELSE IF Expired THEN "TIMEOUT" ELSE "OK")
  /\ UNCHANGED <<fileVars, programVars, commandVars, othersVars, exits>>

\* go is started by exec.Command instead of exec.CommandContext.
KillPython ==
  /\ pc = "run" /\ child = "running" /\ cmd.op = "python" /\ Expired /\ child' = "killed"
  /\ UNCHANGED <<fileVars, piped, left, commandVars, othersVars, pc, code, exits>>

-------------------------------------------------------------------------------
(* The operations.                                                            *)

\* The watcher executes the next command: the refusals, or the first step.  A context
\* that has expired already keeps the program from being started.
Start(c) ==
  /\ pc = "idle" /\ starts < MaxStarts /\ starts' = starts + 1
  /\ cmd' = c /\ old' = disk /\ touched' = [f \in Files |-> "no"]
  /\ IF Refusal(c) # "none" THEN Answer(Refusal(c))
     ELSE /\ code' = "none"
          /\ pc' = IF c.op # "write" THEN "run"
                   ELSE CASE c.mode = "create" -> "stat"
                          [] c.mode = "overwrite" -> "mkdir"
                          [] c.mode = "append" -> "openAppend"
  /\ child' = IF pc' # "run" THEN "none"
              ELSE IF c.op \in Timed /\ Limit(c) <= 0 THEN "failed" ELSE "running"
  /\ left' = Limit(c) /\ piped' = FALSE
  /\ UNCHANGED <<fileVars, touches, exits>>

Stat ==
  /\ pc = "stat"
  /\ IF Exists(cmd.path) THEN Answer("FILE_EXISTS") ELSE pc' = "mkdir" /\ UNCHANGED code
  /\ UNCHANGED <<fileVars, programVars, commandVars, othersVars, exits>>

MkdirAll ==
  /\ pc = "mkdir"
  /\ \/ /\ Put(IF disk[cmd.path] = NoDir THEN Absent ELSE disk[cmd.path])
        /\ pc' = "truncate" /\ UNCHANGED code
     \/ Answer("IO_ERROR") /\ UNCHANGED disk
  /\ UNCHANGED <<linked, programVars, commandVars, othersVars, exits>>

\* The first half of os.WriteFile: the old text is gone, the new one is not there yet.
Truncate ==
  /\ pc = "truncate"
  /\ \/ /\ disk[cmd.path] # NoDir /\ Put(<<>>)
        /\ linked' = TRUE /\ pc' = "write" /\ UNCHANGED code
     \/ Answer("IO_ERROR") /\ UNCHANGED fileVars
  /\ UNCHANGED <<programVars, commandVars, othersVars, exits>>

\* The second half writes at the start of the file it has open, over what others
\* have put there meanwhile.
WriteText ==
  /\ pc = "write"
  /\ \/ /\ Put(IF linked THEN <<cmd.text>> \o SubSeq(disk[cmd.path], 2, Len(disk[cmd.path]))
               ELSE disk[cmd.path])
        /\ Answer("OK")
     \/ Answer("IO_ERROR") /\ UNCHANGED disk
  /\ UNCHANGED <<linked, programVars, commandVars, othersVars, exits>>

OpenAppend ==
  /\ pc = "openAppend"
  /\ \/ /\ disk[cmd.path] # NoDir
        /\ Put(IF Exists(cmd.path) THEN disk[cmd.path] ELSE <<>>)
        /\ linked' = TRUE /\ pc' = "append" /\ UNCHANGED code
     \/ Answer("IO_ERROR") /\ UNCHANGED fileVars
  /\ UNCHANGED <<programVars, commandVars, othersVars, exits>>

AppendText ==
  /\ pc = "append"
  /\ \/ /\ Put(IF linked THEN Append(disk[cmd.path], cmd.text) ELSE disk[cmd.path])
        /\ Answer("OK")
     \/ Answer("IO_ERROR") /\ UNCHANGED disk
  /\ UNCHANGED <<linked, programVars, commandVars, othersVars, exits>>

\* CombinedOutput returns when the program has ended and nobody has its pipe any more;
\* an expired context is told before everything else.
Return ==
  /\ pc = "run" /\ child # "running" /\ ~ piped
  /\ Answer(IF Expired THEN "TIMEOUT" ELSE IF child = "ok" THEN "OK" ELSE "FAILED")
  /\ UNCHANGED <<fileVars, programVars, commandVars, othersVars, exits>>

\* exec.CommandContext kills the child, not its descendants.
Kill ==
  /\ pc = "run" /\ child = "running" /\ Expired /\ child' = "killed"
  /\ UNCHANGED <<fileVars, piped, left, commandVars, othersVars, pc, code, exits>>

Tick ==
  /\ pc = "run" /\ cmd.op \in Timed /\ left > 0 /\ left' = left - 1
  /\ UNCHANGED <<fileVars, child, piped, commandVars, othersVars, pc, code, exits>>

-------------------------------------------------------------------------------
(* The programs.                                                              *)

\* git apply changes all the files of the diff, or none when one does not fit.  What
\* the other programs do to the tree is among what Others do.
Fits == \A f \in cmd.changes : disk[f] = <<cmd.from>>
Applied == [f \in Files |-> IF f \in cmd.changes THEN <<cmd.text>> ELSE disk[f]]

ChildExits ==
  /\ pc = "run" /\ child = "running" /\ child' \in {"ok", "failed"}
  /\ IF cmd.op = "patch" /\ child' = "ok" THEN Fits /\ disk' = Applied ELSE UNCHANGED disk
  /\ UNCHANGED <<linked, piped, left, commandVars, othersVars, pc, code, exits>>

Fork ==
  /\ pc = "run" /\ child = "running" /\ cmd.op # "patch" /\ piped' = TRUE
  /\ UNCHANGED <<fileVars, child, left, commandVars, othersVars, pc, code, exits>>

\* The last descendant that has the pipe ends, or closes it and lives on.
LeavePipe ==
  /\ piped /\ piped' = FALSE
  /\ UNCHANGED <<fileVars, child, left, commandVars, othersVars, pc, code, exits>>

-------------------------------------------------------------------------------
(* Everybody else, and the end of the daemon.                                 *)

Touch(f, how) ==
  /\ touches < MaxTouches /\ touches' = touches + 1
  /\ touched' = [touched EXCEPT ![f] = IF @ = "removed" THEN @ ELSE how]
  /\ UNCHANGED <<programVars, commandVars, pc, code, exits>>

Save(f) ==
  /\ Touch(f, "saved") /\ disk' = [disk EXCEPT ![f] = <<Foreign>>]
  /\ UNCHANGED linked

Remove(f) ==
  /\ Exists(f) /\ Touch(f, "removed")
  /\ \E nothing \in {NoDir, Absent} : disk' = [disk EXCEPT ![f] = nothing]
  /\ linked' = (linked /\ f # cmd.path)

\* os.Exit, between any two calls; the programs become somebody else's.
Exit ==
  /\ exits < MaxExits /\ exits' = exits + 1
  /\ Answer("EXITED")
  /\ child' = "none" /\ piped' = FALSE
  /\ UNCHANGED <<fileVars, left, commandVars, othersVars>>

Write == Stat \/ MkdirAll \/ Truncate \/ WriteText \/ OpenAppend \/ AppendText
Next == \/ \E c \in Commands : Start(c)
        \/ Write \/ Return \/ Kill \/ Tick
        \/ ChildExits \/ Fork \/ LeavePipe
        \/ \E f \in Files : Save(f) \/ Remove(f)
        \/ Exit

SafeSpec == Init /\ [][Next]_vars

\* The daemon, its timers and the kill go on.  Nothing makes a program end, or a
\* descendant of it let go of the pipe: the code has no means against one that does not
\* (WaitDelay is not set).
Spec == /\ SafeSpec
        /\ WF_vars(Write) /\ WF_vars(Return) /\ WF_vars(Kill) /\ WF_vars(Tick)

-------------------------------------------------------------------------------
(* Properties.                                                                *)

\* A write in mode create changes no file that was there when the command began and
\* that nobody has removed since: Stat sees it (write.go:43).  A file that appears
\* after Stat has no such promise.
CreateSparesOld ==
  [][Write /\ cmd.mode = "create"
       => \A f \in Files : old[f] \notin {NoDir, Absent} /\ touched[f] # "removed"
            => disk'[f] = disk[f]]_vars

\* An answer OK tells the truth: a file that nobody else has touched holds what the
\* command asked for, whichever steps the operation takes.
WrittenIsThere ==
  pc = "idle" /\ code = "OK" =>
    /\ cmd.op = "write" /\ touched[cmd.path] = "no"
         => disk[cmd.path] = CASE cmd.mode = "append" /\ old[cmd.path] # Absent
                                   -> Append(old[cmd.path], cmd.text)
                               [] OTHER -> <<cmd.text>>
    /\ \A f \in cmd.changes : touched[f] = "no" => disk[f] = <<cmd.text>>

\* A command that is refused, previewed, or a patch that fails leaves no trace: not a
\* changed file, not even a new directory.
RefusedLeavesNoTrace ==
  pc = "idle" /\ (code \in Refusals \/ (cmd.op = "patch" /\ code = "FAILED"))
    => \A f \in Files : touched[f] = "no" => disk[f] = old[f]

\* What is said of a program is what happened to it.  When the answer is out it has
\* ended and none of its descendants can add to the output that was reported, so the
\* next command of the pipeline does not start beside them; it is OK only if the
\* program ended well by itself before its time was over, and TIMEOUT whenever it was
\* killed.
ProgramToldTruly ==
  pc = "idle" =>
    /\ child # "running" /\ ~ piped
    /\ code = "OK" /\ cmd.op # "write" => child = "ok" /\ ~ Expired
    /\ child = "killed" => code = "TIMEOUT"

\* Every command but git and patch ends, even if its program does not, with one
\* exception: the program has ended or was killed at its limit, and a descendant that
\* nobody kills has the pipe for ever.  CombinedOutput then waits as long (README.md calls
\* the operations "python3 avec timeout sandboxé" and "go build/test/vet/fmt ... timeout").
TimedCommandsEnd ==
  pc # "idle" /\ cmd.op \notin {"git", "patch"}
    ~> pc = "idle" \/ [](child # "running" /\ piped)
===============================================================================
