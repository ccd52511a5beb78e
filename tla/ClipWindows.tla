----------------------------- MODULE ClipWindows -----------------------------
(***************************************************************************)
(* The clipboard of Windows (clip/clip_windows.go): the goroutine of Watch,    *)
(* which listens to WM_CLIPBOARDUPDATE or, when it cannot, polls; the calls of  *)
(* Write, by the watcher and by the quick commands; and the other programs.     *)
(*                                                                           *)
(* One program at a time has the clipboard open.  Write and the poller also    *)
(* take the mutex mu; the window procedure does not.                          *)
(***************************************************************************)
EXTENDS Naturals, Sequences

CONSTANTS Copies,      \* the texts a user may copy
          Writers,     \* the calls of Write
          Answer,      \* the text of each of them
          Size,        \* the length of a text, in UTF-16 units
          Limit,       \* the 1 << 20 of the array the memory is seen as
          Empty,       \* no text on the clipboard, and the empty string
          Nobody, Reader, Other,    \* who has the clipboard open, besides the Writers
          ChannelSize, \* 16 in the code
          MaxCopies, MaxOpens       \* bounds

Texts == Copies \cup {Answer[w] : w \in Writers}

ASSUME TextAssumption == /\ Answer \in [Writers -> Texts] /\ Empty \notin Texts
                         /\ Size \in [Texts -> Nat \ {0}] /\ Limit \in Nat \ {0}
ASSUME ActorAssumption == /\ Nobody # Reader /\ Nobody # Other /\ Reader # Other
                          /\ {Nobody, Reader, Other} \cap Writers = {}
ASSUME BoundAssumption == {MaxCopies, MaxOpens} \subseteq Nat /\ ChannelSize \in Nat \ {0}

VARIABLES text,       \* the clipboard
          owner,      \* who has it open
          mode,       \* what the goroutine of Watch does: listen or poll
          at,         \* its next call
          got,        \* the text it has read
          last,       \* last of fallbackPoll
          queue,      \* the messages for its window
          channel,    \* what the watcher has not taken yet
          mu,         \* the mutex
          pc,         \* the next call of a Write
          cancelled,  \* ctx
          crashed,    \* index out of range
          offered,    \* history: the last text sent, or dropped, by the goroutine
          excused,    \* history: why the present text may be missing
          copies, opens   \* counters for the bounds

clipboardVars == <<text, owner>>
watchVars == <<mode, at, got, last, offered>>
boundVars == <<copies, opens>>
vars == <<clipboardVars, watchVars, queue, channel, mu, pc, cancelled, crashed, excused,
          boundVars>>

TypeOK ==
  /\ text \in Texts \cup {Empty} /\ got \in Texts \cup {Empty}
  /\ last \in Texts \cup {Empty} /\ offered \in Texts \cup {Empty}
  /\ owner \in Writers \cup {Nobody, Reader, Other}
  /\ mu \in Writers \cup {Nobody, Reader}
  /\ mode \in {"starting", "listen", "poll", "closed"}
  /\ at \in {"idle", "open", "read", "send"}
  /\ pc \in [Writers -> {"idle", "open", "empty", "set", "close", "ok", "error"}]
  /\ queue \in Seq({"update", "quit"})
  /\ channel \in Seq(Texts \cup {Empty}) /\ Len(channel) <= ChannelSize
  /\ {cancelled, crashed} \subseteq BOOLEAN
  /\ excused \subseteq {"early", "dropped", "contended", "failed"}
  /\ \A w \in Writers : pc[w] \in {"empty", "set", "close"} <=> owner = w

Init ==
  /\ text \in Copies \cup {Empty}
  /\ owner = Nobody /\ mu = Nobody
  /\ mode = "starting" /\ at = "idle" /\ got = Empty /\ last = Empty /\ offered = Empty
  /\ queue = <<>> /\ channel = <<>>
  /\ pc = [w \in Writers |-> "idle"]
  /\ cancelled = FALSE /\ crashed = FALSE
  /\ excused = {"early"}
  /\ copies = 0 /\ opens = 0

\* What Windows does when the clipboard has changed; before the listener, nothing.
Notified == IF mode = "listen" THEN Append(queue, "update") ELSE queue
Fresh == IF mode = "starting" THEN {"early"} ELSE {}
Goto(w, from, to) == pc[w] = from /\ pc' = [pc EXCEPT ![w] = to]

-------------------------------------------------------------------------------
(* Slips a maintainer could make; no specification uses them.                  *)

\* The window procedure leaves a message alone while a Write runs.
BeginUnlessWriting ==
  /\ at = "idle" /\ mode = "listen" /\ queue # <<>> /\ Head(queue) = "update"
  /\ queue' = Tail(queue) /\ at' = IF mu = Nobody THEN "open" ELSE "idle"
  /\ UNCHANGED <<clipboardVars, mode, got, last, offered, channel, mu, pc, cancelled,
                 crashed, excused, boundVars>>

\* Write returns without closing the clipboard when SetClipboardData fails.
SetNotClosing(w) ==
  /\ \/ Goto(w, "set", "close") /\ text' = Answer[w] /\ UNCHANGED <<owner, mu>>
     \/ Goto(w, "set", "error") /\ mu' = Nobody /\ UNCHANGED <<text, owner>>
  /\ UNCHANGED <<watchVars, queue, channel, cancelled, crashed, excused, boundVars>>

\* WM_QUIT is not posted.
CancelQuietly ==
  /\ ~ cancelled /\ cancelled' = TRUE
  /\ UNCHANGED <<clipboardVars, watchVars, queue, channel, mu, pc, crashed, excused, boundVars>>

\* The mutex is not waited for.
EnterUnlocked(w) ==
  /\ Goto(w, "idle", "open") /\ mu' = w
  /\ UNCHANGED <<clipboardVars, watchVars, queue, channel, cancelled, crashed, excused, boundVars>>

-------------------------------------------------------------------------------
(* Watch: runMessageLoop, and fallbackPoll when the window or the listener fails. *)

StartWatch ==
  /\ mode = "starting" /\ mode' \in {"listen", "poll"}
  /\ queue' = IF mode' = "listen" /\ cancelled THEN <<"quit">> ELSE <<>>
  /\ UNCHANGED <<clipboardVars, at, got, last, offered, channel, mu, pc, cancelled, crashed,
                 excused, boundVars>>

\* GetMessageW, and DispatchMessageW calls the window procedure.
TakeMessage ==
  /\ at = "idle" /\ mode = "listen" /\ queue # <<>> /\ Head(queue) = "update"
  /\ queue' = Tail(queue) /\ at' = "open"
  /\ UNCHANGED <<clipboardVars, mode, got, last, offered, channel, mu, pc, cancelled,
                 crashed, excused, boundVars>>

\* The ticker of fallbackPoll calls Read, which takes the mutex.
Poll ==
  /\ at = "idle" /\ mode = "poll" /\ mu = Nobody /\ mu' = Reader /\ at' = "open"
  /\ UNCHANGED <<clipboardVars, mode, got, last, offered, queue, channel, pc, cancelled,
                 crashed, excused, boundVars>>

\* A message whose OpenClipboard fails is lost.  A program that keeps the clipboard
\* from the goroutine is an excuse only if it is not the daemon.
OpenToRead ==
  /\ at = "open"
  /\ \/ owner = Nobody /\ owner' = Reader /\ at' = "read" /\ UNCHANGED <<mu, excused>>
     \/ /\ owner # Nobody /\ at' = "idle" /\ UNCHANGED owner
        /\ mu' = IF mu = Reader THEN Nobody ELSE mu
        /\ excused' = IF owner = Other THEN excused \cup {"contended"} ELSE excused
  /\ UNCHANGED <<text, mode, got, last, offered, queue, channel, pc, cancelled,
                 crashed, boundVars>>

\* GetClipboardData to CloseClipboard: nobody else can change the text meanwhile.  The
\* end of the text is looked for in an array of Limit units.  Without a text the
\* window procedure sends nothing, and the poller the empty string.
ReadAndClose ==
  /\ at = "read" /\ owner' = Nobody
  /\ mu' = IF mu = Reader THEN Nobody ELSE mu
  /\ \/ /\ text # Empty /\ Size[text] >= Limit /\ crashed' = TRUE
        /\ UNCHANGED <<at, got, last, excused>>
     \/ /\ text # Empty /\ Size[text] < Limit /\ UNCHANGED <<crashed, excused>>
        /\ got' = text
        /\ at' = IF mode = "listen" \/ text # last THEN "send" ELSE "idle"
        /\ last' = IF mode = "poll" THEN text ELSE last
     \/ /\ excused' = excused \cup {"failed"} /\ UNCHANGED crashed   \* GetClipboardData is 0
        /\ got' = Empty
        /\ at' = IF mode = "poll" /\ last # Empty THEN "send" ELSE "idle"
        /\ last' = IF mode = "poll" THEN Empty ELSE last
     \/ /\ text # Empty /\ excused' = excused \cup {"failed"}        \* GlobalLock is 0
        /\ at' = "idle" /\ UNCHANGED <<got, last, crashed>>
  /\ UNCHANGED <<text, mode, offered, queue, channel, pc, cancelled, boundVars>>

\* A full channel drops the text; the poller has noted it as the last one already.
Send ==
  /\ at = "send" /\ at' = "idle" /\ offered' = got
  /\ \/ Len(channel) < ChannelSize /\ channel' = Append(channel, got) /\ UNCHANGED excused
     \/ /\ Len(channel) = ChannelSize /\ UNCHANGED channel
        /\ excused' = excused \cup {"dropped"}
  /\ UNCHANGED <<clipboardVars, mode, got, last, queue, mu, pc, cancelled, crashed, boundVars>>

Consume ==
  /\ channel # <<>> /\ channel' = Tail(channel)
  /\ UNCHANGED <<clipboardVars, watchVars, queue, mu, pc, cancelled, crashed, excused, boundVars>>

\* ctx is done: the goroutine beside the loop posts WM_QUIT.
Cancel ==
  /\ ~ cancelled /\ cancelled' = TRUE
  /\ queue' = IF mode = "listen" THEN Append(queue, "quit") ELSE queue
  /\ UNCHANGED <<clipboardVars, watchVars, channel, mu, pc, crashed, excused, boundVars>>

\* WM_QUIT ends the loop; the poller sees ctx.Done in its select.
EndWatch ==
  /\ at = "idle" /\ mode' = "closed" /\ queue' = <<>>
  /\ \/ mode = "listen" /\ queue # <<>> /\ Head(queue) = "quit"
     \/ mode = "poll" /\ cancelled
  /\ UNCHANGED <<clipboardVars, at, got, last, offered, channel, mu, pc, cancelled, crashed,
                 excused, boundVars>>

-------------------------------------------------------------------------------
(* Write.                                                                     *)

LockToWrite(w) ==
  /\ Goto(w, "idle", "open") /\ mu = Nobody /\ mu' = w
  /\ UNCHANGED <<clipboardVars, watchVars, queue, channel, cancelled, crashed, excused, boundVars>>

OpenToWrite(w) ==
  /\ IF owner = Nobody THEN Goto(w, "open", "empty") /\ owner' = w /\ UNCHANGED mu
     ELSE Goto(w, "open", "error") /\ mu' = Nobody /\ UNCHANGED owner
  /\ UNCHANGED <<text, watchVars, queue, channel, cancelled, crashed, excused, boundVars>>

\* From here on the text of the user is gone, whatever fails.  When this call fails
\* nothing has changed and no message will come.
EmptyClipboard(w) ==
  /\ \/ /\ Goto(w, "empty", "set") /\ text' = Empty
        /\ UNCHANGED <<owner, mu, excused>>
     \/ /\ Goto(w, "empty", "error") /\ owner' = Nobody /\ mu' = Nobody
        /\ excused' = excused \cup {"failed"} /\ UNCHANGED text
  /\ UNCHANGED <<watchVars, queue, channel, cancelled, crashed, boundVars>>

\* GlobalAlloc, GlobalLock, the copy and SetClipboardData, or one of them fails.
SetText(w) ==
  /\ Goto(w, "set", "close")
  /\ text' \in {Answer[w], Empty}
  /\ UNCHANGED <<owner, mu, watchVars, queue, channel, cancelled, crashed, excused,
                 boundVars>>

\* The deferred CloseClipboard and Unlock.
CloseAndUnlock(w) ==
  /\ Goto(w, "close", IF text = Empty THEN "error" ELSE "ok")
  /\ owner' = Nobody /\ mu' = Nobody /\ queue' = Notified /\ excused' = Fresh
  /\ UNCHANGED <<text, watchVars, channel, cancelled, crashed, boundVars>>

Write(w) == \/ LockToWrite(w) \/ OpenToWrite(w) \/ EmptyClipboard(w) \/ SetText(w)
            \/ CloseAndUnlock(w)

-------------------------------------------------------------------------------
(* The other programs.                                                        *)

Copy(t) ==
  /\ owner = Nobody /\ copies < MaxCopies /\ copies' = copies + 1
  /\ text' = t /\ queue' = Notified /\ excused' = Fresh
  /\ UNCHANGED <<owner, watchVars, channel, mu, pc, cancelled, crashed, opens>>

OtherOpens ==
  /\ owner = Nobody /\ opens < MaxOpens /\ opens' = opens + 1 /\ owner' = Other
  /\ UNCHANGED <<text, watchVars, queue, channel, mu, pc, cancelled, crashed, excused,
                 copies>>

OtherCloses ==
  /\ owner = Other /\ owner' = Nobody
  /\ UNCHANGED <<text, watchVars, queue, channel, mu, pc, cancelled, crashed, excused,
                 boundVars>>

Watching == StartWatch \/ TakeMessage \/ Poll \/ OpenToRead \/ ReadAndClose \/ Send
Next ==
  /\ ~ crashed
  /\ \/ Watching \/ EndWatch \/ Consume \/ Cancel
     \/ \E w \in Writers : Write(w)
     \/ \E t \in Copies : Copy(t)
     \/ OtherOpens \/ OtherCloses

SafeSpec == Init /\ [][Next]_vars

\* The threads of the daemon go on, and the select of the poller, which chooses at
\* random, takes ctx.Done at some time.
Spec == /\ SafeSpec
        /\ WF_vars(~ crashed /\ Watching) /\ SF_vars(~ crashed /\ EndWatch)
        /\ \A w \in Writers : WF_vars(~ crashed /\ Write(w))

-------------------------------------------------------------------------------
(* Properties.                                                                *)

\* Nothing is left to be done for the present text.
Quiet == /\ at = "idle" /\ owner = Nobody
         /\ \/ mode = "listen" /\ queue = <<>>
            \/ mode = "poll" /\ last = text

\* The text that stays on the clipboard reaches the watcher: although the window
\* procedure opens the clipboard without the mutex and gives up when a Write has it
\* open, no text is lost to the daemon's own writes.  It is lost only if another
\* program had the clipboard open, if a call of Windows failed, if the channel was
\* full, or if it was there before the listener.
LatestArrives == Quiet /\ text # Empty /\ excused = {} => offered = text

\* The answer of the watcher and a quick command may be written at the same time: the
\* mutex keeps one from failing because of the other.  (The window procedure, which
\* does not take it, can make a Write fail, and nothing tries again.)
WritesDoNotCollide ==
  [][\A w \in Writers : pc[w] = "open" /\ pc'[w] = "error" => owner \notin Writers]_vars

\* The daemon never keeps the clipboard from the other programs for ever.
ClipboardComesBack ==
  \A a \in Writers \cup {Reader} : owner = a ~> owner # a \/ crashed

\* When the context is done the channel is closed and the watcher ends.
WatchEnds == cancelled ~> mode = "closed" \/ crashed
===============================================================================
