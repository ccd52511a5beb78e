------------------------------- MODULE HitlGate -------------------------------
(***************************************************************************)
(* The approval gate of the dispatcher: Dispatcher.Dispatch up to the call   *)
(* of execute, hitl.Manager (Submit, Approve, Reject, TimeoutSecs, Wait), the *)
(* HTTP handlers /api/approve/ and /api/reject/, and the auto-reject timers.  *)
(*                                                                           *)
(* Three kinds of goroutine share the manager's state.  The dispatcher takes  *)
(* one command at a time (the watcher runs one batch at a time).  Each POST   *)
(* to one of the handlers has a goroutine.  The goroutine that time.AfterFunc *)
(* starts for a command is named by that command.  Approve and Reject are the *)
(* same code but for the decision they send, so POSTs and timers are Callers  *)
(* that load, stop, delete and send; other goroutines may run in between.     *)
(***************************************************************************)
EXTENDS Naturals

CONSTANTS Cmds,             \* the commands handed to Dispatch, each once
          Ids, IdOf,        \* the id field of a command, defaulted when empty
          OpNames, OpOf,    \* its op field
          DryRun,           \* the commands with dry_run set
          AllowedOps,       \* the operations isAllowed lists
          RequireApproval,  \* cfg.HITL.RequireApproval
          AutoRejects,      \* the values of cfg.HITL.AutoReject to consider
          Timeout,          \* cfg.HITL.Timeout in seconds
          Posts,            \* the POSTs the users send
          NoCmd             \* no command

ASSUME NamesAssumption == NoCmd \notin Cmds /\ Posts \cap Cmds = {}
ASSUME IdAssumption == IdOf \in [Cmds -> Ids]
ASSUME OpAssumption == OpOf \in [Cmds -> OpNames]
ASSUME ConfigAssumption == AutoRejects \subseteq BOOLEAN /\ Timeout \in Nat

VARIABLES autoReject, \* cfg.HITL.AutoReject, as the daemon read it at its start
          pc,       \* where Dispatch is with a command
          verdict,  \* the Decision that Wait returned for it
          secs,     \* the seconds its form shows before auto-reject
          pending,  \* Manager.pending: the command stored under an id
          decision, \* the content of PendingOp.Decision, a channel of capacity 1
          timer,    \* the runtime timer of a command
          timerSet, \* whether PendingOp.timer holds it
          at,       \* where a caller is in Approve or Reject
          form,     \* the command on whose form it was clicked, or whose timer it is
          wants,    \* the decision it carries
          loaded    \* the PendingOp it loaded

dispatchVars == <<pc, verdict, secs>>
managerVars == <<pending, decision, timer, timerSet>>
callerVars == <<at, form, wants, loaded>>
gateVars == <<dispatchVars, managerVars, callerVars>>
vars == <<autoReject, gateVars>>

Callers == Posts \cup Cmds
Verdicts == {"approve", "reject"}

Requires(op) == op \in RequireApproval

\* The command passes the allow list and must be approved before it runs.
Gated(c) == OpOf[c] \in AllowedOps /\ Requires(OpOf[c]) /\ c \notin DryRun

Asked == {c \in Cmds : Gated(c)}

Blocked == {"stored", "armed", "waiting"}
Closed == {"executed", "rejected", "unknown"}

TypeOK ==
  /\ autoReject \in BOOLEAN
  /\ pc \in [Cmds -> {"new", "announced", "answered", "run"} \cup Blocked \cup Closed]
  /\ verdict \in [Cmds -> Verdicts \cup {"none"}]
  /\ secs \in [Cmds -> Nat]
  /\ pending \in [Ids -> Cmds \cup {NoCmd}]
  /\ decision \in [Cmds -> Verdicts \cup {"none"}]
  /\ timer \in [Cmds -> {"off", "ticking", "stopped", "fired"}]
  /\ timerSet \in [Cmds -> BOOLEAN]
  /\ at \in [Callers -> {"idle", "load", "stop", "delete", "send", "done"}]
  /\ form \in [Callers -> Cmds \cup {NoCmd}]
  /\ wants \in [Callers -> Verdicts]
  /\ loaded \in [Callers -> Cmds \cup {NoCmd}]
  /\ \A x \in Callers : at[x] # "idle" => form[x] \in Cmds

Init ==
  /\ autoReject \in AutoRejects
  /\ pc = [c \in Cmds |-> "new"]
  /\ verdict = [c \in Cmds |-> "none"]
  /\ secs = [c \in Cmds |-> 0]
  /\ pending = [i \in Ids |-> NoCmd]
  /\ decision = [c \in Cmds |-> "none"]
  /\ timer = [c \in Cmds |-> "off"]
  /\ timerSet = [c \in Cmds |-> FALSE]
  /\ at = [x \in Callers |-> "idle"]
  /\ form = [x \in Callers |-> NoCmd]
  /\ wants = [x \in Callers |-> "reject"]
  /\ loaded = [x \in Callers |-> NoCmd]

Goto(c, label) == pc' = [pc EXCEPT ![c] = label]
Idle == \A d \in Cmds : pc[d] \in {"new"} \cup Closed

-------------------------------------------------------------------------------
(* Slips a maintainer could make.  No specification uses them; each is there   *)
(* for a property to notice.                                                   *)

\* A third outcome for an operation whose timer has fired.
PutTimeout(p, v) ==
  decision' = [decision EXCEPT ![p] = IF timer[p] = "fired" THEN "timeout" ELSE v]

\* The operation runs whatever the decision was.
ConcludeUntested(c) ==
  /\ pc[c] = "answered" /\ Goto(c, "run")
  /\ UNCHANGED <<verdict, secs, managerVars, callerVars>>

\* A caller that finds the timer fired leaves the answer to the timer.
DeleteAndYield(x) ==
  /\ at[x] = "delete"
  /\ pending' = [pending EXCEPT ![IdOf[form[x]]] = NoCmd]
  /\ at' = [at EXCEPT ![x] = IF timer[loaded[x]] = "fired" THEN "done" ELSE "send"]
  /\ UNCHANGED <<form, wants, loaded, decision, timer, timerSet, dispatchVars>>

\* A caller that finds no timer takes the operation for expired.
StopRequired(x) ==
  /\ at[x] = "stop"
  /\ LET p == loaded[x] IN
       /\ timer' = IF timer[p] = "ticking" THEN [timer EXCEPT ![p] = "stopped"] ELSE timer
       /\ at' = [at EXCEPT ![x] = IF timerSet[p] THEN "delete" ELSE "done"]
  /\ UNCHANGED <<form, wants, loaded, pending, decision, timerSet, dispatchVars>>

\* The answered operation stays in the map.
DeleteNothing(x) ==
  /\ at[x] = "delete"
  /\ at' = [at EXCEPT ![x] = "send"]
  /\ UNCHANGED <<form, wants, loaded, managerVars, dispatchVars>>

-------------------------------------------------------------------------------
(* The dispatcher goroutine.                                                  *)

Refuse(c) ==
  /\ Idle /\ pc[c] = "new"
  /\ OpOf[c] \notin AllowedOps
  /\ Goto(c, "unknown")
  /\ UNCHANGED <<verdict, secs, managerVars, callerVars>>

Bypass(c) ==
  /\ Idle /\ pc[c] = "new"
  /\ OpOf[c] \in AllowedOps /\ ~ Gated(c)
  /\ Goto(c, "run")
  /\ UNCHANGED <<verdict, secs, managerVars, callerVars>>

TimeoutSecs(id) == IF pending[id] = NoCmd THEN 0 ELSE Timeout

\* BroadcastHITL puts the form of c on the screen of the connected clients.
Announce(c) ==
  /\ Idle /\ pc[c] = "new" /\ Gated(c)
  /\ secs' = [secs EXCEPT ![c] = TimeoutSecs(IdOf[c])]
  /\ Goto(c, "announced")
  /\ UNCHANGED <<verdict, managerVars, callerVars>>

\* Submit stores the operation, overwriting what the id held ...
SubmitStore(c) ==
  /\ pc[c] = "announced"
  /\ pending' = [pending EXCEPT ![IdOf[c]] = c]
  /\ Goto(c, IF autoReject THEN "stored" ELSE "waiting")
  /\ UNCHANGED <<verdict, secs, decision, timer, timerSet, callerVars>>

\* ... then starts the timer ...
SubmitArm(c) ==
  /\ pc[c] = "stored"
  /\ timer' = [timer EXCEPT ![c] = "ticking"]
  /\ Goto(c, "armed")
  /\ UNCHANGED <<verdict, secs, pending, decision, timerSet, callerVars>>

\* ... and only then writes the field p.timer, which the callers read unlocked.
SubmitAssign(c) ==
  /\ pc[c] = "armed"
  /\ timerSet' = [timerSet EXCEPT ![c] = TRUE]
  /\ Goto(c, "waiting")
  /\ UNCHANGED <<verdict, secs, pending, decision, timer, callerVars>>

Wait(c) ==
  /\ pc[c] = "waiting" /\ decision[c] # "none"
  /\ verdict' = [verdict EXCEPT ![c] = decision[c]]
  /\ decision' = [decision EXCEPT ![c] = "none"]
  /\ Goto(c, "answered")
  /\ UNCHANGED <<secs, pending, timer, timerSet, callerVars>>

\* BroadcastHITLClear and the test of decision.Approved.
Conclude(c) ==
  /\ pc[c] = "answered"
  /\ Goto(c, IF verdict[c] = "approve" THEN "run" ELSE "rejected")
  /\ UNCHANGED <<verdict, secs, managerVars, callerVars>>

Execute(c) ==
  /\ pc[c] = "run" /\ Goto(c, "executed")
  /\ UNCHANGED <<verdict, secs, managerVars, callerVars>>

Proceed(c) == \/ SubmitStore(c) \/ SubmitArm(c) \/ SubmitAssign(c)
              \/ Wait(c) \/ Conclude(c) \/ Execute(c)
Dispatch(c) == Refuse(c) \/ Bypass(c) \/ Announce(c) \/ Proceed(c)

-------------------------------------------------------------------------------
(* The callers of Approve and Reject.                                         *)

\* A user presses a button of the form of c.  Forms outlive their command: the
\* panel of a second tab, or of a client that lost the clear event, stays.
Click(h, c, v) ==
  /\ at[h] = "idle"
  /\ pc[c] # "new" /\ Gated(c)
  /\ at' = [at EXCEPT ![h] = "load"]
  /\ form' = [form EXCEPT ![h] = c]
  /\ wants' = [wants EXCEPT ![h] = v]
  /\ UNCHANGED <<loaded, dispatchVars, managerVars>>

\* The timer of c expires: its function calls Reject in a new goroutine.
Expire(c) ==
  /\ timer[c] = "ticking"
  /\ timer' = [timer EXCEPT ![c] = "fired"]
  /\ at' = [at EXCEPT ![c] = "load"]
  /\ form' = [form EXCEPT ![c] = c]
  /\ UNCHANGED <<wants, loaded, pending, decision, timerSet, dispatchVars>>

LoadMiss(x) ==
  /\ at[x] = "load" /\ pending[IdOf[form[x]]] = NoCmd
  /\ at' = [at EXCEPT ![x] = "done"]
  /\ UNCHANGED <<form, wants, loaded, dispatchVars, managerVars>>

LoadHit(x) ==
  /\ at[x] = "load" /\ pending[IdOf[form[x]]] # NoCmd
  /\ loaded' = [loaded EXCEPT ![x] = pending[IdOf[form[x]]]]
  /\ at' = [at EXCEPT ![x] = "stop"]
  /\ UNCHANGED <<form, wants, dispatchVars, managerVars>>

\* p.timer.Stop() when the field is set; no effect on a timer that has fired.
StopTimer(x) ==
  /\ at[x] = "stop"
  /\ LET p == loaded[x] IN
       timer' = IF timerSet[p] /\ timer[p] = "ticking"
                  THEN [timer EXCEPT ![p] = "stopped"] ELSE timer
  /\ at' = [at EXCEPT ![x] = "delete"]
  /\ UNCHANGED <<form, wants, loaded, pending, decision, timerSet, dispatchVars>>

\* Delete removes whatever the id holds now, not what was loaded.
DeletePending(x) ==
  /\ at[x] = "delete"
  /\ pending' = [pending EXCEPT ![IdOf[form[x]]] = NoCmd]
  /\ at' = [at EXCEPT ![x] = "send"]
  /\ UNCHANGED <<form, wants, loaded, decision, timer, timerSet, dispatchVars>>

\* The send is dropped when the channel is full.
Put(p, v) == decision' = IF decision[p] = "none" THEN [decision EXCEPT ![p] = v]
                                                  ELSE decision

\* The send; Approve or Reject return true and a POST's handler logs what it wanted.
Send(x) ==
  /\ at[x] = "send"
  /\ Put(loaded[x], wants[x])
  /\ at' = [at EXCEPT ![x] = "done"]
  /\ UNCHANGED <<form, wants, loaded, pending, timer, timerSet, dispatchVars>>

CallStep(x) == LoadMiss(x) \/ LoadHit(x) \/ StopTimer(x) \/ DeletePending(x) \/ Send(x)

-------------------------------------------------------------------------------
Next == /\ UNCHANGED autoReject
        /\ \/ \E c \in Cmds : Dispatch(c) \/ Expire(c)
           \/ \E h \in Posts, c \in Cmds, v \in Verdicts : Click(h, c, v)
           \/ \E x \in Callers : CallStep(x)

SafeSpec == Init /\ [][Next]_vars

\* The Go scheduler runs every runnable goroutine and a timer that is not
\* stopped expires.  Nobody is obliged to click, or to hand over a command.
Fairness == /\ \A c \in Cmds : WF_gateVars(Proceed(c)) /\ WF_gateVars(Expire(c))
            /\ \A x \in Callers : WF_gateVars(CallStep(x))

Spec == SafeSpec /\ Fairness

-------------------------------------------------------------------------------
(* Properties.                                                                *)

\* Every id that reaches the gate belongs to one command.
UniqueIds == \A c, d \in Cmds : Gated(c) /\ Gated(d) /\ IdOf[c] = IdOf[d] => c = d

\* Some user pressed button v of the form of c.
Clicked(c, v) == \E h \in Posts : at[h] # "idle" /\ form[h] = c /\ wants[h] = v

\* The UI log says that a user's decision v about c was taken.
Logged(c, v) == \E h \in Posts : at[h] = "done" /\ loaded[h] = c /\ wants[h] = v

Sending(x, c) == at[x] \in {"stop", "delete", "send"} /\ loaded[x] = c

\* An operation that needs approval runs only if the user clicked Autoriser on
\* its own form: no interleaving of Approve, Reject and the timers with the next
\* operation lets an answer to another form through (dispatch.go, the HITL gate).
ExecutedWasApproved ==
  \A c \in Cmds : Gated(c) /\ pc[c] \in {"run", "executed"} => Clicked(c, "approve")

\* An operation is turned down only because the user clicked Rejeter on its form
\* or because its own timer fired, never by an answer left over from another one.
RejectionHasCause ==
  \A c \in Cmds : verdict[c] = "reject" => Clicked(c, "reject") \/ timer[c] = "fired"

\* While Dispatch is blocked on an operation whose channel is empty, either the
\* map still leads to it or a caller that found it is on its way to the send:
\* Load, Delete and send being separate, none of them strands the dispatcher.
Answerable ==
  \A c \in Cmds : pc[c] \in Blocked /\ decision[c] = "none"
                    => pending[IdOf[c]] = c \/ \E x \in Callers : Sending(x, c)

\* Once Wait has returned nothing in the map leads to the operation any more, so
\* late clicks and late timers find nothing, and the UI is told they did nothing.
AnsweredLeavesNoEntry ==
  \A i \in Ids : pending[i] # NoCmd => pc[pending[i]] \in Blocked

\* The two together: the map of the gate leads to the operations that wait for an
\* answer, but for one whose answer is on its way, and to no other.
MapHoldsTheWaiting == Answerable /\ AnsweredLeavesNoEntry

\* Even when commands reuse an id, an operation runs only after an Autoriser click
\* on a form with that id, and is turned down only by a Rejeter click on such a
\* form or by the timer of a command with that id.
CauseUnderItsId ==
  \A c \in Cmds :
    LET Same == {d \in Cmds : Gated(d) /\ IdOf[d] = IdOf[c]} IN
    /\ Gated(c) /\ pc[c] \in {"run", "executed"} => \E d \in Same : Clicked(d, "approve")
    /\ verdict[c] = "reject" => \E d \in Same : Clicked(d, "reject") \/ timer[d] = "fired"

\* With AutoReject set, every operation whose form was shown is eventually executed
\* or rejected, even if nobody clicks and however clicks race with the timer.
GateResolves == \A c \in Asked : autoReject /\ pc[c] = "announced" ~> pc[c] \in Closed

\* A click that arrives while the dispatcher waits, of either button and however many
\* others race with it, brings the operation to an end, without AutoReject too.
ClickSettles ==
  \A h \in Posts, c \in Asked :
    pc[c] = "waiting" /\ at[h] = "load" /\ form[h] = c ~> pc[c] \in Closed

\* What the specification Approval calls the stage of a command: it is settled the
\* moment the first decision enters its channel.
Settled(c) == IF verdict[c] # "none" THEN verdict[c] ELSE decision[c]
Stage(c) == CASE pc[c] = "new" -> "new"
              [] pc[c] = "executed" -> "executed"
              [] pc[c] = "rejected" -> "refused"
              [] OTHER -> CASE Settled(c) = "approve" -> "approved"
                            [] Settled(c) = "reject" -> "rejected"
                            [] OTHER -> "asking"

Gate == INSTANCE Approval WITH
          stage <- [c \in Asked |-> Stage(c)],
          consent <- {c \in Asked : Clicked(c, "approve")}

\* The goroutines, the map, the channels and the timers together behave as the gate
\* of Approval: one question at a time, settled once, executed only on consent.
RefinesGate == Gate!Spec

-------------------------------------------------------------------------------
(* What the documentation says and the code does not do.                      *)

\* The form of an operation that will be auto-rejected says after how long
\* (README.md, "Auto-reject dans 30s").
FormShowsTimeout == \A c \in Cmds : pc[c] = "waiting" => secs[c] = Timeout

\* The log "Opération autorisée par l'utilisateur" is about an operation that is
\* not rejected (handleApprove logs whenever Approve returns true).
LogTellsTheOutcome == \A c \in Cmds : Logged(c, "approve") => verdict[c] # "reject"
===============================================================================
