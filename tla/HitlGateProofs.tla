---------------------------- MODULE HitlGateProofs ----------------------------
(***************************************************************************)
(* Proofs about HitlGate, for any set of commands, ids and POSTs.  Type      *)
(* correctness needs no premise.  The rest has the premise that no two gated *)
(* commands carry the same id; the runs on shared ids show it is needed.     *)
(***************************************************************************)
EXTENDS HitlGate, TLAPS

USE NamesAssumption, IdAssumption, OpAssumption, ConfigAssumption

\* Every step of the dispatcher, of a caller or of a timer keeps the types.
LEMMA TypeStep == TypeOK /\ [Next]_vars => TypeOK'
<1> SUFFICES ASSUME TypeOK, [Next]_vars PROVE TypeOK'
  OBVIOUS
<1> USE DEF TypeOK, Goto, Verdicts, Blocked, Closed, Callers,
            vars, gateVars, dispatchVars, managerVars, callerVars
<1>0. UNCHANGED autoReject
  BY DEF Next
<1> USE <1>0
<1>1. ASSUME NEW c \in Cmds, Refuse(c) PROVE TypeOK'
  BY <1>1 DEF Refuse
<1>2. ASSUME NEW c \in Cmds, Bypass(c) PROVE TypeOK'
  BY <1>2 DEF Bypass
<1>3. ASSUME NEW c \in Cmds, Announce(c) PROVE TypeOK'
  BY <1>3 DEF Announce, TimeoutSecs
<1>4. ASSUME NEW c \in Cmds, SubmitStore(c) PROVE TypeOK'
  BY <1>4 DEF SubmitStore
<1>5. ASSUME NEW c \in Cmds, SubmitArm(c) PROVE TypeOK'
  BY <1>5 DEF SubmitArm
<1>6. ASSUME NEW c \in Cmds, SubmitAssign(c) PROVE TypeOK'
  BY <1>6 DEF SubmitAssign
<1>7. ASSUME NEW c \in Cmds, Wait(c) PROVE TypeOK'
  BY <1>7 DEF Wait
<1>8. ASSUME NEW c \in Cmds, Conclude(c) PROVE TypeOK'
  BY <1>8 DEF Conclude
<1>9. ASSUME NEW c \in Cmds, Execute(c) PROVE TypeOK'
  BY <1>9 DEF Execute
<1>10. ASSUME NEW c \in Cmds, Expire(c) PROVE TypeOK'
  BY <1>10 DEF Expire
<1>11. ASSUME NEW h \in Posts, NEW c \in Cmds, NEW v \in Verdicts, Click(h, c, v) PROVE TypeOK'
  BY <1>11 DEF Click
<1>12. ASSUME NEW x \in Callers, LoadMiss(x) PROVE TypeOK'
  BY <1>12 DEF LoadMiss
<1>13. ASSUME NEW x \in Callers, LoadHit(x) PROVE TypeOK'
  BY <1>13 DEF LoadHit
<1>14. ASSUME NEW x \in Callers, StopTimer(x) PROVE TypeOK'
  BY <1>14 DEF StopTimer
<1>15. ASSUME NEW x \in Callers, DeletePending(x) PROVE TypeOK'
  BY <1>15 DEF DeletePending
<1>16. ASSUME NEW x \in Callers, Send(x) PROVE TypeOK'
  BY <1>16 DEF Send, Put
<1>17. CASE UNCHANGED vars
  BY <1>17
<1> QED BY <1>1, <1>2, <1>3, <1>4, <1>5, <1>6, <1>7, <1>8, <1>9, <1>10, <1>11, <1>12, <1>13, <1>14, <1>15, <1>16, <1>17
        DEF Next, Dispatch, Proceed, CallStep

\* A manager without operations is well typed.
LEMMA InitTyped == Init => TypeOK
BY DEF Init, TypeOK, Verdicts, Callers

\* Every reachable state of the gate is well typed.
THEOREM TypeCorrect == SafeSpec => []TypeOK
BY InitTyped, TypeStep, PTL DEF SafeSpec

-------------------------------------------------------------------------------
(* The inductive invariant under unique ids.  It says of every place a        *)
(* decision can be in - a caller's hands, the channel, the dispatcher's local  *)
(* variable - that it is there for the right operation and with a cause.      *)

Cause(c, v) == Clicked(c, v) \/ (v = "reject" /\ timer[c] = "fired")

\* The timer of c is started by Submit and not before.
TimerInv == \A c \in Cmds : pc[c] \in {"new", "announced", "stored"} => timer[c] = "off"

\* Only a command that passed the tests of Dispatch is anywhere in the gate.
PassInv ==
  \A c \in Cmds :
    /\ pc[c] \in {"announced", "answered"} \cup Blocked \/ timer[c] # "off" => Gated(c)
    /\ pc[c] = "unknown" => ~ Gated(c)

\* A caller acts on the operation of its own form; what it is about to send to is
\* no longer in the map.
CallerInv ==
  \A x \in Callers :
    /\ at[x] # "idle" => Gated(form[x])
    /\ x \in Cmds => wants[x] = "reject"
    /\ x \in Cmds /\ at[x] # "idle" => form[x] = x /\ timer[x] = "fired"
    /\ at[x] \in {"stop", "delete", "send"}
         => loaded[x] = form[x] /\ pc[form[x]] \notin {"new", "announced"}
    /\ at[x] = "send" => pending[IdOf[form[x]]] = NoCmd

\* The map leads to operations that nobody has answered.
MapInv ==
  \A i \in Ids : pending[i] # NoCmd
    => LET c == pending[i] IN
       IdOf[c] = i /\ Gated(c) /\ pc[c] \in Blocked /\ decision[c] = "none"

\* A decision, in the channel or taken out of it, has a cause; nothing is decided
\* before Submit, and what runs after the gate was approved.
DecisionInv ==
  \A c \in Cmds :
    /\ decision[c] # "none" => Cause(c, decision[c]) /\ pc[c] \notin {"new", "announced"}
    /\ verdict[c] # "none" => Cause(c, verdict[c])
                              /\ pc[c] \in {"answered", "run", "executed", "rejected"}
    /\ Gated(c) /\ pc[c] \in {"run", "executed"} => verdict[c] = "approve"
    /\ pc[c] \in {"answered", "rejected"} => verdict[c] # "none"

IInv == TypeOK /\ TimerInv /\ PassInv /\ CallerInv /\ MapInv /\ DecisionInv /\ Answerable

\* The inductive invariant holds before the first command.
LEMMA InitIInv == Init => IInv
<1> SUFFICES ASSUME Init PROVE IInv
  OBVIOUS
<1>1. TypeOK
  BY InitTyped
<1>2. TimerInv /\ PassInv
  BY DEF Init, TimerInv, PassInv, Blocked
<1>3. CallerInv
  BY DEF Init, CallerInv, Callers
<1>4. MapInv /\ DecisionInv
  BY DEF Init, MapInv, DecisionInv
<1>5. Answerable
  BY DEF Init, Answerable, Blocked
<1> QED BY <1>1, <1>2, <1>3, <1>4, <1>5 DEF IInv

\* A click stays on record, and so does the expiry of a timer.
LEMMA CauseStays ==
  ASSUME TypeOK, TimerInv, [Next]_vars, NEW c \in Cmds, NEW v \in Verdicts, Cause(c, v)
  PROVE  Cause(c, v)'
<1> USE DEF TypeOK, Callers, vars, gateVars, dispatchVars, managerVars, callerVars
<1>1. ASSUME NEW h \in Posts, at[h] # "idle"
      PROVE  at'[h] # "idle" /\ form'[h] = form[h] /\ wants'[h] = wants[h]
  <2>1. CASE \E d \in Cmds : Dispatch(d)
    BY <2>1, <1>1 DEF Dispatch, Proceed, Refuse, Bypass, Announce, SubmitStore, SubmitArm,
                      SubmitAssign, Wait, Conclude, Execute
  <2>2. CASE \E d \in Cmds : Expire(d)
    BY <2>2, <1>1 DEF Expire
  <2>3. CASE \E g \in Posts, d \in Cmds, w \in Verdicts : Click(g, d, w)
    BY <2>3, <1>1 DEF Click
  <2>4. CASE \E x \in Callers : CallStep(x)
    BY <2>4, <1>1 DEF CallStep, LoadMiss, LoadHit, StopTimer, DeletePending, Send
  <2> QED BY <2>1, <2>2, <2>3, <2>4, <1>1 DEF Next
<1>2. timer[c] = "fired" => timer'[c] = "fired"
  <2>1. CASE \E d \in Cmds : Dispatch(d)
    <3>1. ASSUME NEW d \in Cmds, SubmitArm(d) PROVE timer[d] = "off"
      BY <3>1 DEF SubmitArm, TimerInv
    <3> QED BY <2>1, <3>1 DEF Dispatch, Proceed, Refuse, Bypass, Announce, SubmitStore,
                              SubmitArm, SubmitAssign, Wait, Conclude, Execute
  <2>2. CASE \E d \in Cmds : Expire(d)
    BY <2>2 DEF Expire
  <2>3. CASE \E g \in Posts, d \in Cmds, w \in Verdicts : Click(g, d, w)
    BY <2>3 DEF Click
  <2>4. CASE \E x \in Callers : CallStep(x)
    BY <2>4 DEF CallStep, LoadMiss, LoadHit, StopTimer, DeletePending, Send
  <2> QED BY <2>1, <2>2, <2>3, <2>4 DEF Next
<1> QED BY <1>1, <1>2 DEF Cause, Clicked

\* With unique ids no step of Dispatch, Submit, Approve, Reject or a timer breaks it.
LEMMA IInvStep == ASSUME UniqueIds, IInv, [Next]_vars PROVE IInv'
<1>0. TypeOK'
  BY TypeStep DEF IInv
<1>c. \A c \in Cmds, v \in Verdicts : Cause(c, v) => Cause(c, v)'
  BY CauseStays DEF IInv
<1> USE <1>0, <1>c DEF IInv, TypeOK, Goto, Blocked, Closed, Callers, Verdicts,
            vars, gateVars, dispatchVars, managerVars, callerVars
<1>1. ASSUME NEW c \in Cmds, Refuse(c) PROVE IInv'
  <2>1. TimerInv' /\ PassInv'
    BY <1>1 DEF Refuse, Gated, TimerInv, PassInv
  <2>2. CallerInv'
    BY <1>1 DEF Refuse, Gated, CallerInv, TimerInv, PassInv, MapInv, UniqueIds
  <2>3. MapInv' /\ DecisionInv'
    BY <1>1 DEF Refuse, Gated, MapInv, PassInv, CallerInv, DecisionInv, UniqueIds
  <2>4. Answerable'
    BY <1>1 DEF Refuse, Gated, Answerable, Sending, CallerInv, MapInv, PassInv, UniqueIds
  <2> QED BY <2>1, <2>2, <2>3, <2>4
<1>2. ASSUME NEW c \in Cmds, Bypass(c) PROVE IInv'
  <2>1. TimerInv' /\ PassInv' /\ CallerInv'
    BY <1>2 DEF Bypass, TimerInv, PassInv, CallerInv, MapInv, UniqueIds
  <2>2. MapInv' /\ DecisionInv'
    BY <1>2 DEF Bypass, MapInv, PassInv, CallerInv, DecisionInv, UniqueIds
  <2>3. Answerable'
    BY <1>2 DEF Bypass, Answerable, Sending, CallerInv, MapInv, PassInv, UniqueIds
  <2> QED BY <2>1, <2>2, <2>3
<1>3. ASSUME NEW c \in Cmds, Announce(c) PROVE IInv'
  <2>1. TimerInv' /\ PassInv' /\ CallerInv'
    BY <1>3 DEF Announce, TimerInv, PassInv, CallerInv, MapInv, UniqueIds
  <2>2. MapInv' /\ DecisionInv'
    BY <1>3 DEF Announce, MapInv, PassInv, CallerInv, DecisionInv, UniqueIds
  <2>3. Answerable'
    BY <1>3 DEF Announce, Answerable, Sending, CallerInv, MapInv, PassInv, UniqueIds
  <2> QED BY <2>1, <2>2, <2>3
<1>4. ASSUME NEW c \in Cmds, SubmitStore(c) PROVE IInv'
  <2>1. TimerInv' /\ PassInv'
    BY <1>4 DEF SubmitStore, TimerInv, PassInv
  <2>2. CallerInv'
    BY <1>4 DEF SubmitStore, CallerInv, TimerInv, PassInv, MapInv, UniqueIds
  <2>3. MapInv'
    BY <1>4 DEF SubmitStore, MapInv, PassInv, CallerInv, DecisionInv, UniqueIds
  <2>4. DecisionInv'
    BY <1>4 DEF SubmitStore, DecisionInv, CallerInv, MapInv
  <2>5. Answerable'
    BY <1>4 DEF SubmitStore, Answerable, Sending, CallerInv, MapInv, PassInv, UniqueIds
  <2> QED BY <2>1, <2>2, <2>3, <2>4, <2>5
<1>5. ASSUME NEW c \in Cmds, SubmitArm(c) PROVE IInv'
  <2>1. TimerInv' /\ PassInv' /\ CallerInv'
    BY <1>5 DEF SubmitArm, TimerInv, PassInv, CallerInv, MapInv, UniqueIds
  <2>2. MapInv' /\ DecisionInv'
    BY <1>5 DEF SubmitArm, MapInv, PassInv, CallerInv, DecisionInv, UniqueIds
  <2>3. Answerable'
    BY <1>5 DEF SubmitArm, Answerable, Sending, CallerInv, MapInv, PassInv, UniqueIds
  <2> QED BY <2>1, <2>2, <2>3
<1>6. ASSUME NEW c \in Cmds, SubmitAssign(c) PROVE IInv'
  <2>1. TimerInv' /\ PassInv' /\ CallerInv'
    BY <1>6 DEF SubmitAssign, TimerInv, PassInv, CallerInv, MapInv, UniqueIds
  <2>2. MapInv' /\ DecisionInv'
    BY <1>6 DEF SubmitAssign, MapInv, PassInv, CallerInv, DecisionInv, UniqueIds
  <2>3. Answerable'
    BY <1>6 DEF SubmitAssign, Answerable, Sending, CallerInv, MapInv, PassInv, UniqueIds
  <2> QED BY <2>1, <2>2, <2>3
<1>7. ASSUME NEW c \in Cmds, Wait(c) PROVE IInv'
  <2>1. TimerInv' /\ PassInv' /\ CallerInv'
    BY <1>7 DEF Wait, TimerInv, PassInv, CallerInv, MapInv, UniqueIds
  <2>2. MapInv'
    BY <1>7 DEF Wait, MapInv, PassInv, CallerInv, DecisionInv, UniqueIds
  <2>3. DecisionInv'
    BY <1>7 DEF Wait, DecisionInv, CallerInv, MapInv
  <2>4. Answerable'
    BY <1>7 DEF Wait, Answerable, Sending, CallerInv, MapInv, PassInv, UniqueIds
  <2> QED BY <2>1, <2>2, <2>3, <2>4
<1>8. ASSUME NEW c \in Cmds, Conclude(c) PROVE IInv'
  <2>1. TimerInv' /\ PassInv' /\ CallerInv' /\ MapInv' /\ Answerable'
    BY <1>8 DEF Conclude, TimerInv, PassInv, CallerInv, MapInv, UniqueIds, DecisionInv, Answerable, Sending
  <2>2. DecisionInv'
    BY <1>8 DEF Conclude, DecisionInv, CallerInv, MapInv
  <2> QED BY <2>1, <2>2
<1>9. ASSUME NEW c \in Cmds, Execute(c) PROVE IInv'
  <2>1. TimerInv' /\ PassInv'
    BY <1>9 DEF Execute, TimerInv, PassInv
  <2>2. CallerInv'
    BY <1>9 DEF Execute, CallerInv, TimerInv, PassInv, MapInv, UniqueIds
  <2>3. MapInv' /\ DecisionInv'
    BY <1>9 DEF Execute, MapInv, PassInv, CallerInv, DecisionInv, UniqueIds
  <2>4. Answerable'
    BY <1>9 DEF Execute, Answerable, Sending, CallerInv, MapInv, PassInv, UniqueIds
  <2> QED BY <2>1, <2>2, <2>3, <2>4
<1>10. ASSUME NEW c \in Cmds, Expire(c) PROVE IInv'
  <2>1. TimerInv' /\ PassInv'
    BY <1>10 DEF Expire, TimerInv, PassInv
  <2>2. CallerInv'
    BY <1>10 DEF Expire, CallerInv, TimerInv, PassInv, MapInv, UniqueIds
  <2>3. MapInv'
    BY <1>10 DEF Expire, MapInv, PassInv, CallerInv, DecisionInv, UniqueIds
  <2>4. DecisionInv'
    BY <1>10 DEF Expire, DecisionInv, CallerInv, MapInv
  <2>5. Answerable'
    BY <1>10 DEF Expire, Answerable, Sending, CallerInv, MapInv, PassInv, UniqueIds
  <2> QED BY <2>1, <2>2, <2>3, <2>4, <2>5
<1>11. ASSUME NEW h \in Posts, NEW c \in Cmds, NEW v \in Verdicts, Click(h, c, v) PROVE IInv'
  <2>1. TimerInv' /\ PassInv'
    BY <1>11 DEF Click, TimerInv, PassInv
  <2>2. MapInv' /\ DecisionInv'
    BY <1>11 DEF Click, MapInv, PassInv, CallerInv, DecisionInv, UniqueIds
  <2>3. CallerInv'
    BY <1>11 DEF Click, CallerInv, TimerInv, PassInv, MapInv, UniqueIds
  <2>4. Answerable'
    BY <1>11 DEF Click, Answerable, Sending, CallerInv, MapInv, PassInv, UniqueIds
  <2> QED BY <2>1, <2>2, <2>3, <2>4
<1>12. ASSUME NEW x \in Callers, LoadMiss(x) PROVE IInv'
  <2>1. TimerInv' /\ PassInv'
    BY <1>12 DEF LoadMiss, TimerInv, PassInv
  <2>2. MapInv' /\ DecisionInv'
    BY <1>12 DEF LoadMiss, MapInv, PassInv, CallerInv, DecisionInv, UniqueIds
  <2>3. CallerInv'
    BY <1>12 DEF LoadMiss, CallerInv, TimerInv, PassInv, MapInv, UniqueIds
  <2>4. Answerable'
    BY <1>12 DEF LoadMiss, Answerable, Sending, CallerInv, MapInv, PassInv, UniqueIds
  <2> QED BY <2>1, <2>2, <2>3, <2>4
<1>13. ASSUME NEW x \in Callers, LoadHit(x) PROVE IInv'
  <2>1. TimerInv' /\ PassInv'
    BY <1>13 DEF LoadHit, TimerInv, PassInv
  <2>2. MapInv' /\ DecisionInv'
    BY <1>13 DEF LoadHit, MapInv, PassInv, CallerInv, DecisionInv, UniqueIds
  <2>3. CallerInv'
    BY <1>13 DEF LoadHit, CallerInv, TimerInv, PassInv, MapInv, UniqueIds
  <2>4. Answerable'
    BY <1>13 DEF LoadHit, Answerable, Sending, CallerInv, MapInv, PassInv, UniqueIds
  <2> QED BY <2>1, <2>2, <2>3, <2>4
<1>14. ASSUME NEW x \in Callers, StopTimer(x) PROVE IInv'
  <2>1. TimerInv' /\ PassInv'
    BY <1>14 DEF StopTimer, TimerInv, PassInv
  <2>2. MapInv' /\ DecisionInv'
    BY <1>14 DEF StopTimer, MapInv, PassInv, CallerInv, DecisionInv, UniqueIds
  <2>3. CallerInv'
    BY <1>14 DEF StopTimer, CallerInv, TimerInv, PassInv, MapInv, UniqueIds
  <2>4. Answerable'
    BY <1>14 DEF StopTimer, Answerable, Sending, CallerInv, MapInv, PassInv, UniqueIds
  <2> QED BY <2>1, <2>2, <2>3, <2>4
<1>15. ASSUME NEW x \in Callers, DeletePending(x) PROVE IInv'
  <2>1. TimerInv' /\ PassInv' /\ DecisionInv'
    BY <1>15 DEF DeletePending, TimerInv, PassInv, DecisionInv, CallerInv, MapInv
  <2>2. CallerInv'
    BY <1>15 DEF DeletePending, CallerInv, TimerInv, PassInv, MapInv, UniqueIds
  <2>3. MapInv'
    BY <1>15 DEF DeletePending, MapInv, PassInv, CallerInv, DecisionInv, UniqueIds
  <2>4. Answerable'
    BY <1>15 DEF DeletePending, Answerable, Sending, CallerInv, MapInv, PassInv, UniqueIds
  <2> QED BY <2>1, <2>2, <2>3, <2>4
<1>16. ASSUME NEW x \in Callers, Send(x) PROVE IInv'
  <2>1. TimerInv' /\ PassInv'
    BY <1>16 DEF Send, Put, TimerInv, PassInv
  <2>2. CallerInv'
    BY <1>16 DEF Send, Put, CallerInv, TimerInv, PassInv, MapInv, UniqueIds
  <2>3. MapInv'
    BY <1>16 DEF Send, Put, MapInv, PassInv, CallerInv, DecisionInv, UniqueIds
  <2>4. DecisionInv'
    <3>1. Cause(loaded[x], wants[x])
      BY <1>16 DEF Send, CallerInv, Cause, Clicked
    <3>2. loaded[x] \in Cmds /\ pc[loaded[x]] \notin {"new", "announced"}
      BY <1>16 DEF Send, CallerInv
    <3> QED BY <1>16, <3>1, <3>2 DEF Send, Put, DecisionInv
  <2>5. Answerable'
    BY <1>16 DEF Send, Put, Answerable, Sending, CallerInv, MapInv, PassInv, UniqueIds
  <2> QED BY <2>1, <2>2, <2>3, <2>4, <2>5
<1>17. CASE UNCHANGED vars
  BY <1>17 DEF TimerInv, PassInv, CallerInv, MapInv, DecisionInv, Answerable,
                   Sending, Cause, Clicked
<1> QED BY <1>1, <1>2, <1>3, <1>4, <1>5, <1>6, <1>7, <1>8, <1>9, <1>10, <1>11, <1>12, <1>13, <1>14, <1>15, <1>16, <1>17
        DEF Next, Dispatch, Proceed, CallStep

\* Under unique ids every reachable state satisfies the inductive invariant.
THEOREM Inductive == ASSUME UniqueIds PROVE SafeSpec => []IInv
<1>1. Init => IInv
  BY InitIInv
<1>2. IInv /\ [Next]_vars => IInv'
  BY IInvStep
<1> QED BY <1>1, <1>2, PTL DEF SafeSpec

\* With unique ids an operation that needs approval runs only if the user clicked
\* Autoriser on its own form, for any number of commands, POSTs and timers.
THEOREM Approved == ASSUME UniqueIds PROVE SafeSpec => []ExecutedWasApproved
<1>1. IInv => ExecutedWasApproved
  BY DEF IInv, DecisionInv, ExecutedWasApproved, Cause
<1> QED BY <1>1, Inductive, PTL

\* With unique ids an operation is rejected only by its own form or its own timer.
THEOREM RejectedForCause == ASSUME UniqueIds PROVE SafeSpec => []RejectionHasCause
<1>1. IInv => RejectionHasCause
  BY DEF IInv, DecisionInv, RejectionHasCause, Cause
<1> QED BY <1>1, Inductive, PTL

\* With unique ids the dispatcher is never blocked on an operation that nothing in
\* the program can answer any more.
THEOREM AlwaysAnswerable == ASSUME UniqueIds PROVE SafeSpec => []Answerable
BY Inductive, PTL DEF IInv

\* With unique ids no entry of the map survives the answer to its operation.
THEOREM NoStaleEntry == ASSUME UniqueIds PROVE SafeSpec => []AnsweredLeavesNoEntry
<1>1. IInv => AnsweredLeavesNoEntry
  BY DEF IInv, MapInv, AnsweredLeavesNoEntry, TypeOK
<1> QED BY <1>1, Inductive, PTL

\* With unique ids the map and the goroutines that wait stay together.
THEOREM MapCorrect == ASSUME UniqueIds PROVE SafeSpec => []MapHoldsTheWaiting
<1>1. Answerable /\ AnsweredLeavesNoEntry => MapHoldsTheWaiting
  BY DEF MapHoldsTheWaiting
<1> QED BY <1>1, AlwaysAnswerable, NoStaleEntry, PTL

-------------------------------------------------------------------------------
(* What remains true when commands reuse an id, as the code lets them.         *)

\* Something with the id of c caused decision v: a click on a form with that id, or
\* the timer of a command with it.
SharedCause(c, v) == \E d \in Cmds : Gated(d) /\ IdOf[d] = IdOf[c] /\ Cause(d, v)

\* A caller carries its decision to operations with the id of its form.
CarrierInv ==
  \A x \in Callers :
    /\ at[x] # "idle" => Gated(form[x])
    /\ x \in Cmds => wants[x] = "reject"
    /\ x \in Cmds /\ at[x] # "idle" => form[x] = x /\ timer[x] = "fired"
    /\ at[x] \in {"stop", "delete", "send"}
         => loaded[x] \in Cmds /\ IdOf[loaded[x]] = IdOf[form[x]]

\* The map holds an operation under its own id.
KeyInv == \A i \in Ids : pending[i] # NoCmd => IdOf[pending[i]] = i

\* Every decision has a cause under its id; what runs after the gate was approved.
SharedDecisionInv ==
  \A c \in Cmds :
    /\ decision[c] # "none" => SharedCause(c, decision[c])
    /\ verdict[c] # "none" => SharedCause(c, verdict[c])
    /\ Gated(c) /\ pc[c] \in {"run", "executed"} => verdict[c] = "approve"

SharedInv == TypeOK /\ TimerInv /\ PassInv /\ CarrierInv /\ KeyInv /\ SharedDecisionInv

\* A cause under an id stays one.
LEMMA SharedCauseStays ==
  ASSUME TypeOK, TimerInv, [Next]_vars, NEW c \in Cmds, NEW v \in Verdicts, SharedCause(c, v)
  PROVE  SharedCause(c, v)'
<1>1. PICK d \in Cmds : Gated(d) /\ IdOf[d] = IdOf[c] /\ Cause(d, v)
  BY DEF SharedCause
<1>2. Cause(d, v)'
  BY <1>1, CauseStays
<1> QED BY <1>1, <1>2 DEF SharedCause, Gated

\* No step breaks it, whatever ids the commands carry.
LEMMA SharedStep == ASSUME SharedInv, [Next]_vars PROVE SharedInv'
<1>0. TypeOK'
  BY TypeStep DEF SharedInv
<1>c. \A c \in Cmds, v \in Verdicts : SharedCause(c, v) => SharedCause(c, v)'
  BY SharedCauseStays DEF SharedInv
<1> USE <1>0, <1>c DEF SharedInv, TypeOK, Goto, Blocked, Closed, Callers, Verdicts,
            vars, gateVars, dispatchVars, managerVars, callerVars
<1>1. ASSUME NEW c \in Cmds, Dispatch(c) PROVE SharedInv'
  <2>1. TimerInv' /\ PassInv'
    BY <1>1 DEF TimerInv, PassInv, Gated, Dispatch, Proceed, Refuse, Bypass, Announce,
                SubmitStore, SubmitArm, SubmitAssign, Wait, Conclude, Execute
  <2>2. CarrierInv'
    <3>1. timer[c] # "fired" \/ ~ SubmitArm(c)
      BY DEF SubmitArm, TimerInv
    <3> QED BY <1>1, <3>1 DEF CarrierInv, Gated, Dispatch, Proceed, Refuse, Bypass, Announce,
                SubmitStore, SubmitArm, SubmitAssign, Wait, Conclude, Execute
  <2>3. KeyInv'
    BY <1>1 DEF KeyInv, Dispatch, Proceed, Refuse, Bypass, Announce,
                SubmitStore, SubmitArm, SubmitAssign, Wait, Conclude, Execute
  <2>4. SharedDecisionInv'
    BY <1>1 DEF SharedDecisionInv, PassInv, Gated, Dispatch, Proceed, Refuse, Bypass, Announce,
                SubmitStore, SubmitArm, SubmitAssign, Wait, Conclude, Execute
  <2> QED BY <2>1, <2>2, <2>3, <2>4
<1>2. ASSUME NEW c \in Cmds, Expire(c) PROVE SharedInv'
  <2>1. TimerInv' /\ PassInv' /\ KeyInv'
    BY <1>2 DEF Expire, TimerInv, PassInv, KeyInv, Gated
  <2>2. CarrierInv' /\ SharedDecisionInv'
    BY <1>2 DEF Expire, CarrierInv, SharedDecisionInv, PassInv, Gated
  <2> QED BY <2>1, <2>2
<1>3. ASSUME NEW h \in Posts, NEW c \in Cmds, NEW v \in Verdicts, Click(h, c, v)
      PROVE  SharedInv'
  <2>1. TimerInv' /\ PassInv' /\ KeyInv'
    BY <1>3 DEF Click, TimerInv, PassInv, KeyInv, Gated
  <2>2. CarrierInv' /\ SharedDecisionInv'
    BY <1>3 DEF Click, CarrierInv, SharedDecisionInv, Gated
  <2> QED BY <2>1, <2>2
<1>4. ASSUME NEW x \in Callers, CallStep(x), ~ Send(x) PROVE SharedInv'
  <2>1. TimerInv' /\ PassInv' /\ KeyInv'
    BY <1>4 DEF CallStep, LoadMiss, LoadHit, StopTimer, DeletePending,
                TimerInv, PassInv, KeyInv, Gated
  <2>2. CarrierInv'
    BY <1>4 DEF CallStep, LoadMiss, LoadHit, StopTimer, DeletePending, CarrierInv, KeyInv, Gated
  <2>3. SharedDecisionInv'
    BY <1>4 DEF CallStep, LoadMiss, LoadHit, StopTimer, DeletePending, SharedDecisionInv, Gated
  <2> QED BY <2>1, <2>2, <2>3
<1>5. ASSUME NEW x \in Callers, Send(x) PROVE SharedInv'
  <2>1. TimerInv' /\ PassInv' /\ KeyInv' /\ CarrierInv'
    BY <1>5 DEF Send, Put, TimerInv, PassInv, KeyInv, CarrierInv, Gated
  <2>2. SharedCause(loaded[x], wants[x])
    BY <1>5 DEF Send, CarrierInv, SharedCause, Cause, Clicked
  <2>3. SharedDecisionInv'
    BY <1>5, <2>2 DEF Send, Put, CarrierInv, SharedDecisionInv, Gated
  <2> QED BY <2>1, <2>3
<1>6. CASE UNCHANGED vars
  BY <1>6 DEF TimerInv, PassInv, CarrierInv, KeyInv, SharedDecisionInv, Gated
<1> QED BY <1>1, <1>2, <1>3, <1>4, <1>5, <1>6 DEF Next

\* Whatever ids the commands carry, an operation runs only after an Autoriser click on
\* a form with its id, and is turned down only by a Rejeter click or a timer of it.
THEOREM CauseShared == SafeSpec => []CauseUnderItsId
<1>1. Init => SharedInv
  <2> SUFFICES ASSUME Init PROVE SharedInv
    OBVIOUS
  <2>1. TypeOK
    BY InitTyped
  <2>2. TimerInv /\ PassInv /\ CarrierInv /\ KeyInv /\ SharedDecisionInv
    BY DEF Init, TimerInv, PassInv, CarrierInv, KeyInv, SharedDecisionInv, Blocked, Callers
  <2> QED BY <2>1, <2>2 DEF SharedInv
<1>2. SharedInv /\ [Next]_vars => SharedInv'
  BY SharedStep
<1>3. SharedInv => CauseUnderItsId
  <2> SUFFICES ASSUME SharedInv, NEW c \in Cmds
      PROVE  LET Same == {d \in Cmds : Gated(d) /\ IdOf[d] = IdOf[c]} IN
             /\ Gated(c) /\ pc[c] \in {"run", "executed"} => \E d \in Same : Clicked(d, "approve")
             /\ verdict[c] = "reject"
                  => \E d \in Same : Clicked(d, "reject") \/ timer[d] = "fired"
    BY DEF CauseUnderItsId
  <2>1. ASSUME verdict[c] = "approve" PROVE \E d \in Cmds :
               Gated(d) /\ IdOf[d] = IdOf[c] /\ Clicked(d, "approve")
    BY <2>1 DEF SharedInv, SharedDecisionInv, SharedCause, Cause
  <2>2. ASSUME verdict[c] = "reject" PROVE \E d \in Cmds :
               Gated(d) /\ IdOf[d] = IdOf[c] /\ (Clicked(d, "reject") \/ timer[d] = "fired")
    BY <2>2 DEF SharedInv, SharedDecisionInv, SharedCause, Cause
  <2>3. Gated(c) /\ pc[c] \in {"run", "executed"} => verdict[c] = "approve"
    BY DEF SharedInv, SharedDecisionInv
  <2> QED BY <2>1, <2>2, <2>3
<1> QED BY <1>1, <1>2, <1>3, PTL DEF SafeSpec

-------------------------------------------------------------------------------
(* HitlGate implements the safety part of Approval.                           *)

StageMap == [c \in Asked |-> Stage(c)]
ConsentMap == {c \in Asked : Clicked(c, "approve")}

\* Only Click changes who said yes to what.
LEMMA ConsentStays ==
  ASSUME TypeOK, UNCHANGED <<form, wants>>, \A h \in Posts : at[h] = "idle" <=> at'[h] = "idle"
  PROVE  ConsentMap' = ConsentMap
BY DEF ConsentMap, Clicked, Asked, Gated

\* A command whose place and decision a step leaves alone keeps its stage.
LEMMA StageStays ==
  ASSUME \A d \in Asked : Stage(d)' = Stage(d) PROVE StageMap' = StageMap
BY DEF StageMap, Asked, Gated

\* ... and a step that moves one command to stage s changes the map there only.
LEMMA StageMoves ==
  ASSUME NEW c \in Asked, \A d \in Asked \ {c} : Stage(d)' = Stage(d)
  PROVE  StageMap' = [StageMap EXCEPT ![c] = Stage(c)']
BY DEF StageMap, Asked, Gated

\* Before the first command nobody has been asked anything.
LEMMA RefineInit == Init => Gate!Init
<1> SUFFICES ASSUME Init PROVE Gate!Init
  OBVIOUS
<1>1. \A c \in Asked : Stage(c) = "new"
  BY DEF Init, Stage, Asked
<1>2. \A c \in Cmds : ~ Clicked(c, "approve")
  BY DEF Init, Clicked, Callers
<1> QED BY <1>1, <1>2 DEF Gate!Init, Asked

\* Every step of the code is a step of the abstract gate or leaves it alone: the
\* question opens with Announce, is settled by Send, and closes with Execute or Conclude.
LEMMA RefineStep ==
  ASSUME UniqueIds, IInv, IInv', [Next]_vars
  PROVE  [Gate!Next]_(Gate!avars)
<1> DEFINE Stutter == StageMap' = StageMap /\ ConsentMap' = ConsentMap
<1> USE DEF IInv, TypeOK, Asked, Callers, Verdicts, Blocked, Closed, Goto,
            vars, gateVars, dispatchVars, managerVars, callerVars
<1>s. Stutter => [Gate!Next]_(Gate!avars)
  BY DEF Gate!avars, StageMap, ConsentMap
<1>n. ASSUME NEW c \in Asked,
             \/ Gate!Ask(c) \/ Gate!Consent(c) \/ Gate!Settle(c) \/ Gate!Finish(c)
      PROVE  [Gate!Next]_(Gate!avars)
  BY <1>n DEF Gate!Next
<1>1. ASSUME NEW c \in Cmds, Refuse(c) \/ Bypass(c) PROVE Stutter
  <2>1. \A d \in Asked : Stage(d)' = Stage(d)
    BY <1>1 DEF Refuse, Bypass, Stage, Settled, Gated
  <2>2. ConsentMap' = ConsentMap
    BY <1>1, ConsentStays DEF Refuse, Bypass
  <2> QED BY <2>1, <2>2, StageStays
<1>2. ASSUME NEW c \in Cmds, Announce(c) PROVE c \in Asked /\ Gate!Ask(c)
  <2>1. c \in Asked /\ pc[c] = "new" /\ verdict[c] = "none" /\ decision[c] = "none"
    BY <1>2 DEF Announce, DecisionInv
  <2>2. Stage(c) = "new" /\ Stage(c)' = "asking"
    BY <1>2, <2>1 DEF Announce, Stage, Settled
  <2>3. \A d \in Asked \ {c} : Stage(d)' = Stage(d)
    BY <1>2 DEF Announce, Stage, Settled
  <2>4. \A d \in Asked : Stage(d) \in {"new", "executed", "refused"}
    BY <1>2 DEF Announce, Idle, Stage, PassInv
  <2>5. ConsentMap' = ConsentMap
    BY <1>2, ConsentStays DEF Announce
  <2>6. StageMap' = [StageMap EXCEPT ![c] = "asking"]
    BY <2>1, <2>2, <2>3, StageMoves
  <2> QED BY <2>1, <2>2, <2>4, <2>5, <2>6
          DEF Gate!Ask, Gate!Open, StageMap, ConsentMap
<1>3. ASSUME NEW c \in Cmds, SubmitStore(c) \/ SubmitArm(c) \/ SubmitAssign(c) \/ Wait(c)
      PROVE  Stutter
  <2>1. verdict[c] = "none"
    BY <1>3 DEF SubmitStore, SubmitArm, SubmitAssign, Wait, DecisionInv
  <2>2. \A d \in Asked : Stage(d)' = Stage(d)
    BY <1>3, <2>1 DEF SubmitStore, SubmitArm, SubmitAssign, Wait, Stage, Settled
  <2>3. ConsentMap' = ConsentMap
    BY <1>3, ConsentStays DEF SubmitStore, SubmitArm, SubmitAssign, Wait
  <2> QED BY <2>2, <2>3, StageStays
<1>4. ASSUME NEW c \in Cmds, Conclude(c) PROVE Stutter \/ (c \in Asked /\ Gate!Finish(c))
  <2>1. ConsentMap' = ConsentMap
    BY <1>4, ConsentStays DEF Conclude
  <2>2. \A d \in Asked \ {c} : Stage(d)' = Stage(d)
    BY <1>4 DEF Conclude, Stage, Settled
  <2>3. c \in Asked /\ verdict[c] # "none"
    BY <1>4 DEF Conclude, PassInv, DecisionInv
  <2>4. CASE verdict[c] = "approve"
    BY <1>4, <2>1, <2>2, <2>4, StageStays DEF Conclude, Stage, Settled
  <2>5. CASE verdict[c] = "reject"
    <3>1. Stage(c) = "rejected" /\ Stage(c)' = "refused"
      BY <1>4, <2>5 DEF Conclude, Stage, Settled
    <3> QED BY <2>1, <2>2, <2>3, <3>1, StageMoves
            DEF Gate!Finish, Gate!Refuse, StageMap, ConsentMap
  <2> QED BY <2>3, <2>4, <2>5
<1>5. ASSUME NEW c \in Cmds, Execute(c) PROVE Stutter \/ (c \in Asked /\ Gate!Finish(c))
  <2>1. ConsentMap' = ConsentMap
    BY <1>5, ConsentStays DEF Execute
  <2>2. \A d \in Asked \ {c} : Stage(d)' = Stage(d)
    BY <1>5 DEF Execute, Stage, Settled
  <2>3. CASE c \in Asked
    <3>1. Stage(c) = "approved" /\ Stage(c)' = "executed"
      BY <1>5, <2>3 DEF Execute, Stage, Settled, DecisionInv
    <3> QED BY <2>1, <2>2, <2>3, <3>1, StageMoves
            DEF Gate!Finish, Gate!Execute, StageMap, ConsentMap
  <2> QED BY <2>1, <2>2, <2>3, StageStays
<1>6. ASSUME NEW c \in Cmds, Expire(c) PROVE Stutter
  <2>1. \A d \in Asked : Stage(d)' = Stage(d)
    BY <1>6 DEF Expire, Stage, Settled
  <2>2. \A d \in Cmds : Clicked(d, "approve")' <=> Clicked(d, "approve")
    BY <1>6 DEF Expire, Clicked
  <2> QED BY <2>1, <2>2, StageStays DEF ConsentMap
<1>7. ASSUME NEW h \in Posts, NEW c \in Cmds, NEW v \in Verdicts, Click(h, c, v)
      PROVE  Stutter \/ (c \in Asked /\ Gate!Consent(c))
  <2>1. StageMap' = StageMap /\ c \in Asked /\ Stage(c) # "new"
    BY <1>7, StageStays DEF Click, Stage, Settled
  <2>2. \A d \in Cmds : Clicked(d, "approve")'
                          <=> Clicked(d, "approve") \/ (d = c /\ v = "approve")
    BY <1>7 DEF Click, Clicked
  <2>3. CASE v = "approve"
    <3>1. ConsentMap' = ConsentMap \cup {c}
      BY <2>1, <2>2, <2>3 DEF ConsentMap
    <3> QED BY <2>1, <3>1 DEF Gate!Consent, StageMap, ConsentMap
  <2>4. CASE v = "reject"
    BY <2>1, <2>2, <2>4 DEF ConsentMap
  <2> QED BY <2>3, <2>4
<1>8. ASSUME NEW x \in Callers, LoadMiss(x) \/ LoadHit(x) \/ StopTimer(x) \/ DeletePending(x)
      PROVE  Stutter
  <2>1. \A d \in Asked : Stage(d)' = Stage(d)
    BY <1>8 DEF LoadMiss, LoadHit, StopTimer, DeletePending, Stage, Settled
  <2>2. ConsentMap' = ConsentMap
    BY <1>8, ConsentStays DEF LoadMiss, LoadHit, StopTimer, DeletePending
  <2> QED BY <2>1, <2>2, StageStays
<1>9. ASSUME NEW x \in Callers, Send(x)
      PROVE  Stutter \/ \E c \in Asked : Gate!Settle(c)
  <2>0. PICK c \in Asked : c = loaded[x]
    BY <1>9 DEF Send, CallerInv
  <2>1. pc[c] \notin {"new", "announced", "unknown"} /\ wants[x] \in Verdicts
    BY <1>9, <2>0 DEF Send, CallerInv, PassInv
  <2>2. ConsentMap' = ConsentMap
    BY <1>9, ConsentStays DEF Send
  <2>3. \A d \in Asked \ {c} : Stage(d)' = Stage(d)
    BY <1>9, <2>0, <2>1 DEF Send, Put, Stage, Settled
  <2>4. CASE Settled(c) # "none" \/ pc[c] \in {"executed", "rejected"}
    <3>1. Stage(c)' = Stage(c)
      BY <1>9, <2>0, <2>1, <2>4 DEF Send, Put, Stage, Settled
    <3> QED BY <2>2, <2>3, <3>1, StageStays
  <2>5. CASE Settled(c) = "none" /\ pc[c] \notin {"executed", "rejected"}
    <3>1. Stage(c) = "asking"
      BY <2>1, <2>5 DEF Stage
    <3>2. CASE wants[x] = "approve"
      <4>1. c \in ConsentMap
        BY <1>9, <2>0, <2>1, <3>2 DEF Send, CallerInv, ConsentMap, Clicked
      <4>2. Stage(c)' = "approved"
        BY <1>9, <2>0, <2>1, <2>5, <3>2 DEF Send, Put, Stage, Settled
      <4> QED BY <2>1, <2>2, <2>3, <3>1, <4>1, <4>2, StageMoves
              DEF Gate!Settle, Gate!Approve, StageMap, ConsentMap
    <3>3. CASE wants[x] = "reject"
      <4>1. Stage(c)' = "rejected"
        BY <1>9, <2>0, <2>1, <2>5, <3>3 DEF Send, Put, Stage, Settled
      <4> QED BY <2>1, <2>2, <2>3, <3>1, <4>1, StageMoves
              DEF Gate!Settle, Gate!Reject, StageMap, ConsentMap
    <3> QED BY <2>1, <3>2, <3>3
  <2> QED BY <2>4, <2>5
<1>10. CASE UNCHANGED vars
  <2>1. \A d \in Asked : Stage(d)' = Stage(d)
    BY <1>10 DEF Stage, Settled
  <2>2. ConsentMap' = ConsentMap
    BY <1>10, ConsentStays
  <2> QED BY <2>1, <2>2, StageStays, <1>s
<1> QED BY <1>s, <1>n, <1>1, <1>2, <1>3, <1>4, <1>5, <1>6, <1>7, <1>8, <1>9, <1>10
        DEF Next, Dispatch, Proceed, CallStep

\* With unique ids the goroutines, the map, the channels and the timers implement
\* the abstract gate: every command that needs approval is asked about when no
\* other is, is settled once, and runs only on the consent given to its own form.
THEOREM Refinement == ASSUME UniqueIds PROVE SafeSpec => RefinesGate
<1>1. Init => Gate!Init
  BY RefineInit
<1>2. IInv /\ IInv' /\ [Next]_vars => [Gate!Next]_(Gate!avars)
  BY RefineStep
<1> QED BY <1>1, <1>2, Inductive, PTL DEF SafeSpec, RefinesGate, Gate!Spec
===============================================================================
