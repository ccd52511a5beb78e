------------------------------- MODULE Approval -------------------------------
(***************************************************************************)
(* What the human-in-the-loop gate of clipdevd promises, without goroutines, *)
(* channels or timers.  A command that requires approval is asked about, is  *)
(* settled exactly once, and runs only if it was settled by a consent the    *)
(* user gave for that very command.  Commands are asked about one at a time. *)
(***************************************************************************)

CONSTANT Asked      \* the commands that need the user's approval

VARIABLES stage,    \* how far each command has come
          consent   \* the commands whose form the user said yes to

avars == <<stage, consent>>

Stages == {"new", "asking", "approved", "rejected", "executed", "refused"}

Open(c) == stage[c] \in {"asking", "approved", "rejected"}

Init == /\ stage = [c \in Asked |-> "new"]
        /\ consent = {}

\* The form of c is shown; no other command is being asked about.
Ask(c) == /\ stage[c] = "new"
          /\ \A d \in Asked : ~ Open(d)
          /\ stage' = [stage EXCEPT ![c] = "asking"]
          /\ UNCHANGED consent

\* The user says yes to the form of c, in time or too late.
Consent(c) == /\ stage[c] # "new"
              /\ consent' = consent \cup {c}
              /\ UNCHANGED stage

Approve(c) == /\ stage[c] = "asking"
              /\ c \in consent
              /\ stage' = [stage EXCEPT ![c] = "approved"]
              /\ UNCHANGED consent

Reject(c) == /\ stage[c] = "asking"
             /\ stage' = [stage EXCEPT ![c] = "rejected"]
             /\ UNCHANGED consent

Execute(c) == /\ stage[c] = "approved"
              /\ stage' = [stage EXCEPT ![c] = "executed"]
              /\ UNCHANGED consent

Refuse(c) == /\ stage[c] = "rejected"
             /\ stage' = [stage EXCEPT ![c] = "refused"]
             /\ UNCHANGED consent

Settle(c) == Approve(c) \/ Reject(c)

Finish(c) == Execute(c) \/ Refuse(c)

Next == \E c \in Asked : Ask(c) \/ Consent(c) \/ Settle(c) \/ Finish(c)

Spec == Init /\ [][Next]_avars
===============================================================================
