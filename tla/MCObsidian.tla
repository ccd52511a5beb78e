------------------------------ MODULE MCObsidian ------------------------------
(***************************************************************************)
(* Instances of Obsidian for TLC: two operations end about the same time,     *)
(* the user publishes once, changes the file once and the mode twice.        *)
(***************************************************************************)
EXTENDS Obsidian, TLC

CONSTANTS w1, w2, p1, f1, f2, vault, log, notes

MCConfig == <<vault, log, "append">>
MCForms == (f1 :> <<Unset, notes, "other">>) @@ (f2 :> <<Unset, Unset, "new">>)
===============================================================================
