------------------------------ MODULE MCClipLoop ------------------------------
(***************************************************************************)
(* Instances of ClipLoop for TLC: a text with one command and one with a      *)
(* pipeline of two; a Wayland and an X11 clipboard, with one tool for each, or  *)
(* with the three tools of knownBackends, two of which show the X11 clipboard.  *)
(***************************************************************************)
EXTENDS ClipLoop, TLC

CONSTANTS one, two, wayland, x11

MCSources == <<wayland, x11>>
KnownBackends == <<wayland, x11, x11>>

Commands == {one, two}
CommandSteps == (one :> 1) @@ (two :> 2)

\* A copy reaches one of the clipboards, or both when a manager keeps them in step.
Apart == {{wayland}, {x11}, {wayland, x11}}
===============================================================================
