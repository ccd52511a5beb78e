---------------------------- MODULE MCClipWindows ----------------------------
(***************************************************************************)
(* An instance of ClipWindows for TLC: the user copies up to two texts, the     *)
(* watcher and a quick command write one each, one of which does not fit.      *)
(***************************************************************************)
EXTENDS ClipWindows, TLC

CONSTANTS t1, t2, short, long, w1, w2

MCAnswer == (w1 :> long) @@ (w2 :> short)
MCSize == (t1 :> 1) @@ (t2 :> 2) @@ (short :> 2) @@ (long :> 3)
===============================================================================
