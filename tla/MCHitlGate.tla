------------------------------ MODULE MCHitlGate ------------------------------
(***************************************************************************)
(* Instances of HitlGate for TLC: a batch with two operations that need      *)
(* approval, a dry run that does not, and an operation nobody allows.        *)
(***************************************************************************)
EXTENDS HitlGate, TLC

CONSTANTS w1, w2, dry, bad,         \* commands
          h1, h2,                   \* POSTs
          i1, i2                    \* ids

MCAllowed == {"write"}
MCOpNames == {"write", "format"}
MCRequire == {"write"}

MCCmds == {w1, w2, dry, bad}
MCOps == (w1 :> "write") @@ (w2 :> "write")
           @@ (dry :> "write") @@ (bad :> "format")
MCUnique == (w1 :> i1) @@ (w2 :> i2) @@ (dry :> i1) @@ (bad :> i2)
MCDry == {dry}

\* The two writes alone, for the runs about time and about reused ids.
Writes == {w1, w2}
WritesOps == (w1 :> "write") @@ (w2 :> "write")
WritesUnique == (w1 :> i1) @@ (w2 :> i2)
WritesShared == (w1 :> i1) @@ (w2 :> i1)

TwoPosts == {h1, h2}
===============================================================================
