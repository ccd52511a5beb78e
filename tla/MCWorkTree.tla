------------------------------ MODULE MCWorkTree ------------------------------
(***************************************************************************)
(* An instance of WorkTree for TLC: one file that is there, one whose         *)
(* directory is missing, one that must not be written; every mode of write    *)
(* and every refusal; a patch over two files; programs with every kind of     *)
(* time limit.                                                               *)
(***************************************************************************)
EXTENDS WorkTree, TLC

CONSTANTS here, new, env, out, noDir, absent, unset, bad, t0, t1, t2

Command(op, path, detail) ==
  detail @@ [op |-> op, path |-> path, mode |-> "overwrite", text |-> t1, from |-> t0,
             dry |-> FALSE, sub |-> "status", changes |-> {}, timeout |-> unset]

MCTree == (here :> <<t0>>) @@ (new :> noDir) @@ (env :> <<t0>>)

MCCommands ==
  {Command("write", f, [mode |-> m]) : f \in {here, new}, m \in Modes}
  \cup {Command("write", new, [text |-> t0]), Command("write", new, [dry |-> TRUE]),
        Command("write", env, [text |-> t1]), Command("write", out, [text |-> t1]),
        Command("write", here, [mode |-> "replace"]),
        Command("patch", here, [changes |-> {here, new}]),
        Command("patch", here, [changes |-> {here}, text |-> t2]),
        Command("patch", here, [text |-> unset]), Command("patch", out, [text |-> t1]),
        Command("git", here, [sub |-> "status"]), Command("git", here, [sub |-> "push"]),
        Command("go", here, [sub |-> "build"]), Command("go", here, [sub |-> "get"]),
        Command("go", here, [sub |-> "test", timeout |-> 0-1]),
        Command("python", here, [timeout |-> bad]), Command("python", here, [timeout |-> 1]),
        Command("python", here, [text |-> unset])}
===============================================================================
