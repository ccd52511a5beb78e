------------------------------- MODULE Sandbox -------------------------------
(***************************************************************************)
(* sandbox.go: which file a path of a command means, and whether it is below   *)
(* the working directory.  The comparison is one of texts, so a path is a      *)
(* sequence of names and Text gives its characters.                          *)
(***************************************************************************)
EXTENDS Naturals, Sequences, SequencesExt

CONSTANT Chars      \* the characters of a name: a function on the names

Names == DOMAIN Chars
Dots == {"", ".", ".."}    \* what a path may hold that names no file
Separator == <<"/">>

ASSUME CharsAssumption ==
  /\ \A n \in Names : Chars[n] \in Seq(STRING \ {"/"}) /\ Chars[n] # <<>>
  /\ \A m, n \in Names : Chars[m] = Chars[n] => m = n
  /\ Names \cap Dots = {}

\* Every name of a path with a separator before it.
Joined[path \in Seq(Names)] ==
  IF path = <<>> THEN <<>> ELSE Joined[Front(path)] \o Separator \o Chars[Last(path)]

Text(path) == IF path = <<>> THEN Separator ELSE Joined[path]

\* filepath.Clean of an absolute path.
Cleaned[path \in Seq(Names \cup Dots)] ==
  IF path = <<>> THEN <<>>
  ELSE LET done == Cleaned[Front(path)]
           name == Last(path) IN
         CASE name \in {".", ""} -> done
           [] name = ".." -> IF done = <<>> THEN done ELSE Front(done)
           [] OTHER -> Append(done, name)

Clean(path) == Cleaned[path]

\* A slip, which no specification uses: no separator after the working directory.
PrefixOnly(workdir, abs) == IsPrefix(Text(workdir), Text(abs))

\* strings.HasPrefix with a separator after both.
Below(workdir, abs) == IsPrefix(Text(workdir) \o Separator, Text(abs) \o Separator)

Escape == <<"..">>     \* no absolute path that is clean

\* Resolve: an absolute path stands for itself, another one starts at the workdir.
Resolve(workdir, path) ==
  LET abs == Clean(IF path.abs THEN path.names ELSE workdir \o path.names) IN
    IF Below(workdir, abs) THEN abs ELSE Escape
==============================================================================
