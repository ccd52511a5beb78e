------------------------------- MODULE Reading -------------------------------
(***************************************************************************)
(* The operations that only look: read, grep, find and tree (ops/read.go,     *)
(* grep.go, find.go, tree.go), and the file browser of the page (handleFiles and   *)
(* handleFileRead).                                                          *)
(*                                                                           *)
(* A disk is a function from paths to Directory or to the lines of a file.  A      *)
(* line is a word; "long" is one that does not fit the buffer of a Scanner.    *)
(***************************************************************************)
EXTENDS Sandbox, Integers, FiniteSetsExt

CONSTANTS Order,           \* the names as ReadDir sorts them
          Extension,       \* filepath.Ext of a name
          MaxOutput,       \* limits.max_output_bytes, in the units of the bodies
          MaxView          \* the 512 KB of the viewer, in lines

ASSUME OrderAssumption ==
  Order \in Seq(Names) /\ \A i, j \in 1..Len(Order) : Order[i] = Order[j] => i = j

ASSUME LimitAssumption == MaxOutput \in Nat /\ MaxView \in Nat

Pruned == {".git", "vendor", "node_modules"}
DefaultIgnore == Pruned \cup {"__pycache__", ".DS_Store"}
DefaultDepth == 4
BrowserDepth == 3
Unset == ""
Invalid == "("             \* a pattern that does not compile; the others match "hit"

Hit == "> "                \* the marks of the lines that grep shows
Near == "  "

Directory == <<"/">>       \* no file has such a line

Failure(code) == [ok |-> FALSE, code |-> code, body |-> <<>>, truncated |-> FALSE]
Success(body) == [ok |-> TRUE, code |-> "", truncated |-> Len(body) > MaxOutput,
                  body |-> SubSeq(body, 1, Min({Len(body), MaxOutput}))]

IsDir(disk, path) == path \in DOMAIN disk /\ disk[path] = Directory
IsFile(disk, path) == path \in DOMAIN disk /\ disk[path] # Directory

\* A tree of directories and files, with the root among them.
IsDisk(disk) ==
  /\ IsFiniteSet(DOMAIN disk)
  /\ \A path \in DOMAIN disk :
       /\ path \in Seq(ToSet(Order))
       /\ disk[path] = Directory \/ disk[path] \in Seq(STRING \ {"/"})
       /\ path # <<>> => IsDir(disk, Front(path))

Indices(lines) == [i \in 1..Len(lines) |-> i]

\* What a loop over s keeps that keeps the chosen elements.
Among(s, chosen) ==
  LET kept[i \in 0..Len(s)] ==
        IF i = 0 THEN <<>>
        ELSE IF s[i] \in chosen THEN Append(kept[i - 1], s[i]) ELSE kept[i - 1]
  IN kept[Len(s)]

\* os.ReadDir: the entries of a directory, sorted.
Entries(disk, dir) == Among(Order, {n \in Names : Append(dir, n) \in DOMAIN disk})

\* filepath.Base, and the name of a DirEntry.
Base(path) == IF path = <<>> THEN "/" ELSE Last(path)

\* A Scanner delivers the lines before the first that is too long.
Scanned(lines) ==
  Among(Indices(lines), {i \in 1..Len(lines) : \A j \in 1..i : lines[j] # "long"})
Fits(lines) == \A i \in 1..Len(lines) : lines[i] # "long"

-------------------------------------------------------------------------------
(* Slips a maintainer could make; no specification uses them.                  *)

\* The range ends before its last line.
ReadShort(lines, from, to) ==
  [lines |-> Among(Scanned(lines), {i \in 1..Len(lines) : from <= i /\ i < to}),
   failed |-> \E i \in 1..Len(lines) : lines[i] = "long" /\ (i <= to + 1 \/ i <= from)]

\* Lines that have been shown are shown again.
ShowAgain(shown, lines, i, ctx) ==
  LET around == Among(Indices(lines), {j \in 1..Len(lines) : i - ctx <= j /\ j <= i + ctx})
  IN shown \o [k \in 1..Len(around) |-> <<around[k], IF around[k] = i THEN Hit ELSE Near>>]

\* Pruned directories are left out but what is below them is not.
WalkOn(disk, prune) ==
  LET walk[p \in DOMAIN disk] ==
        LET entries == Entries(disk, p) IN
          (IF IsDir(disk, p) /\ Base(p) \in prune THEN <<>> ELSE <<p>>)
          \o (IF ~ IsDir(disk, p) THEN <<>>
              ELSE FlattenSeq([i \in 1..Len(entries) |-> walk[Append(p, entries[i])]]))
  IN walk

\* The root counts as the first level.
DeepRows(disk, levels, ignore) ==
  LET rows[p \in DOMAIN disk] ==
        IF ~ IsDir(disk, p) \/ Len(p) > levels THEN <<>>
        ELSE LET entries == Entries(disk, p)
                 kept == Among(entries, Names \ ignore)
             IN FlattenSeq([i \in 1..Len(kept) |->
                  <<[path |-> Append(p, kept[i]), corner |-> kept[i] = Last(entries)]>>
                    \o rows[Append(p, kept[i])]])
  IN rows

\* filepath.Rel to the directory of the entry instead of the root.
LinkByName(workdir, path) == [abs |-> FALSE, names |-> <<Last(path)>>]

-------------------------------------------------------------------------------
(* read.                                                                      *)

\* readRange reads one line behind the range before it stops; a line that is too long
\* there, or before, fails the whole read.
ReadRange(lines, from, to) ==
  [lines |-> Among(Scanned(lines), {i \in 1..Len(lines) : from <= i /\ i <= to}),
   failed |-> \E i \in 1..Len(lines) : lines[i] = "long" /\ (i <= to + 1 \/ i <= from)]

ReadAll(lines) == [lines |-> Scanned(lines), failed |-> ~ Fits(lines)]

Read(disk, workdir, cmd) ==
  LET path == Resolve(workdir, cmd.path)
      result == IF Len(cmd.lines) = 2 /\ cmd.lines[1] > 0
                  THEN ReadRange(disk[path], cmd.lines[1], cmd.lines[2])
                  ELSE ReadAll(disk[path])
  IN IF path = Escape THEN Failure("PATH_ESCAPE")
     ELSE IF ~ IsFile(disk, path) THEN Failure("IO_ERROR")
     ELSE IF result.failed THEN Failure("IO_ERROR") ELSE Success(result.lines)

-------------------------------------------------------------------------------
(* grep, find: filepath.WalkDir.                                              *)

\* The entries at or below a path in the order of the walk; SkipDir leaves out a
\* directory with all that is in it, the root of the walk included.
Walked(disk, prune) ==
  LET walk[p \in DOMAIN disk] ==
        IF ~ IsDir(disk, p) THEN <<p>>
        ELSE IF Base(p) \in prune THEN <<>>
        ELSE LET entries == Entries(disk, p) IN
               <<p>> \o FlattenSeq([i \in 1..Len(entries) |-> walk[Append(p, entries[i])]])
  IN walk

WalkDir(disk, root, prune) == IF root \in DOMAIN disk THEN Walked(disk, prune)[root] ELSE <<>>

Find(disk, workdir, cmd) ==
  LET root == Resolve(workdir, cmd.path) IN
    IF root = Escape THEN Failure("PATH_ESCAPE")
    ELSE Success(Among(WalkDir(disk, root, Pruned),
                       {p \in DOMAIN disk : cmd.name = Unset \/ Base(p) = cmd.name}))

\* The lines around a match at i that no match before it has shown.
ShowAround(shown, lines, i, ctx) ==
  LET new == Among(Indices(lines),
                   {j \in 1..Len(lines) : /\ i - ctx <= j /\ j <= i + ctx
                                          /\ \A k \in 1..Len(shown) : shown[k][1] # j})
  IN shown \o [k \in 1..Len(new) |-> <<new[k], IF new[k] = i THEN Hit ELSE Near>>]

\* grepFile, without the rulers between the matches: each line with its mark.
GrepFile(lines, ctx) ==
  LET shown[i \in 0..Len(lines)] ==
        IF i = 0 THEN <<>>
        ELSE IF lines[i] = "hit" THEN ShowAround(shown[i - 1], lines, i, ctx) ELSE shown[i - 1]
  IN IF Fits(lines) THEN shown[Len(lines)] ELSE <<>>

Grep(disk, workdir, cmd) ==
  LET root == Resolve(workdir, cmd.path)
      Searched(p) == IsFile(disk, p) /\ (cmd.ext = {} \/ Extension[Last(p)] \in cmd.ext)
      files == Among(WalkDir(disk, root, Pruned),
                     {p \in DOMAIN disk : Searched(p) /\ GrepFile(disk[p], cmd.context) # <<>>})
  IN IF cmd.pattern = Unset THEN Failure("MISSING_PARAM")
     ELSE IF cmd.pattern = Invalid THEN Failure("INVALID_PATTERN")
     ELSE IF root = Escape THEN Failure("PATH_ESCAPE")
     ELSE Success([k \in 1..Len(files) |->
                     [file |-> files[k], shown |-> GrepFile(disk[files[k]], cmd.context)]])

-------------------------------------------------------------------------------
(* tree: the rows that buildTree draws, with the corner of the last entry.     *)

\* The rows below a directory; nothing below the last level is drawn.
Drawn(disk, levels, ignore) ==
  LET rows[p \in DOMAIN disk] ==
        IF ~ IsDir(disk, p) \/ Len(p) >= levels THEN <<>>
        ELSE LET entries == Entries(disk, p)
                 kept == Among(entries, Names \ ignore)
             IN FlattenSeq([i \in 1..Len(kept) |->
                  <<[path |-> Append(p, kept[i]), corner |-> kept[i] = Last(entries)]>>
                    \o rows[Append(p, kept[i])]])
  IN rows

Rows(disk, root, depth, ignore) ==
  IF root \in DOMAIN disk THEN Drawn(disk, Len(root) + depth, ignore)[root] ELSE <<>>

Depth(cmd) == IF cmd.depth <= 0 THEN DefaultDepth ELSE cmd.depth

Tree(disk, workdir, cmd) ==
  LET root == Resolve(workdir, cmd.path) IN
    IF root = Escape THEN Failure("PATH_ESCAPE")
    ELSE Success(Rows(disk, root, Depth(cmd), DefaultIgnore \cup cmd.ignore))

-------------------------------------------------------------------------------
(* The file browser of the page: the rows of walkDir, and the link of a file.   *)

Link(workdir, path) ==
  [abs |-> FALSE, names |-> SubSeq(path, Len(workdir) + 1, Len(path))]

Browse(disk, workdir) ==
  LET rows == Rows(disk, workdir, BrowserDepth, Pruned) IN
    [ok |-> TRUE, code |-> "", truncated |-> FALSE,
     body |-> [k \in 1..Len(rows) |->
                 [path |-> rows[k].path,
                  link |-> IF IsDir(disk, rows[k].path) THEN Unset
                           ELSE Link(workdir, rows[k].path)]]]

-------------------------------------------------------------------------------
(* The viewer of the page: it does not scan, and it drops the empty lines at the *)
(* end before it counts.                                                      *)

View(disk, path) ==
  LET raw == SubSeq(disk[path], 1, Min({MaxView, Len(disk[path])}))
      kept == Among(Indices(raw), {i \in 1..Len(raw) : \E j \in i..Len(raw) : raw[j] # ""})
  IN [lines |-> IF kept = <<>> THEN <<1>> ELSE kept, truncated |-> Len(disk[path]) > MaxView]

Viewed(disk, workdir, cmd) ==
  LET path == Resolve(workdir, cmd.path) IN
    IF path = Escape THEN Failure("PATH_ESCAPE")
    ELSE IF ~ IsFile(disk, path) THEN Failure("NOT_FOUND")
    ELSE [ok |-> TRUE, code |-> "", body |-> View(disk, path).lines,
          truncated |-> View(disk, path).truncated]
==============================================================================
