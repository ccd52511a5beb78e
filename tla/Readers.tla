------------------------------- MODULE Readers -------------------------------
(***************************************************************************)
(* The parts of the daemon that answer from what they are given and change     *)
(* nothing, as one machine: a request comes in, the code computes the answer,  *)
(* and the properties compare it with what a reader of the answer relies on.    *)
(***************************************************************************)
EXTENDS Reading, Extract

CONSTANTS Parts,       \* pieces of clipboard texts, by name
          Meaning,     \* the commands a piece holds
          Requests     \* what is asked

TextOf(parts) == FlattenSeq([i \in 1..Len(parts) |-> Parts[parts[i]]])

\* What a text is, read without a scanner.  A mark is escaped by an odd number of
\* backslashes before it; a string is open behind an odd number of quotes that are not.
Escaped(text, i) ==
  \E m \in 1..i - 1 : /\ (i - m) % 2 = 0 /\ text[m] # "backslash"
                      /\ \A j \in m + 1..i - 1 : text[j] = "backslash"
Quotes(text) == {i \in 1..Len(text) : text[i] = "quote" /\ ~ Escaped(text, i)}
InString(text, i) == Cardinality(Quotes(text) \cap 1..i) % 2 = 1
Braces(text, brace) == {i \in 1..Len(text) : text[i] = brace /\ ~ InString(text, i)}
Unclosed(text, i) ==
  Cardinality(Braces(text, "{") \cap 1..i) - Cardinality(Braces(text, "}") \cap 1..i)

\* Text without an opening brace, and one whole object: JSON, so far as Extract looks at
\* it, with backslashes in strings only.
Plain(text) == \A i \in 1..Len(text) : text[i] # "{"
IsObject(text) ==
  /\ text # <<>> /\ text[1] = "{" /\ Unclosed(text, Len(text)) = 0
  /\ \A i \in 1..Len(text) - 1 : Unclosed(text, i) > 0
  /\ \A i \in 1..Len(text) : text[i] = "backslash" => InString(text, i)

\* A piece is either, unless its name is "open"; an object without the sentinel holds no
\* other.
ASSUME PartAssumption ==
  \A p \in DOMAIN Parts :
    LET text == Parts[p]
        named == IsObject(text) /\ Holds(text, Sentinel)
    IN /\ text \in Seq(STRING)
       /\ p # "open" => \/ named \/ Plain(text)
                        \/ IsObject(text) /\ Plain(Tail(text))
       /\ p # "open" => Meaning[p] = IF named /\ IsCommand(text) THEN <<Json[text]>> ELSE <<>>

\* A path of a command may hold dots and doubled separators; the working directory is
\* clean, and absolute.
ASSUME RequestAssumption ==
  \A r \in Requests :
    /\ r.kind # "extract" => r.workdir \in Seq(Names)
    /\ r.kind \notin {"extract", "files"} => r.path.names \in Seq(Names \cup Dots)
    /\ r.kind \notin {"extract", "resolve"} => IsDisk(r.disk)
    /\ r.kind = "read" => r.lines \in Seq(Int)
    /\ r.kind = "grep" => r.context \in Int
    /\ r.kind = "tree" => r.depth \in Int
    /\ r.kind = "extract" =>
         /\ r.parts \in Seq(DOMAIN Parts) /\ r.cut \in 0..Len(TextOf(r.parts))

VARIABLES request, answered, answer

vars == <<request, answered, answer>>

\* Dispatcher.execute for the operations that look, the watcher's call of Extract,
\* the sandbox and the viewer.
Serve(r) ==
  CASE r.kind = "extract" -> Commands(SubSeq(TextOf(r.parts), 1, r.cut))
    [] r.kind = "resolve" -> Resolve(r.workdir, r.path)
    [] r.kind = "read" -> Read(r.disk, r.workdir, r)
    [] r.kind = "grep" -> Grep(r.disk, r.workdir, r)
    [] r.kind = "find" -> Find(r.disk, r.workdir, r)
    [] r.kind = "tree" -> Tree(r.disk, r.workdir, r)
    [] r.kind = "files" -> Browse(r.disk, r.workdir)
    [] r.kind = "view" -> Viewed(r.disk, r.workdir, r)

Init == request \in Requests /\ answered = FALSE /\ answer = <<>>
Next == ~ answered /\ answered' = TRUE /\ answer' = Serve(request) /\ UNCHANGED request
Spec == Init /\ [][Next]_vars

Asked(kind) == answered /\ request.kind = kind
\* Asked about the files, and not refused.
Shown(kind) == Asked(kind) /\ answer.ok /\ ~ answer.truncated
Root == Resolve(request.workdir, request.path)

-------------------------------------------------------------------------------
(* Extract.                                                                   *)

Meant(parts) == FlattenSeq([i \in 1..Len(parts) |-> Meaning[parts[i]]])

\* How many pieces the text has in full.
Complete ==
  Max({i \in 0..Len(request.parts) : Len(TextOf(SubSeq(request.parts, 1, i))) <= request.cut})

\* None of the objects in a piece, but the first, has a sentinel.
Sealed(text) ==
  \A i \in 2..Len(text) : text[i] = "{" => ~ Holds(SubSeq(text, i, Len(text)), Sentinel)

\* Every command of a text is found, once and in its order, and nothing else is:
\* whatever prose, quotes, closing braces, other objects and answers of the daemon
\* stand between them, whatever braces and quotes their own strings hold, and
\* wherever the selection was cut off, unless in an object that holds a command.
CommandsFound ==
  /\ Asked("extract") /\ ~ Contains(request.parts, "open")
  /\ Complete < Len(request.parts) => Sealed(Parts[request.parts[Complete + 1]])
  => answer = Meant(SubSeq(request.parts, 1, Complete))

\* The commands among the objects in a piece, which a cut behind them lays bare.
Inside(text) ==
  LET object(i) == {o \in {SubSeq(text, i, j) : j \in i..Len(text)} : IsObject(o)}
      starts == {i \in 2..Len(text) : \E o \in object(i) : IsCommand(o)}
      inOrder == SetToSortSeq(starts, <)
  IN [k \in 1..Len(inOrder) |-> Json[CHOOSE o \in object(inOrder[k]) : TRUE]]

\* An opening brace that the text does not close can hide a command behind it, and a cut
\* in an object lays bare the commands it holds; but nothing else is ever invented,
\* repeated or reordered.
NothingInvented ==
  Asked("extract") =>
    LET meant == Meant(SubSeq(request.parts, 1, Complete))
                 \o (IF Complete = Len(request.parts) THEN <<>>
                     ELSE Inside(Parts[request.parts[Complete + 1]])) IN
      \E kept \in SUBSET (1..Len(meant)) :
        answer = [k \in 1..Cardinality(kept) |-> meant[SetToSortSeq(kept, <)[k]]]

-------------------------------------------------------------------------------
(* The sandbox and the operations that look.                                   *)

\* Resolve accepts what is in the working directory, the directory itself included,
\* and nothing else: not a sibling whose name begins like it.  With "/" as working
\* directory it refuses everything but "/" (sandbox.go:20 has "//" to compare with).
ResolveExact ==
  Asked("resolve") =>
    LET abs == Clean(IF request.path.abs THEN request.path.names
                     ELSE request.workdir \o request.path.names)
        inside == IF request.workdir = <<>> THEN abs = <<>>
                  ELSE /\ Len(abs) >= Len(request.workdir)
                       /\ \A i \in 1..Len(request.workdir) : abs[i] = request.workdir[i]
    IN answer = IF inside THEN abs ELSE Escape

\* A read shows exactly the lines of its range; one that is too long costs the answer
\* only if the range, or the line behind it, reaches it.
ReadShowsRange ==
  Asked("read") /\ IsFile(request.disk, Root) =>
    LET lines == request.disk[Root]
        ranged == Len(request.lines) = 2 /\ request.lines[1] > 0
        first == IF ranged THEN request.lines[1] ELSE 1
        last == IF ranged THEN request.lines[2] ELSE Len(lines)
        size == Max({0, Min({last, Len(lines)}) - first + 1})
    IN /\ answer.ok => answer.body = [k \in 1..Min({size, MaxOutput}) |-> first + k - 1]
       /\ (\A i \in 1..Len(lines) : lines[i] = "long" => i > last + 1 /\ i > first) => answer.ok

\* grep shows every line near a match once, in the order of the file, and no other.  A
\* mark means a match; a match has no mark only if an earlier one has shown it.
GrepShowsNeighbours ==
  Shown("grep") =>
    \A k \in 1..Len(answer.body) :
      LET lines == request.disk[answer.body[k].file]
          shown == answer.body[k].shown
          near(i) == {j \in 1..Len(lines) : i - request.context <= j /\ j <= i + request.context}
          hits == {i \in 1..Len(lines) : lines[i] = "hit"}
      IN /\ \A a, b \in 1..Len(shown) : a < b => shown[a][1] < shown[b][1]
         /\ {shown[a][1] : a \in 1..Len(shown)} = UNION {near(i) : i \in hits}
         /\ \A a \in 1..Len(shown) :
              (shown[a][2] = Hit) # (shown[a][1] \in hits)
                => shown[a][1] \in hits /\ \E i \in hits : i < shown[a][1] /\ shown[a][1] \in near(i)

\* The walk order: a directory before what is in it, siblings as they are sorted.
Rank(n) == CHOOSE i \in 1..Len(Order) : Order[i] = n
Before(p, q) ==
  \/ Len(p) < Len(q) /\ SubSeq(q, 1, Len(p)) = p
  \/ \E i \in 1..Len(p) : /\ i <= Len(q) /\ SubSeq(p, 1, i - 1) = SubSeq(q, 1, i - 1)
                          /\ p[i] # q[i] /\ Rank(p[i]) < Rank(q[i])
Sorted(paths) == \A a, b \in 1..Len(paths) : a < b => Before(paths[a], paths[b])

\* What is below the root of a search and in no directory of the three pruned ones;
\* the root itself counts when it is one of them.
Searchable ==
  {p \in DOMAIN request.disk :
     /\ IsPrefix(Root, p)
     /\ \A i \in Len(Root)..Len(p) :
          LET above == SubSeq(p, 1, i) IN
            IsDir(request.disk, above) => Base(above) \notin Pruned}

\* find lists every entry it should, once and sorted, and grep looks into every file
\* it should: a pruned name hides a directory, never a file.
WalkIsComplete ==
  /\ Shown("find") =>
       /\ Sorted(answer.body)
       /\ ToSet(answer.body) =
            {p \in Searchable : request.name = Unset \/ Base(p) = request.name}
  /\ Shown("grep") =>
       {answer.body[k].file : k \in 1..Len(answer.body)} =
         {p \in Searchable : /\ IsFile(request.disk, p) /\ Fits(request.disk[p])
                             /\ request.ext = {} \/ Extension[Last(p)] \in request.ext
                             /\ request.context >= 0 /\ Contains(request.disk[p], "hit")}

\* tree draws every entry down to its depth that is not ignored, sorted; no entry
\* follows a corner in the same directory, and a directory without a corner ends with
\* an ignored entry.
TreeIsComplete ==
  Shown("tree") =>
    LET row(a) == answer.body[a].path
        depth == IF request.depth <= 0 THEN 4 ELSE request.depth
        drawn == {p \in DOMAIN request.disk :
                    /\ IsPrefix(Root, p) /\ Len(p) \in Len(Root) + 1 .. Len(Root) + depth
                    /\ \A i \in Len(Root) + 1..Len(p) :
                         p[i] \notin DefaultIgnore \cup request.ignore}
    IN /\ Sorted([a \in 1..Len(answer.body) |-> row(a)])
       /\ {row(a) : a \in 1..Len(answer.body)} = drawn
       /\ \A a \in 1..Len(answer.body) :
            answer.body[a].corner <=>
              \A n \in ToSet(Entries(request.disk, Front(row(a)))) :
                n = Last(row(a)) \/ Rank(n) < Rank(Last(row(a)))

\* The browser shows every entry of its three levels that is not pruned, and the link
\* of a file, taken relative to the working directory, leads the viewer, which resolves
\* it in the sandbox, back to this very file (with "/" as working directory no link
\* does, as the sandbox refuses them all).  There the user sees what the operation
\* read would answer: the same lines, numbered the same, but for the empty ones at the
\* end of the file.
BrowserOpens ==
  /\ Shown("files") =>
       LET row(k) == answer.body[k]
           levels == Len(request.workdir) + 1 .. Len(request.workdir) + 3
       IN /\ {row(k).path : k \in 1..Len(answer.body)} =
               {p \in DOMAIN request.disk :
                  /\ IsPrefix(request.workdir, p) /\ Len(p) \in levels
                  /\ \A i \in levels : i <= Len(p) => p[i] \notin Pruned}
          /\ \A k \in 1..Len(answer.body) :
               IsFile(request.disk, row(k).path) /\ request.workdir # <<>> =>
                 /\ Resolve(request.workdir, row(k).link) = row(k).path
                 /\ Viewed(request.disk, request.workdir, [path |-> row(k).link]).ok
  /\ Shown("view") =>
       LET read == ReadAll(request.disk[Root]) IN
         ~ read.failed =>
           /\ answer.body = <<1>> \/ IsPrefix(answer.body, read.lines)
           /\ \A i \in Len(answer.body) + 1..Len(read.lines) : request.disk[Root][i] = ""
===============================================================================
