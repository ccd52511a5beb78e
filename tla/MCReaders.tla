------------------------------ MODULE MCReaders ------------------------------
(***************************************************************************)
(* An instance of Readers for TLC: texts of at most three pieces, cuts of those  *)
(* of two, every small path in four working directories, every                *)
(* file of at most four lines, and trees whose entries have ordinary, pruned    *)
(* and ignored names.                                                        *)
(***************************************************************************)
EXTENDS Readers, TLC

A == <<"{">> \o Sentinel \o <<"A", "}">>
\* The string of B holds braces and an escaped "ok": of its own.
B == <<"{">> \o Sentinel \o
     <<"quote", "}", "backslash", "quote", "ok", "backslash", "quote",
       "colon", "backslash", "quote", "{", "backslash", "quote", "quote", "}">>
Old == <<"{">> \o Sentinel \o <<"old", "}">>
NoOp == <<"{">> \o Sentinel \o <<"}">>
Answer == <<"{">> \o Sentinel \o OkKey \o <<"A", "}">>
Pipeline == <<"{">> \o Sentinel \o Answer \o <<"}">>
Wrapper == <<"{">> \o A \o <<"}">>

Read10(op) == [version |-> "1.0", op |-> op]
MCJson ==
  (A :> Read10("read")) @@ (B :> Read10("write")) @@ (NoOp :> Read10(""))
  @@ (Answer :> Read10("read")) @@ (Pipeline :> Read10(""))
  @@ (Old :> [version |-> "0.9", op |-> "read"]) @@ (Wrapper :> [version |-> "", op |-> ""])

MCParts ==
  [prose |-> <<"x">>, quote |-> <<"quote">>, close |-> <<"}">>, slash |-> <<"backslash">>,
   open |-> <<"{">>, A |-> A, B |-> B, answer |-> Answer, pipeline |-> Pipeline,
   old |-> Old, noOp |-> NoOp, foreign |-> <<"{", "x", "}">>,
   junk |-> <<"{", "x">> \o Sentinel \o <<"}">>, wrapper |-> Wrapper]
MCMeaning ==
  [p \in DOMAIN MCParts |->
     IF p = "A" THEN <<Read10("read")>> ELSE IF p = "B" THEN <<Read10("write")>> ELSE <<>>]

Sequences(S, n) == UNION {[1..k -> S] : k \in 1..n}
Length(p) == Len(FlattenSeq([i \in 1..Len(p) |-> MCParts[p[i]]]))
MaxText == 36
Cut(p, k) == [kind |-> "extract", parts |-> p, cut |-> k]
Extracts ==
  {Cut(p, Length(p)) : p \in {q \in Sequences(DOMAIN MCParts, 3) : Length(q) <= MaxText}}
  \cup UNION {{Cut(p, k) : k \in 1..Length(p)} :
                p \in {"B", "open", "quote", "prose"} \X DOMAIN MCParts}

Resolves ==
  {[kind |-> "resolve", workdir |-> w, path |-> [abs |-> a, names |-> n]] :
     w \in {<<>>, <<"w">>, <<"w", "x">>, <<"x", "w">>}, a \in BOOLEAN,
     n \in Sequences({"w", "x", "wx", "..", "."}, 3)}

MCOrder == <<".git", "a", "b.go", "d", "node_modules", "vendor", "w", "wx", "z">>
MCChars == [w |-> <<"w">>, x |-> <<"x">>, wx |-> <<"w", "x">>]
           @@ [n \in ToSet(MCOrder) |-> <<n>>]   \* one character is enough for these
MCExtension == [n \in ToSet(MCOrder) |-> IF n = "b.go" THEN ".go" ELSE ""]

Files(n) == UNION {[1..k -> {"hit", "text", "", "long"}] : k \in 0..n}
Small(content) == (<<>> :> Directory) @@ (<<"w">> :> Directory) @@ (<<"w", "a">> :> content)
At(names) == [abs |-> FALSE, names |-> names]

Reads ==
  {[kind |-> "read", workdir |-> <<"w">>, path |-> At(<<"a">>), disk |-> Small(f), lines |-> l] :
     f \in Files(3) \cup {[i \in 1..6 |-> "text"]}, l \in {<<>>, <<1>>, <<0, 2>>} \cup {<<i, j>> : i \in 1..3, j \in 0..3}}
  \cup {[kind |-> "view", workdir |-> <<"w">>, path |-> At(p), disk |-> Small(f)] :
          f \in Files(4), p \in {<<"a">>, <<".">>}}
Greps ==
  {[kind |-> "grep", workdir |-> <<"w">>, path |-> At(<<"a">>), disk |-> Small(f),
    pattern |-> "hit", ext |-> {}, context |-> c] : f \in Files(4), c \in {-1, 0, 1, 2}}

Disk(n1, n2, n3) ==
  (<<>> :> Directory) @@ (<<"w">> :> Directory) @@ (<<"w", n1>> :> Directory) @@ (<<"w", n1, n2>> :> Directory)
  @@ (<<"w", n1, n2, "b.go">> :> <<"hit">>) @@ (<<"w", n1, "z">> :> <<"text", "hit">>)
  @@ (<<"w", n3>> :> <<"hit", "text">>) @@ (<<"wx">> :> Directory)
Disks == {Disk(n[1], n[2], n[3]) :
            n \in {m \in {"d", "vendor", ".git"} \X {"a", "node_modules", "vendor"}
                         \X {"b.go", "vendor", "z"} : m[1] # m[3]}}
Roots == {At(<<".">>), At(<<"d">>), At(<<"vendor">>), At(<<"d", "vendor">>), At(<<"vendor", "a">>),
          At(<<"..", "wx">>), [abs |-> TRUE, names |-> <<"w", "z">>]}
Walks ==
  {[kind |-> "find", workdir |-> <<"w">>, path |-> r, disk |-> d, name |-> n] :
     r \in Roots, d \in Disks, n \in {"", "b.go", "vendor"}}
  \cup {[kind |-> "grep", workdir |-> <<"w">>, path |-> r, disk |-> d, pattern |-> p,
         ext |-> e, context |-> 0] :
          r \in Roots, d \in Disks, p \in {"", "(", "hit"}, e \in {{}, {".go"}}}
  \cup {[kind |-> "tree", workdir |-> <<"w">>, path |-> r, disk |-> d, depth |-> n, ignore |-> i] :
          r \in Roots, d \in Disks, n \in 0..3, i \in {{}, {"z"}}}

Deep == Disk("d", "a", "z") @@ (<<"w", "d", "a", "d">> :> Directory)
        @@ (<<"w", "d", "a", "d", "z">> :> <<"text">>)
Browses == {[kind |-> "files", workdir |-> w, disk |-> d] :
              w \in {<<>>, <<"w">>, <<"w", "d">>}, d \in Disks \cup {Deep}}

\* The whole file system as working directory.
Whole == [workdir |-> <<>>, path |-> At(<<".">>), disk |-> Deep]
Wholes == {[kind |-> "find", name |-> ""] @@ Whole, [kind |-> "tree", depth |-> 0, ignore |-> {}] @@ Whole,
           [kind |-> "grep", pattern |-> "hit", ext |-> {}, context |-> 0] @@ Whole}

MCRequests == Browses \cup Wholes \cup Extracts \cup Resolves \cup Reads \cup Greps \cup Walks
===============================================================================
