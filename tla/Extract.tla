------------------------------- MODULE Extract -------------------------------
(***************************************************************************)
(* parser.go: the commands in the text of a clipboard.  A text is a sequence   *)
(* of marks: the braces, the quote and the backslash that extractObject looks   *)
(* at, the key _clipdev and the key ok that are searched for, and words for     *)
(* everything between them.                                                  *)
(***************************************************************************)
EXTENDS Naturals, Sequences, SequencesExt

CONSTANT Json      \* what json.Unmarshal makes of a text: a function on those it reads

Sentinel == <<"quote", "_clipdev", "quote">>
OkKey == <<"quote", "ok", "quote", "colon">>

Holds(text, part) == \E i \in 0..Len(text) - Len(part) :
                       SubSeq(text, i + 1, i + Len(part)) = part

-------------------------------------------------------------------------------
(* A slip a maintainer could make; no specification uses it.                   *)

\* A quote ends a string even after a backslash.
StepUnescaped(scan, c) ==
  IF scan.end # 0 THEN scan
  ELSE LET s == [scan EXCEPT !.at = @ + 1] IN
    CASE c = "quote" -> [s EXCEPT !.inStr = ~ @]
      [] c = "{" /\ ~ s.inStr -> [s EXCEPT !.depth = @ + 1]
      [] c = "}" /\ ~ s.inStr -> [s EXCEPT !.depth = @ - 1,
                                           !.end = IF s.depth = 1 THEN s.at ELSE 0]
      [] OTHER -> s

-------------------------------------------------------------------------------
\* One character of extractObject.
Step(scan, c) ==
  IF scan.end # 0 THEN scan
  ELSE LET s == [scan EXCEPT !.at = @ + 1] IN
    CASE s.escape -> [s EXCEPT !.escape = FALSE]
      [] ~ s.escape /\ c = "backslash" /\ s.inStr -> [s EXCEPT !.escape = TRUE]
      [] ~ s.escape /\ c = "quote" -> [s EXCEPT !.inStr = ~ @]
      [] ~ s.escape /\ c = "{" /\ ~ s.inStr -> [s EXCEPT !.depth = @ + 1]
      [] ~ s.escape /\ c = "}" /\ ~ s.inStr ->
           [s EXCEPT !.depth = @ - 1, !.end = IF s.depth = 1 THEN s.at ELSE 0]
      [] OTHER -> s

\* Where the object ends that a text begins with, 0 if it does not.
Closing(text) ==
  LET scan[i \in 0..Len(text)] ==
        IF i = 0 THEN [at |-> 0, depth |-> 0, inStr |-> FALSE, escape |-> FALSE, end |-> 0]
        ELSE Step(scan[i - 1], text[i])
  IN scan[Len(text)].end

\* The object that a text begins with; none if it does not hold the sentinel.
Object(text) ==
  LET obj == SubSeq(text, 1, Closing(text)) IN
    IF text[1] = "{" /\ Holds(obj, Sentinel) THEN obj ELSE <<>>

IsCommand(obj) ==
  /\ obj \in DOMAIN Json
  /\ Json[obj].version = "1.0" /\ Json[obj].op # ""
  /\ ~ Holds(obj, OkKey)

-------------------------------------------------------------------------------
\* Another slip.

\* An object that is no command is looked into.
PastCommand(rest) ==
  IF Object(rest) = <<>> \/ ~ IsCommand(Object(rest)) THEN 1 ELSE Len(Object(rest))

-------------------------------------------------------------------------------
\* How far Extract goes on from where rest begins: behind an object it has read, whatever
\* that was, one character when there was none.
Past(rest) == IF Object(rest) = <<>> THEN 1 ELSE Len(Object(rest))

Accepted(obj) == IF obj # <<>> /\ IsCommand(obj) THEN <<Json[obj]>> ELSE <<>>

Commands(text) ==
  LET found[rest \in Seq(STRING)] ==
        IF rest = <<>> THEN <<>>
        ELSE Accepted(Object(rest)) \o found[SubSeq(rest, Past(rest) + 1, Len(rest))]
  IN found[text]
==============================================================================
