------------------------------- MODULE Obsidian -------------------------------
(***************************************************************************)
(* The Obsidian journal: the goroutines that Dispatch starts for operations   *)
(* that went well (writeObsidian), the Publish button (PublishSession), and    *)
(* the configuration form that changes cfg.Obsidian under both.              *)
(*                                                                           *)
(* Nothing waits for a writeObsidian goroutine, so several run at a time.  A   *)
(* sync.Once lets the first one write the header of the session; it is a flag  *)
(* and a mutex, and PublishSession replaces both by new ones.                *)
(***************************************************************************)
EXTENDS Naturals, Sequences, FiniteSets, SequencesExt

CONSTANTS Writers,        \* the operations that went well
          Publishers,     \* the POSTs to /api/publish/obsidian
          Forms, FormOf,  \* the POSTs to /api/config/obsidian and their values
          Config,         \* the configuration the daemon starts with
          Vaults, Files,  \* the values of the fields (titles, categories left out)
          Unset,          \* the empty string
          MaxSecs         \* bound: the seconds the clock counts

\* The handler takes any value of the form: "other" is one the code does not know.
Modes == {"append", "new", "other"}
Obs == (Vaults \cup {Unset}) \X Files \X Modes   \* VaultPath, File, WriteMode

ASSUME FormAssumption ==
  FormOf \in [Forms -> (Vaults \cup {Unset}) \X (Files \cup {Unset}) \X (Modes \cup {Unset})]
ASSUME GoroutineAssumption == Writers \cap Publishers = {}
ASSUME ConfigAssumption == Config \in Obs
ASSUME ValueAssumption == Unset \notin Vaults \cup Files \cup Modes
ASSUME ClockAssumption == MaxSecs \in Nat \ {0}

VARIABLES cfg,      \* cfg.Obsidian
          filled,   \* the fields that the handler of a form has dealt with
          pc,       \* where a writer or a publisher is
          obs,      \* its copy of cfg.Obsidian, field by field
          done,     \* sessionOnce.done
          locked,   \* sessionOnce.m
          journal,  \* the content of the files of the vaults
          now,      \* the clock, in the seconds of the file names
          stamped,  \* history: the second in which a writer wrote, 0 if not to a file of one
          crashed   \* the runtime ended the daemon: unlock of unlocked mutex

configVars == <<cfg, filled>>
onceVars == <<done, locked>>
vars == <<configVars, pc, obs, onceVars, journal, now, stamped, crashed>>

Goroutines == Writers \cup Publishers
Items == {"auto", "published", "entry"} \X Goroutines
\* A vault, a file and, in mode new, the second in its name (0 in the other modes).
Names == Vaults \X Files \X (0..MaxSecs)

TypeOK ==
  /\ cfg \in Obs
  /\ filled \in [Forms -> 0..3]
  /\ pc \in [Goroutines -> {"idle", "copy", "once", "lock", "check", "separator",
                            "mark", "unlock", "entry", "reset", "done"}]
  /\ \A g \in Goroutines : pc[g] \notin {"idle", "copy", "done"} => obs[g] \in Obs
  /\ done \in BOOLEAN /\ locked \in BOOLEAN /\ crashed \in BOOLEAN
  /\ now \in 1..MaxSecs /\ stamped \in [Writers -> 0..MaxSecs]
  /\ journal \in [Names -> Seq(Items)]

Init ==
  /\ cfg = Config
  /\ filled = [f \in Forms |-> 0]
  /\ pc = [g \in Goroutines |-> "idle"]
  /\ obs = [g \in Goroutines |-> <<>>]
  /\ done = FALSE /\ locked = FALSE /\ crashed = FALSE
  /\ journal = [n \in Names |-> <<>>]
  /\ now = 1 /\ stamped = [w \in Writers |-> 0]

Goto(g, from, to) == ~ crashed /\ pc[g] = from /\ pc' = [pc EXCEPT ![g] = to]
File(g, sec) == <<obs[g][1], obs[g][2], sec>>
Appended(name, item) == [journal EXCEPT ![name] = Append(@, item)]
\* The second of an entry: only a file of mode new has it in its name.
Second(w) == IF obs[w][3] = "new" THEN now ELSE 0

-------------------------------------------------------------------------------
(* Slips a maintainer could make; no specification uses them.                  *)

\* The lock is kept when the header has been written.
MarkKeeping(w) ==
  /\ Goto(w, "mark", "entry")
  /\ done' = TRUE
  /\ UNCHANGED <<obs, configVars, locked, journal, now, stamped, crashed>>

\* The flag is not looked at again under the lock.
CheckNothing(w) ==
  /\ Goto(w, "check", "separator")
  /\ UNCHANGED <<obs, configVars, onceVars, journal, now, stamped, crashed>>

\* The name of a file has the minute only, which all the seconds here share.
WriteEntryCoarse(w) ==
  /\ Goto(w, "entry", "done")
  /\ stamped' = [stamped EXCEPT ![w] = Second(w)]
  /\ journal' = IF obs[w][3] = "new"
                  THEN [journal EXCEPT ![File(w, MaxSecs)] = <<<<"entry", w>>>>]
                  ELSE Appended(File(w, 0), <<"entry", w>>)
  /\ UNCHANGED <<obs, configVars, onceVars, now, crashed>>

\* An empty field of the form clears the setting.
FillEmpty(f) ==
  /\ ~ crashed /\ filled[f] < 3
  /\ filled' = [filled EXCEPT ![f] = @ + 1]
  /\ cfg' = [cfg EXCEPT ![filled'[f]] = FormOf[f][filled'[f]]]
  /\ UNCHANGED <<pc, obs, onceVars, journal, now, stamped, crashed>>

-------------------------------------------------------------------------------
(* handleObsidianConfig: one field after the other, an empty one is kept.      *)
Fill(f) ==
  /\ ~ crashed /\ filled[f] < 3
  /\ filled' = [filled EXCEPT ![f] = @ + 1]
  /\ LET i == filled'[f] IN
       cfg' = IF FormOf[f][i] = Unset THEN cfg ELSE [cfg EXCEPT ![i] = FormOf[f][i]]
  /\ UNCHANGED <<pc, obs, onceVars, journal, now, stamped, crashed>>

\* obs := cfg.Obsidian copies the strings in their order, without a lock.
Copy(g, next) ==
  /\ Goto(g, "copy", IF Len(obs[g]) + 1 < 3 THEN "copy" ELSE next)
  /\ obs' = [obs EXCEPT ![g] = Append(@, cfg[Len(@) + 1])]
  /\ UNCHANGED <<configVars, onceVars, journal, now, stamped, crashed>>

WriteSeparator(g, kind, next) ==
  /\ Goto(g, "separator", next)
  /\ journal' = Appended(File(g, 0), <<kind, g>>)
  /\ UNCHANGED <<obs, configVars, onceVars, now, stamped, crashed>>

-------------------------------------------------------------------------------
(* writeObsidian.                                                             *)

Spawn(w) ==
  /\ Goto(w, "idle", IF cfg[1] = Unset THEN "done" ELSE "copy")
  /\ UNCHANGED <<obs, configVars, onceVars, journal, now, stamped, crashed>>

CopyConfig(w) == Copy(w, IF cfg[3] = "append" THEN "once" ELSE "entry")

\* Once.Do: the flag without the lock, the lock, the flag again, the header, the
\* flag, the unlock.
OnceDo(w) ==
  /\ Goto(w, "once", IF done THEN "entry" ELSE "lock")
  /\ UNCHANGED <<obs, configVars, onceVars, journal, now, stamped, crashed>>

Lock(w) ==
  /\ Goto(w, "lock", "check")
  /\ ~ locked /\ locked' = TRUE
  /\ UNCHANGED <<obs, configVars, done, journal, now, stamped, crashed>>

Check(w) ==
  /\ Goto(w, "check", IF done THEN "unlock" ELSE "separator")
  /\ UNCHANGED <<obs, configVars, onceVars, journal, now, stamped, crashed>>

WriteHeader(w) == WriteSeparator(w, "auto", "mark")

Mark(w) ==
  /\ Goto(w, "mark", "unlock")
  /\ done' = TRUE
  /\ UNCHANGED <<obs, configVars, locked, journal, now, stamped, crashed>>

\* Unlock of a mutex that is not locked is a fatal error of the runtime.
Unlock(w) ==
  /\ Goto(w, "unlock", "entry")
  /\ locked' = FALSE /\ crashed' = ~ locked
  /\ UNCHANGED <<obs, configVars, done, journal, now, stamped>>

\* In mode new the file has the second in its name and WriteFile replaces it; in every
\* other mode the entry is appended.
WriteEntry(w) ==
  /\ Goto(w, "entry", "done")
  /\ stamped' = [stamped EXCEPT ![w] = Second(w)]
  /\ journal' = IF obs[w][3] = "new"
                  THEN [journal EXCEPT ![File(w, now)] = <<<<"entry", w>>>>]
                  ELSE Appended(File(w, 0), <<"entry", w>>)
  /\ UNCHANGED <<obs, configVars, onceVars, now, crashed>>

Work(w) == \/ CopyConfig(w) \/ OnceDo(w) \/ Lock(w) \/ Check(w) \/ WriteHeader(w)
           \/ Mark(w) \/ Unlock(w) \/ WriteEntry(w)

-------------------------------------------------------------------------------
(* PublishSession.                                                            *)

Press(p) ==
  /\ Goto(p, "idle", "copy")
  /\ UNCHANGED <<obs, configVars, onceVars, journal, now, stamped, crashed>>

CopyToPublish(p) ==
  Copy(p, IF obs[p] # <<>> /\ obs[p][1] = Unset THEN "done" ELSE "separator")

WritePublished(p) == WriteSeparator(p, "published", "reset")

\* d.sessionOnce = sync.Once{}, whoever holds the mutex that goes away.
Reset(p) ==
  /\ Goto(p, "reset", "done")
  /\ done' = FALSE /\ locked' = FALSE
  /\ UNCHANGED <<obs, configVars, journal, now, stamped, crashed>>

Publish(p) == CopyToPublish(p) \/ WritePublished(p) \/ Reset(p)

Tick == ~ crashed /\ now < MaxSecs /\ now' = now + 1
        /\ UNCHANGED <<configVars, pc, obs, onceVars, journal, stamped, crashed>>

Next == \/ \E f \in Forms : Fill(f)
        \/ \E w \in Writers : Spawn(w) \/ Work(w)
        \/ \E p \in Publishers : Press(p) \/ Publish(p)
        \/ Tick

SafeSpec == Init /\ [][Next]_vars

\* Goroutines that can run do.
Spec == /\ SafeSpec
        /\ \A w \in Writers : WF_vars(Work(w))
        /\ \A p \in Publishers : WF_vars(Publish(p))

-------------------------------------------------------------------------------
(* Properties.                                                                *)

\* The goroutines between Lock and Unlock.  The mutex knows of one at most; when it
\* does not know of some, a Reset came between.
Holders == {w \in Writers : pc[w] \in {"check", "separator", "mark", "unlock"}}
Torn == crashed \/ Cardinality(Holders) # IF locked THEN 1 ELSE 0

Written(kind) ==
  {g \in Goroutines : \E n \in Names : <<kind, g>> \in ToSet(journal[n])}
Resets == {p \in Publishers : pc[p] = "done" /\ p \in Written("published")}

\* As long as no Reset falls into a Do, the daemon writes one header, and at most one
\* more after every press of Publish, however many operations end at the same time; and
\* although they race for it, no entry in mode append gets into the vault before it
\* (dispatch.go, "À la première écriture de la session, un encart de séparation ...").
\* In the other modes the code writes no header: the entries of mode new and of a mode
\* it does not know go in without one.
OneHeaderFirst ==
  /\ ~ Torn => Cardinality(Written("auto")) <= 1 + Cardinality(Resets)
  /\ \A w \in Written("entry") : obs[w][3] = "append"
       => Written("auto") \cup Written("published") # {}

\* An operation that has written its entry finds it in the very file that its own copy
\* of the configuration and its own second name.  It is lost there in one case only: in
\* mode new, when another operation has written the file of that same second.
EntriesStay ==
  \A w \in Writers : pc[w] = "done" /\ obs[w] # <<>> =>
    LET there == ToSet(journal[File(w, stamped[w])]) IN
      \/ <<"entry", w>> \in there
      \/ obs[w][3] = "new" /\ \E v \in Writers \ {w} : <<"entry", v>> \in there

\* Every goroutine of the journal ends: none waits for ever for the mutex, unless the
\* daemon itself has been ended, which a press of Publish while a goroutine is inside
\* Do always leads to: once the mutex has been replaced the last Unlock finds it
\* unlocked, whatever happens in between.
WritersEnd ==
  /\ \A w \in Writers : pc[w] = "copy" ~> pc[w] = "done" \/ crashed
  /\ Torn ~> crashed

-------------------------------------------------------------------------------
(* What the comments say and the code does not do.                             *)

\* The automatic separator is written once per start of the daemon (dispatch.go, "une
\* seule fois par démarrage du daemon", and of Publish: "à la suite sans doublon").
HeaderOnce == Cardinality(Written("auto")) <= 1
===============================================================================
