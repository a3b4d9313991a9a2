------------------------------ MODULE FsRakazo ------------------------------
(***************************************************************************)
(* The file provider's calls on one path, each a sequence of round-trips   *)
(* to a computer, while other calls and commands change the file.          *)
(*                                                                         *)
(* A text is the set of the calls whose change it holds: a write leaves    *)
(* its own mark alone, an edit adds its mark to the text it read.  The     *)
(* size of a text is the number of its marks, so that different texts may  *)
(* have the same size, and its time is a whole second.                     *)
(*                                                                         *)
(* A call goes                                                             *)
(*   idle -> probing -> reading -> writing -> stamping -> done             *)
(* with one round-trip per phase, and is abandoned when its write was sent *)
(* and the answer is not waited for.                                       *)
(***************************************************************************)
EXTENDS Naturals, FiniteSets

CONSTANTS
  Calls,        \* calls of writeText and editText
  Home,         \* the default computer: all that reads see
  Own,          \* the session's computer: where writes and edits go
  LastSecond,   \* the bound of the clock
  Fractional,   \* the version of a listing, with fractions of a second
  None

Computers == {Home, Own}

Texts    == SUBSET Calls
Files    == [kind: {"none", "file", "other"}, text: Texts, second: 0..LastSecond]
NoFile   == [kind |-> "none", text |-> {}, second |-> 0]

\* A listing's version, whatever the file, is no stat's version.
Versions == [size: 0..Cardinality(Calls), second: 0..LastSecond] \cup {Fractional}

Guards   == {"none", "createIfAbsent", "replaceIfVersion"}
Phases   == {"idle", "probing", "reading", "writing", "stamping", "abandoned", "done"}
Results  == {"written", "stale", "unobserved", "irregular", "unread", "failed"}
Refusals == {"stale", "unobserved", "irregular", "unread"}

ASSUME FsAssumption ==
  /\ Home # Own /\ IsFiniteSet(Calls) /\ LastSecond \in Nat
  /\ None \notin Computers \cup Refusals

VARIABLES
  file,      \* per computer, the entry at the path
  second,    \* the clock of the computers
  known,     \* the versions callers were given
  call,      \* per call: write or edit, its computer, its guard, its version
  phase,     \* per call, how far it is
  seen,      \* per call, the text an edit has read
  result,    \* per call, what its caller was told, or None
  touched    \* history: the calls whose file changed since they last looked

vars == <<file, second, known, call, phase, seen, result, touched>>

NoCall == [op |-> None, computer |-> None, guard |-> "none", version |-> None]

TypeOK ==
  /\ file \in [Computers -> Files]
  /\ second \in 0..LastSecond
  /\ known \in SUBSET Versions
  /\ call \in [Calls -> [op: {"write", "edit", None}, computer: Computers \cup {None},
                         guard: Guards, version: Versions \cup {None}]]
  /\ phase \in [Calls -> Phases]
  /\ seen \in [Calls -> Texts]
  /\ result \in [Calls -> Results \cup {None}]
  /\ touched \in SUBSET Calls

Init ==
  /\ file \in [Computers -> {NoFile, [NoFile EXCEPT !.kind = "file"]}]
  /\ second = 0
  /\ known = {}
  /\ call = [c \in Calls |-> NoCall]
  /\ phase = [c \in Calls |-> "idle"]
  /\ seen = [c \in Calls |-> {}]
  /\ result = [c \in Calls |-> None]
  /\ touched = {}

VersionOf(f) == [size |-> Cardinality(f.text), second |-> f.second]

FileOf(c) == file[call[c].computer]

\* A computer's entry becomes f: what the calls at work there know is old.
Outdates(m, f) ==
  /\ file' = [file EXCEPT ![m] = f]
  /\ touched' = touched \cup {c \in Calls : call[c].computer = m
                               /\ phase[c] \in {"reading", "writing", "abandoned"}}

-----------------------------------------------------------------------------
(* Reads and listings answer in one round-trip, from the default computer.  *)

Stat ==
  /\ file[Home].kind # "none"
  /\ known' = known \cup {VersionOf(file[Home])}
  /\ UNCHANGED <<file, second, call, phase, seen, result, touched>>

ListDir ==
  /\ file[Home].kind # "none"
  /\ known' = known \cup {Fractional}
  /\ UNCHANGED <<file, second, call, phase, seen, result, touched>>

-----------------------------------------------------------------------------
(* writeText and editText.                                                  *)

Begins(c, op, m, guard, v) ==
  /\ phase[c] = "idle"
  /\ call' = [call EXCEPT ![c] = [op |-> op, computer |-> m, guard |-> guard, version |-> v]]
  /\ phase' = [phase EXCEPT ![c] = "probing"]
  /\ UNCHANGED <<file, second, known, seen, result, touched>>

\* With a version the caller was given, or without.
WriteText(c, m) ==
  \/ Begins(c, "write", m, "none", None)
  \/ Begins(c, "write", m, "createIfAbsent", None)
  \/ \E v \in known : Begins(c, "write", m, "replaceIfVersion", v)

EditText(c, m) ==
  \/ Begins(c, "edit", m, "none", None)
  \/ \E v \in known : Begins(c, "edit", m, "replaceIfVersion", v)

\* Mutant: a version is its time.
ChangedByTime(c, f) ==
  /\ call[c].guard = "replaceIfVersion"
  /\ call[c].version = Fractional \/ f.second # call[c].version.second

Changed(c, f) == call[c].guard = "replaceIfVersion" /\ VersionOf(f) # call[c].version

\* Mutant: an empty file may be overwritten unread.
UnobservedText(c, f) == call[c].guard = "createIfAbsent" /\ f.text # {}

Unobserved(c, f) == call[c].guard = "createIfAbsent"

\* What the probe's answer says against going on.
Objection(c, f) ==
  CASE f.kind = "other" -> "irregular"
    [] f.kind = "none" /\ (call[c].op = "edit" \/ call[c].guard = "replaceIfVersion") -> "stale"
    [] f.kind = "file" /\ Changed(c, f) -> "stale"
    [] f.kind = "file" /\ Unobserved(c, f) -> "unobserved"
    [] OTHER -> None

Ends(c, how) ==
  /\ phase' = [phase EXCEPT ![c] = "done"]
  /\ result' = [result EXCEPT ![c] = how]
  /\ call' = [call EXCEPT ![c] = NoCall]
  /\ seen' = [seen EXCEPT ![c] = {}]
  /\ touched' = touched \ {c}

Goes(c, next) ==
  /\ phase' = [phase EXCEPT ![c] = next]
  /\ UNCHANGED <<call, result>>

Probe(c) ==
  LET objection == Objection(c, FileOf(c)) IN
  /\ phase[c] = "probing"
  /\ IF objection # None THEN Ends(c, objection)
     ELSE /\ Goes(c, IF FileOf(c).kind = "none" THEN "writing" ELSE "reading")
          /\ UNCHANGED <<seen, touched>>
  /\ UNCHANGED <<file, second, known>>

\* The diff basis of a write: it decides nothing and never fails.
ReadForDiff(c) ==
  /\ phase[c] = "reading" /\ call[c].op = "write"
  /\ Goes(c, "writing")
  /\ UNCHANGED <<file, second, known, seen, touched>>

\* Mutant: the read goes where reads go.
ReadForEditAtHome(c) ==
  /\ phase[c] = "reading" /\ call[c].op = "edit"
  /\ Goes(c, "writing")
  /\ seen' = [seen EXCEPT ![c] = file[Home].text]
  /\ touched' = touched \ {c}
  /\ UNCHANGED <<file, second, known>>

\* The text is what the file holds now, not what the probe saw.  It may be no
\* text, be gone, or not hold the string to replace, once and only once.
ReadForEdit(c) ==
  /\ phase[c] = "reading" /\ call[c].op = "edit"
  /\ \/ /\ FileOf(c).kind = "file"
        /\ Goes(c, "writing")
        /\ seen' = [seen EXCEPT ![c] = FileOf(c).text]
        /\ touched' = touched \ {c}
     \/ Ends(c, "unread")
  /\ UNCHANGED <<file, second, known>>

Edited(c) == IF call[c].op = "edit" THEN seen[c] \cup {c} ELSE {c}

\* Whatever is there now is replaced, unless it is no file.
BridgeWrites(c) ==
  /\ phase[c] \in {"writing", "abandoned"} /\ FileOf(c).kind # "other"
  /\ Outdates(call[c].computer, [kind |-> "file", text |-> Edited(c), second |-> second])
  /\ Goes(c, IF phase[c] = "writing" THEN "stamping" ELSE "done")
  /\ UNCHANGED <<second, known, seen>>

\* Mutant: a file gone by then has no version.
StampGone(c) ==
  /\ phase[c] = "stamping"
  /\ known' = known \cup {IF FileOf(c).kind = "none" THEN None ELSE VersionOf(FileOf(c))}
  /\ Ends(c, "written")
  /\ UNCHANGED <<file, second>>

\* The version handed to the caller is what the file has by then.
Stamp(c) ==
  /\ phase[c] = "stamping"
  /\ known' = IF FileOf(c).kind = "none" THEN known ELSE known \cup {VersionOf(FileOf(c))}
  /\ Ends(c, "written")
  /\ UNCHANGED <<file, second>>

\* Mutant: a write that failed is reported as a changed file.
FailsAsStale(c) ==
  /\ \/ /\ phase[c] \in {"probing", "reading", "writing", "stamping"}
        /\ Ends(c, "failed")
     \/ /\ phase[c] = "writing"
        /\ phase' = [phase EXCEPT ![c] = "abandoned"]
        /\ result' = [result EXCEPT ![c] = "stale"]
        /\ UNCHANGED <<call, seen, touched>>
  /\ UNCHANGED <<file, second, known>>

\* A round-trip fails, is refused, times out or is aborted: the write may still land.
Fails(c) ==
  /\ \/ /\ phase[c] \in {"probing", "reading", "writing", "stamping"}
        /\ Ends(c, "failed")
     \/ /\ phase[c] = "writing"
        /\ phase' = [phase EXCEPT ![c] = "abandoned"]
        /\ result' = [result EXCEPT ![c] = "failed"]
        /\ UNCHANGED <<call, seen, touched>>
  /\ UNCHANGED <<file, second, known>>

-----------------------------------------------------------------------------
(* The world at the computer.                                               *)

\* A command removes the file, or puts something else there.
CommandReplaces(m) ==
  /\ \/ /\ file[m].kind # "none"
        /\ Outdates(m, NoFile)
     \/ /\ file[m].kind = "none"
        /\ Outdates(m, [kind |-> "other", text |-> {}, second |-> second])
  /\ UNCHANGED <<second, known, call, phase, seen, result>>

Tick ==
  /\ second < LastSecond
  /\ second' = second + 1
  /\ UNCHANGED <<file, known, call, phase, seen, result, touched>>

-----------------------------------------------------------------------------
Next ==
  \/ \E c \in Calls :
       \/ \E m \in Computers : WriteText(c, m) \/ EditText(c, m)
       \/ Probe(c) \/ ReadForDiff(c) \/ ReadForEdit(c)
       \/ BridgeWrites(c) \/ Stamp(c) \/ Fails(c)
  \/ Stat \/ ListDir
  \/ \E m \in Computers : CommandReplaces(m)
  \/ Tick

Spec == Init /\ [][Next]_vars
-----------------------------------------------------------------------------
(* What a guarded call is worth when others write the file too.             *)

Lands(c) == phase[c] \in {"writing", "abandoned"}

\* A write on condition of a version replaces a file of that version, or one
\* that changed after its probe: the check and the write are two round-trips,
\* and this window is all that they leave open.
GuardHoldsButForTheWindow ==
  \A c \in Calls \ touched :
    Lands(c) /\ call[c].guard = "replaceIfVersion" /\ call[c].op = "write" =>
      FileOf(c).kind = "file" /\ VersionOf(FileOf(c)) = call[c].version

\* Likewise a write on condition that there is no file creates one, or meets
\* one that came after its probe.
CreationHoldsButForTheWindow ==
  \A c \in Calls \ touched :
    Lands(c) /\ call[c].guard = "createIfAbsent" => FileOf(c).kind = "none"

\* An edit loses no change made before its own read, whenever the probe was:
\* what it writes holds all that the file held, unless that came in between.
EditKeepsEarlierChanges ==
  [][\A c \in Calls \ touched :
       Lands(c) /\ call[c].op = "edit" /\ file'[call[c].computer] # FileOf(c)
         /\ c \in file'[call[c].computer].text =>
           FileOf(c).text \subseteq file'[call[c].computer].text]_vars

\* A call that was refused has left no change, on any computer, and no late
\* request of it will.
RefusedCallLeavesNoChange ==
  \A c \in Calls : result[c] \in Refusals =>
    phase[c] = "done" /\ \A m \in Computers : c \notin file[m].text
=============================================================================
