---------------------------- MODULE FsRakazoProofs ----------------------------
(***************************************************************************)
(* Theorems about FsRakazo, for every finite set of calls.                 *)
(***************************************************************************)
EXTENDS FsRakazo, FiniteSetTheorems, TLAPS

USE FsAssumption

\* A call on its way has a computer and is a write or an edit, and an edit never
\* goes without a file.
CallOK ==
  \A c \in Calls : phase[c] \notin {"idle", "done"} =>
    /\ call[c].computer \in Computers /\ call[c].op \in {"write", "edit"}
    /\ call[c].op = "edit" => call[c].guard # "createIfAbsent"

\* An answer comes with the end, or with the write given up.
ResultOK ==
  \A c \in Calls :
    /\ phase[c] \notin {"abandoned", "done"} => result[c] = None
    /\ phase[c] = "abandoned" => result[c] = "failed"

TypeInv == TypeOK /\ CallOK /\ ResultOK

AtWork(c) == phase[c] \in {"reading", "writing", "abandoned"}

\* What a call that has looked still knows, unless it was outdated: for a write
\* from its probe on, for an edit from its read on.
KnowledgeOK ==
  \A c \in Calls \ touched :
    /\ AtWork(c) /\ call[c].op = "write" /\ call[c].guard = "replaceIfVersion" =>
         FileOf(c).kind = "file" /\ VersionOf(FileOf(c)) = call[c].version
    /\ AtWork(c) /\ call[c].guard = "createIfAbsent" => FileOf(c).kind = "none"
    /\ Lands(c) /\ call[c].op = "edit" => seen[c] = FileOf(c).text

\* Only a call whose write was sent, and that was not refused, left its mark.
Wrote(c) == phase[c] \in {"stamping", "done"} /\ result[c] \notin Refusals

MarksOK ==
  /\ \A c \in Calls, m \in Computers : c \in file[m].text => Wrote(c)
  /\ \A c, d \in Calls : c \in seen[d] => Wrote(c)

FsInv == TypeInv /\ KnowledgeOK /\ MarksOK

-----------------------------------------------------------------------------
(* Types.                                                                   *)

LEMMA VersionIsOne == ASSUME NEW f \in Files PROVE VersionOf(f) \in Versions
<1>1. Cardinality(f.text) \in 0..Cardinality(Calls)
  <2>1. IsFiniteSet(f.text) /\ Cardinality(f.text) <= Cardinality(Calls)
    BY FS_Subset DEF Files, Texts
  <2> QED
    BY <2>1, FS_CardinalityType
<1> QED
  BY <1>1 DEF VersionOf, Versions, Files

\* The refusals of a probe.
LEMMA ObjectionIsARefusal ==
  \A c, f : Objection(c, f) # None => Objection(c, f) \in Refusals
BY DEF Objection, Refusals

LEMMA OutdatesType ==
  ASSUME TypeInv, NEW m \in Computers, NEW f \in Files, Outdates(m, f)
  PROVE  file' \in [Computers -> Files] /\ touched' \in SUBSET Calls
BY DEF Outdates, TypeInv, TypeOK

LEMMA EndsType ==
  ASSUME TypeInv, NEW c \in Calls, NEW how \in Results, Ends(c, how)
  PROVE  /\ call' \in [Calls -> [op: {"write", "edit", None}, computer: Computers \cup {None},
                                 guard: Guards, version: Versions \cup {None}]]
         /\ phase' \in [Calls -> Phases] /\ seen' \in [Calls -> Texts]
         /\ result' \in [Calls -> Results \cup {None}] /\ touched' \in SUBSET Calls
         /\ CallOK' /\ ResultOK'
BY DEF Ends, TypeInv, TypeOK, CallOK, ResultOK, NoCall, Guards, Phases, Texts

LEMMA GoesType ==
  ASSUME TypeInv, NEW c \in Calls, NEW next \in {"reading", "writing", "stamping", "done"},
         phase[c] \in {"probing", "reading", "writing"} \/ next = "done", phase[c] # "idle",
         Goes(c, next)
  PROVE  phase' \in [Calls -> Phases] /\ UNCHANGED <<call, result>> /\ CallOK' /\ ResultOK'
BY DEF Goes, TypeInv, TypeOK, CallOK, ResultOK, Phases

LEMMA TypeStep == TypeInv /\ [Next]_vars => TypeInv'
<1> SUFFICES ASSUME TypeInv, [Next]_vars PROVE TypeInv'
  OBVIOUS
<1>0. TypeOK /\ CallOK /\ ResultOK
  BY DEF TypeInv
<1>1. ASSUME NEW c \in Calls, NEW op \in {"write", "edit"}, NEW m \in Computers,
             NEW guard \in Guards, NEW v \in Versions \cup {None}, Begins(c, op, m, guard, v),
             op = "edit" => guard # "createIfAbsent"
      PROVE  TypeInv'
  BY <1>0, <1>1 DEF Begins, TypeInv, TypeOK, CallOK, ResultOK, Phases
<1>2. ASSUME NEW c \in Calls, NEW m \in Computers, WriteText(c, m) \/ EditText(c, m)
      PROVE  TypeInv'
  BY <1>0, <1>1, <1>2 DEF WriteText, EditText, Guards, TypeOK
<1>3. ASSUME NEW c \in Calls, Probe(c) PROVE TypeInv'
  <2>1. phase[c] = "probing" /\ UNCHANGED <<file, second, known>>
    BY <1>3 DEF Probe
  <2>2. CASE Ends(c, Objection(c, FileOf(c))) /\ Objection(c, FileOf(c)) # None
    BY <1>0, <2>1, <2>2, EndsType, ObjectionIsARefusal DEF TypeInv, TypeOK, Refusals, Results
  <2>3. CASE UNCHANGED <<seen, touched>> /\ \E next \in {"writing", "reading"} : Goes(c, next)
    BY <1>0, <2>1, <2>3, GoesType DEF TypeInv, TypeOK
  <2> QED
    BY <1>3, <2>2, <2>3 DEF Probe
<1>4. ASSUME NEW c \in Calls, ReadForDiff(c) PROVE TypeInv'
  BY <1>0, <1>4, GoesType DEF ReadForDiff, TypeInv, TypeOK
<1>5. ASSUME NEW c \in Calls, ReadForEdit(c) PROVE TypeInv'
  <2>1. phase[c] = "reading" /\ UNCHANGED <<file, second, known>>
    BY <1>5 DEF ReadForEdit
  <2>2. CASE Ends(c, "unread")
    BY <1>0, <2>1, <2>2, EndsType DEF TypeInv, TypeOK, Results
  <2>3. CASE /\ Goes(c, "writing") /\ seen' = [seen EXCEPT ![c] = FileOf(c).text]
             /\ touched' = touched \ {c}
    <3>1. FileOf(c).text \in Texts
      BY <1>0, <2>1 DEF FileOf, TypeOK, CallOK, Files
    <3> QED
      BY <1>0, <2>1, <2>3, <3>1, GoesType DEF TypeInv, TypeOK
  <2> QED
    BY <1>5, <2>2, <2>3 DEF ReadForEdit
<1>6. ASSUME NEW c \in Calls, BridgeWrites(c) PROVE TypeInv'
  <2>1. phase[c] \in {"writing", "abandoned"} /\ call[c].computer \in Computers
    BY <1>0, <1>6 DEF BridgeWrites, CallOK
  <2>2. [kind |-> "file", text |-> Edited(c), second |-> second] \in Files
    BY <1>0 DEF Edited, Files, Texts, TypeOK
  <2>3. /\ phase' = [phase EXCEPT ![c] = IF phase[c] = "writing" THEN "stamping" ELSE "done"]
        /\ UNCHANGED <<call, result, second, known, seen>>
    BY <1>6 DEF BridgeWrites, Goes
  <2>4. CallOK' /\ ResultOK' /\ phase' \in [Calls -> Phases]
    BY <1>0, <2>1, <2>3 DEF TypeOK, CallOK, ResultOK, Phases
  <2> QED
    BY <1>0, <1>6, <2>1, <2>2, <2>3, <2>4, OutdatesType DEF BridgeWrites, TypeInv, TypeOK
<1>7. ASSUME NEW c \in Calls, Stamp(c) PROVE TypeInv'
  <2>1. FileOf(c) \in Files
    BY <1>0, <1>7 DEF Stamp, FileOf, TypeOK, CallOK
  <2>2. known' \in SUBSET Versions
    BY <1>0, <1>7, <2>1, VersionIsOne DEF Stamp, TypeOK
  <2> QED
    BY <1>0, <1>7, <2>2, EndsType DEF Stamp, TypeInv, TypeOK, Results
<1>8. ASSUME NEW c \in Calls, Fails(c) PROVE TypeInv'
  <2>1. CASE Ends(c, "failed")
    BY <1>0, <1>8, <2>1, EndsType DEF Fails, TypeInv, TypeOK, Results
  <2>2. CASE ~Ends(c, "failed")
    <3>1. /\ phase[c] = "writing"
          /\ phase' = [phase EXCEPT ![c] = "abandoned"]
          /\ result' = [result EXCEPT ![c] = "failed"]
          /\ UNCHANGED <<file, second, known, call, seen, touched>>
      BY <1>8, <2>2 DEF Fails
    <3>2. TypeOK'
      BY <1>0, <3>1 DEF TypeOK, Results, Phases
    <3>3. CallOK'
      BY <1>0, <3>1 DEF TypeOK, CallOK
    <3>4. ResultOK'
      BY <1>0, <3>1 DEF TypeOK, ResultOK
    <3> QED
      BY <3>2, <3>3, <3>4 DEF TypeInv
  <2> QED
    BY <2>1, <2>2
<1>9. CASE Stat \/ ListDir
  <2>1. known' \in SUBSET Versions
    BY <1>0, <1>9, VersionIsOne DEF Stat, ListDir, TypeOK, Computers, Versions
  <2> QED
    BY <1>0, <1>9, <2>1 DEF Stat, ListDir, TypeInv, TypeOK, CallOK, ResultOK
<1>10. ASSUME NEW m \in Computers, CommandReplaces(m) PROVE TypeInv'
  <2>1. PICK f \in Files : Outdates(m, f)
    BY <1>0, <1>10 DEF CommandReplaces, NoFile, Files, Texts, TypeOK
  <2> QED
    BY <1>0, <1>10, <2>1, OutdatesType DEF CommandReplaces, TypeInv, TypeOK, CallOK, ResultOK
<1>11. CASE Tick \/ UNCHANGED vars
  BY <1>0, <1>11 DEF Tick, vars, TypeInv, TypeOK, CallOK, ResultOK
<1> QED
  BY <1>2, <1>3, <1>4, <1>5, <1>6, <1>7, <1>8, <1>9, <1>10, <1>11 DEF Next

LEMMA FsInit == Init => FsInv
<1> SUFFICES ASSUME Init PROVE FsInv
  OBVIOUS
<1>1. NoFile \in Files /\ [NoFile EXCEPT !.kind = "file"] \in Files
  BY DEF NoFile, Files, Texts
<1>2. TypeOK
  BY <1>1 DEF Init, TypeOK, NoCall, Guards, Phases, Versions, Texts
<1>3. \A m \in Computers : file[m].text = {}
  BY DEF Init, NoFile
<1> QED
  BY <1>2, <1>3 DEF Init, FsInv, TypeInv, CallOK, ResultOK, KnowledgeOK, MarksOK, AtWork, Lands

-----------------------------------------------------------------------------
(* What the calls know.                                                     *)

KnowsOf(c) ==
  /\ AtWork(c) /\ call[c].op = "write" /\ call[c].guard = "replaceIfVersion" =>
       FileOf(c).kind = "file" /\ VersionOf(FileOf(c)) = call[c].version
  /\ AtWork(c) /\ call[c].guard = "createIfAbsent" => FileOf(c).kind = "none"
  /\ Lands(c) /\ call[c].op = "edit" => seen[c] = FileOf(c).text

LEMMA KnowledgeSplit == KnowledgeOK <=> \A c \in Calls : c \notin touched => KnowsOf(c)
BY DEF KnowledgeOK, KnowsOf

\* A call that does not move knows what it knew, or its file changed.
LEMMA BystanderKnows ==
  ASSUME FsInv, NEW d \in Calls, phase'[d] = phase[d], call'[d] = call[d], seen'[d] = seen[d],
         d \notin touched', d \notin touched,
         \A m \in Computers : file'[m] # file[m] => ~(call[d].computer = m /\ AtWork(d))
  PROVE  KnowsOf(d)'
<1>1. KnowsOf(d)
  BY KnowledgeSplit DEF FsInv
<1>2. AtWork(d) => call[d].computer \in Computers
  BY DEF FsInv, TypeInv, CallOK, AtWork
<1>3. AtWork(d) => file'[call[d].computer] = file[call[d].computer]
  BY <1>2
<1> QED
  BY <1>1, <1>3 DEF KnowsOf, AtWork, Lands, FileOf, VersionOf

\* The file changes under nobody's hands but its own.
LEMMA OutdatesAll ==
  ASSUME FsInv, NEW m \in Computers, NEW f, Outdates(m, f), NEW d \in Calls, d \notin touched'
  PROVE  /\ d \notin touched
         /\ \A n \in Computers : file'[n] # file[n] => ~(call[d].computer = n /\ AtWork(d))
BY DEF Outdates, AtWork, FsInv, TypeInv, TypeOK

\* Its probe tells a guarded call what it has to know.
LEMMA ProbeKnows ==
  ASSUME FsInv, NEW c \in Calls, phase[c] = "probing", Objection(c, FileOf(c)) = None,
         Goes(c, IF FileOf(c).kind = "none" THEN "writing" ELSE "reading"),
         UNCHANGED <<file, seen, touched>>
  PROVE  KnowsOf(c)'
<1>1. FileOf(c).kind \in {"none", "file", "other"} /\ call[c].op \in {"write", "edit"}
  BY DEF FsInv, TypeInv, TypeOK, CallOK, FileOf, Files
<1>2. /\ UNCHANGED call /\ FileOf(c)' = FileOf(c)
      /\ phase'[c] = IF FileOf(c).kind = "none" THEN "writing" ELSE "reading"
  BY DEF Goes, FileOf, FsInv, TypeInv, TypeOK
<1>3. None \notin {"irregular", "stale", "unobserved"}
  BY DEF Refusals
<1>4. FileOf(c).kind # "other"
  BY <1>3 DEF Objection
<1>5. CASE FileOf(c).kind = "none"
  <2>1. call[c].op = "write" /\ call[c].guard # "replaceIfVersion"
    BY <1>1, <1>3, <1>5 DEF Objection
  <2> QED
    BY <1>2, <1>5, <2>1 DEF KnowsOf
<1>6. CASE FileOf(c).kind = "file"
  <2>1. ~Changed(c, FileOf(c))
    BY <1>3, <1>6 DEF Objection
  <2>2. ~Unobserved(c, FileOf(c))
    BY <1>3, <1>6, <2>1 DEF Objection
  <2>3. VersionOf(FileOf(c))' = VersionOf(FileOf(c))
    BY <1>2 DEF VersionOf
  <2> QED
    BY <1>2, <1>6, <2>1, <2>2, <2>3 DEF Changed, Unobserved, KnowsOf, Lands
<1> QED
  BY <1>1, <1>4, <1>5, <1>6

LEMMA KnowledgeStep == FsInv /\ [Next]_vars => KnowledgeOK'
<1> SUFFICES ASSUME FsInv, [Next]_vars, NEW d \in Calls, d \notin touched'
             PROVE  KnowsOf(d)'
  BY KnowledgeSplit DEF KnowledgeOK, KnowsOf
<1>0. /\ TypeOK /\ CallOK /\ (d \notin touched => KnowsOf(d))
  BY KnowledgeSplit DEF FsInv, TypeInv
<1>1. ASSUME NEW c \in Calls, Ends(c, "failed") \/ (\E how \in Refusals : Ends(c, how)) \/ Ends(c, "written"),
             UNCHANGED file
      PROVE  KnowsOf(d)'
  <2>1. CASE d = c
    BY <1>0, <1>1, <2>1 DEF Ends, KnowsOf, AtWork, Lands, TypeOK
  <2>2. CASE d # c
    BY <1>0, <1>1, <2>2, BystanderKnows DEF Ends, TypeOK
  <2> QED
    BY <2>1, <2>2
<1>2. ASSUME NEW c \in Calls, NEW op, NEW m, NEW guard, NEW v, Begins(c, op, m, guard, v)
      PROVE  KnowsOf(d)'
  <2>1. CASE d = c
    BY <1>0, <1>2, <2>1 DEF Begins, KnowsOf, AtWork, Lands, TypeOK
  <2>2. CASE d # c
    BY <1>0, <1>2, <2>2, BystanderKnows DEF Begins, TypeOK
  <2> QED
    BY <2>1, <2>2
<1>3. ASSUME NEW c \in Calls, Probe(c) PROVE KnowsOf(d)'
  <2>1. CASE Objection(c, FileOf(c)) # None
    BY <1>1, <1>3, <2>1, ObjectionIsARefusal DEF Probe
  <2>2. CASE Objection(c, FileOf(c)) = None
    <3>1. CASE d = c
      BY <1>3, <2>2, <3>1, ProbeKnows DEF Probe
    <3>2. CASE d # c
      BY <1>0, <1>3, <2>2, <3>2, BystanderKnows DEF Probe, Goes, TypeOK
    <3> QED
      BY <3>1, <3>2
  <2> QED
    BY <2>1, <2>2
<1>4. ASSUME NEW c \in Calls, ReadForDiff(c) PROVE KnowsOf(d)'
  <2>1. CASE d = c
    BY <1>0, <1>4, <2>1 DEF ReadForDiff, Goes, KnowsOf, AtWork, Lands, FileOf, VersionOf, TypeOK
  <2>2. CASE d # c
    BY <1>0, <1>4, <2>2, BystanderKnows DEF ReadForDiff, Goes, TypeOK
  <2> QED
    BY <2>1, <2>2
<1>5. ASSUME NEW c \in Calls, ReadForEdit(c) PROVE KnowsOf(d)'
  <2>1. CASE Ends(c, "unread")
    BY <1>1, <1>5, <2>1 DEF ReadForEdit, Refusals
  <2>2. CASE ~Ends(c, "unread") /\ d = c
    <3>1. /\ FileOf(c).kind = "file" /\ phase'[c] = "writing" /\ call[c].op = "edit"
          /\ seen'[c] = FileOf(c).text /\ UNCHANGED <<file, call>>
      BY <1>0, <1>5, <2>2 DEF ReadForEdit, Goes, TypeOK
    <3>2. call[c].guard # "createIfAbsent"
      BY <1>0, <1>5 DEF ReadForEdit, CallOK
    <3> QED
      BY <2>2, <3>1, <3>2 DEF KnowsOf, FileOf
  <2>3. CASE ~Ends(c, "unread") /\ d # c
    BY <1>0, <1>5, <2>3, BystanderKnows DEF ReadForEdit, Goes, TypeOK
  <2> QED
    BY <2>1, <2>2, <2>3
<1>6. ASSUME NEW c \in Calls, BridgeWrites(c) PROVE KnowsOf(d)'
  <2>1. call[c].computer \in Computers
    BY <1>0, <1>6 DEF BridgeWrites, CallOK
  <2>2. d # c
    BY <1>0, <1>6 DEF BridgeWrites, Outdates
  <2> QED
    BY <1>0, <1>6, <2>1, <2>2, OutdatesAll, BystanderKnows DEF BridgeWrites, Goes, TypeOK
<1>7. ASSUME NEW c \in Calls, Stamp(c) PROVE KnowsOf(d)'
  BY <1>1, <1>7 DEF Stamp
<1>8. ASSUME NEW c \in Calls, Fails(c) PROVE KnowsOf(d)'
  <2>1. CASE Ends(c, "failed")
    BY <1>1, <1>8, <2>1 DEF Fails
  <2>2. CASE ~Ends(c, "failed") /\ d = c
    BY <1>0, <1>8, <2>2 DEF Fails, KnowsOf, AtWork, Lands, FileOf, VersionOf, TypeOK
  <2>3. CASE ~Ends(c, "failed") /\ d # c
    BY <1>0, <1>8, <2>3, BystanderKnows DEF Fails, TypeOK
  <2> QED
    BY <2>1, <2>2, <2>3
<1>9. ASSUME NEW m \in Computers, CommandReplaces(m) PROVE KnowsOf(d)'
  <2>1. PICK f : Outdates(m, f)
    BY <1>9 DEF CommandReplaces
  <2> QED
    BY <1>0, <1>9, <2>1, OutdatesAll, BystanderKnows DEF CommandReplaces
<1>10. CASE Stat \/ ListDir \/ Tick \/ UNCHANGED vars
  BY <1>0, <1>10, BystanderKnows DEF Stat, ListDir, Tick, vars
<1>11. ASSUME NEW c \in Calls, NEW m \in Computers, WriteText(c, m) \/ EditText(c, m)
       PROVE  KnowsOf(d)'
  BY <1>2, <1>11 DEF WriteText, EditText
<1> QED
  BY <1>3, <1>4, <1>5, <1>6, <1>7, <1>8, <1>9, <1>10, <1>11 DEF Next

-----------------------------------------------------------------------------
(* What the calls leave behind.                                             *)

\* A text is changed by a write alone, which was not refused.
LEMMA MarksFrame ==
  ASSUME FsInv, \A c \in Calls : Wrote(c) => Wrote(c)',
         \A c \in Calls, m \in Computers : c \in file'[m].text => c \in file[m].text \/ Wrote(c)',
         \A c, d \in Calls : c \in seen'[d] => Wrote(c)'
  PROVE  MarksOK'
<1>1. \A c \in Calls, m \in Computers : c \in file[m].text => Wrote(c)
  BY DEF FsInv, MarksOK
<1> QED
  BY <1>1 DEF MarksOK

\* A step of c on its way, which has not written yet.
LEMMA MarksEnd ==
  ASSUME FsInv, NEW c \in Calls,
         Wrote(c) => phase'[c] = "done" /\ result'[c] \notin Refusals,
         \A d \in Calls \ {c} : phase'[d] = phase[d] /\ result'[d] = result[d],
         \A m \in Computers : file'[m].text = file[m].text,
         \A d \in Calls : seen'[d] = seen[d] \/ seen'[d] = {}
  PROVE  MarksOK'
<1>1. \A d \in Calls : Wrote(d) => Wrote(d)'
  BY DEF Wrote
<1>2. \A d, e \in Calls : d \in seen'[e] => Wrote(d)
  BY DEF FsInv, MarksOK
<1> QED
  BY <1>1, <1>2, MarksFrame

LEMMA MarksStep == FsInv /\ [Next]_vars => MarksOK'
<1> SUFFICES ASSUME FsInv, [Next]_vars PROVE MarksOK'
  OBVIOUS
<1>0. TypeOK /\ CallOK /\ ResultOK /\ MarksOK
  BY DEF FsInv, TypeInv
<1>1. ASSUME NEW c \in Calls, NEW how, Ends(c, how), UNCHANGED file,
             phase[c] # "done", phase[c] = "stamping" => how \notin Refusals
      PROVE  MarksOK'
  <2>1. Wrote(c) => phase'[c] = "done" /\ result'[c] \notin Refusals
    BY <1>0, <1>1 DEF Ends, Wrote, TypeOK
  <2> QED
    BY <1>0, <1>1, <2>1, MarksEnd DEF Ends, TypeOK
<1>2. ASSUME NEW c \in Calls, NEW next, Goes(c, next), UNCHANGED <<file, seen>>,
             phase[c] \in {"probing", "reading"}
      PROVE  MarksOK'
  BY <1>0, <1>2, MarksEnd DEF Goes, Wrote, TypeOK
<1>3. ASSUME NEW c \in Calls, NEW op, NEW m, NEW guard, NEW v, Begins(c, op, m, guard, v)
      PROVE  MarksOK'
  BY <1>0, <1>3, MarksEnd DEF Begins, Wrote, TypeOK
<1>4. ASSUME NEW c \in Calls, Probe(c) PROVE MarksOK'
  BY <1>1, <1>2, <1>4 DEF Probe
<1>5. ASSUME NEW c \in Calls, ReadForDiff(c) PROVE MarksOK'
  BY <1>2, <1>5 DEF ReadForDiff
<1>6. ASSUME NEW c \in Calls, ReadForEdit(c) PROVE MarksOK'
  <2>1. CASE Ends(c, "unread")
    BY <1>1, <1>6, <2>1 DEF ReadForEdit
  <2>2. CASE Goes(c, "writing") /\ seen' = [seen EXCEPT ![c] = FileOf(c).text]
    <3>1. call[c].computer \in Computers /\ phase[c] = "reading" /\ UNCHANGED file
      BY <1>0, <1>6 DEF ReadForEdit, CallOK
    <3>2. \A d \in Calls : Wrote(d) => Wrote(d)'
      BY <1>0, <2>2, <3>1 DEF Goes, Wrote, TypeOK
    <3>3. \A d, e \in Calls : d \in seen'[e] => Wrote(d)
      BY <1>0, <2>2, <3>1 DEF FileOf, MarksOK, TypeOK
    <3> QED
      BY <3>1, <3>2, <3>3, MarksFrame
  <2> QED
    BY <1>6, <2>1, <2>2 DEF ReadForEdit
<1>7. ASSUME NEW c \in Calls, BridgeWrites(c) PROVE MarksOK'
  <2>1. /\ phase[c] \in {"writing", "abandoned"} /\ call[c].computer \in Computers
        /\ phase' = [phase EXCEPT ![c] = IF phase[c] = "writing" THEN "stamping" ELSE "done"]
        /\ UNCHANGED <<result, seen>>
        /\ file' = [file EXCEPT ![call[c].computer] =
                      [kind |-> "file", text |-> Edited(c), second |-> second]]
    BY <1>0, <1>7 DEF BridgeWrites, Goes, Outdates, CallOK
  <2>2. \A d \in Calls : Wrote(d) => Wrote(d)'
    BY <1>0, <2>1 DEF Wrote, TypeOK
  <2>3. Wrote(c)'
    <3>1. result[c] \notin Refusals /\ phase'[c] \in {"stamping", "done"}
      BY <1>0, <2>1 DEF ResultOK, TypeOK, Refusals
    <3> QED
      BY <2>1, <3>1 DEF Wrote
  <2>4. \A d \in Calls : d \in Edited(c) => Wrote(d)'
    BY <1>0, <2>2, <2>3 DEF Edited, MarksOK
  <2>5. \A d \in Calls, m \in Computers : d \in file'[m].text => d \in file[m].text \/ Wrote(d)'
    <3>1. \A m \in Computers : file'[m].text = file[m].text \/ file'[m].text = Edited(c)
      BY <1>0, <2>1 DEF TypeOK
    <3> QED
      BY <2>4, <3>1
  <2>6. \A d, e \in Calls : d \in seen'[e] => Wrote(d)'
    BY <1>0, <2>1, <2>2 DEF MarksOK
  <2> QED
    BY <2>2, <2>5, <2>6, MarksFrame
<1>8. ASSUME NEW c \in Calls, Stamp(c) PROVE MarksOK'
  BY <1>1, <1>8 DEF Stamp, Refusals
<1>9. ASSUME NEW c \in Calls, Fails(c) PROVE MarksOK'
  <2>1. CASE Ends(c, "failed")
    BY <1>1, <1>9, <2>1 DEF Fails, Refusals
  <2>2. CASE ~Ends(c, "failed")
    BY <1>0, <1>9, <2>2, MarksEnd DEF Fails, Wrote, TypeOK
  <2> QED
    BY <2>1, <2>2
<1>10. ASSUME NEW m \in Computers, CommandReplaces(m) PROVE MarksOK'
  <2>1. \A n \in Computers : file'[n].text = file[n].text \/ file'[n].text = {}
    BY <1>0, <1>10 DEF CommandReplaces, Outdates, NoFile, TypeOK
  <2>2. UNCHANGED <<phase, result, seen>>
    BY <1>10 DEF CommandReplaces
  <2> QED
    BY <1>0, <2>1, <2>2, MarksFrame DEF Wrote, MarksOK
<1>11. CASE Stat \/ ListDir \/ Tick \/ UNCHANGED vars
  BY <1>0, <1>11 DEF Stat, ListDir, Tick, vars, MarksOK, Wrote
<1>12. ASSUME NEW c \in Calls, NEW m \in Computers, WriteText(c, m) \/ EditText(c, m)
       PROVE  MarksOK'
  BY <1>3, <1>12 DEF WriteText, EditText
<1> QED
  BY <1>4, <1>5, <1>6, <1>7, <1>8, <1>9, <1>10, <1>11, <1>12 DEF Next

LEMMA FsInvariant == Spec => []FsInv
<1>1. FsInv /\ [Next]_vars => FsInv'
  BY TypeStep, KnowledgeStep, MarksStep DEF FsInv
<1> QED
  BY <1>1, FsInit, PTL DEF Spec
-----------------------------------------------------------------------------
(* The theorems.                                                            *)

THEOREM FsTypeCorrect == Spec => []TypeOK
<1>1. FsInv => TypeOK
  BY DEF FsInv, TypeInv
<1> QED
  BY <1>1, FsInvariant, PTL

\* A write on condition of a version meets that version, or what came after its
\* probe.
THEOREM GuardCorrect == Spec => []GuardHoldsButForTheWindow
<1>1. FsInv => GuardHoldsButForTheWindow
  BY DEF FsInv, KnowledgeOK, GuardHoldsButForTheWindow, AtWork, Lands
<1> QED
  BY <1>1, FsInvariant, PTL

\* A write on condition that there is no file creates one, or meets what came
\* after its probe.
THEOREM CreationCorrect == Spec => []CreationHoldsButForTheWindow
<1>1. FsInv => CreationHoldsButForTheWindow
  BY DEF FsInv, KnowledgeOK, CreationHoldsButForTheWindow, AtWork, Lands
<1> QED
  BY <1>1, FsInvariant, PTL

\* A refused call leaves no change anywhere, also not through an edit that read
\* a text and writes it back.
THEOREM RefusedCorrect == Spec => []RefusedCallLeavesNoChange
<1>1. FsInv => RefusedCallLeavesNoChange
  <2> SUFFICES ASSUME FsInv, NEW c \in Calls, result[c] \in Refusals
               PROVE  phase[c] = "done" /\ \A m \in Computers : c \notin file[m].text
    BY DEF RefusedCallLeavesNoChange
  <2>1. phase[c] = "done"
    BY DEF FsInv, TypeInv, TypeOK, ResultOK, Refusals
  <2> QED
    BY <2>1 DEF FsInv, MarksOK, Wrote
<1> QED
  BY <1>1, FsInvariant, PTL

\* An edit writes back all that its file held, unless the file changed between
\* its read and its write.
THEOREM EditCorrect == Spec => EditKeepsEarlierChanges
<1> DEFINE Keeps ==
      \A c \in Calls \ touched :
        Lands(c) /\ call[c].op = "edit" /\ file'[call[c].computer] # FileOf(c)
          /\ c \in file'[call[c].computer].text =>
            FileOf(c).text \subseteq file'[call[c].computer].text
<1>1. FsInv /\ [Next]_vars => [Keeps]_vars
  <2> SUFFICES ASSUME FsInv, Next, NEW c \in Calls, c \notin touched, Lands(c),
                      call[c].op = "edit", file'[call[c].computer] # FileOf(c),
                      c \in file'[call[c].computer].text
               PROVE  FileOf(c).text \subseteq file'[call[c].computer].text
    OBVIOUS
  <2>0. /\ TypeOK /\ call[c].computer \in Computers /\ seen[c] = FileOf(c).text /\ ~Wrote(c)
        /\ \A d \in Calls : c \notin seen[d]
    BY DEF FsInv, TypeInv, CallOK, KnowledgeOK, MarksOK, Lands, Wrote
  <2>1. ASSUME NEW d \in Calls, BridgeWrites(d)
        PROVE  FileOf(c).text \subseteq file'[call[c].computer].text
    <3>1. file'[call[c].computer].text = Edited(d)
      BY <2>0, <2>1 DEF BridgeWrites, Outdates, FileOf, TypeOK
    <3>2. d = c
      BY <2>0, <3>1 DEF Edited
    <3> QED
      BY <2>0, <3>1, <3>2 DEF Edited
  <2>2. ASSUME NEW m \in Computers, CommandReplaces(m) PROVE FALSE
    BY <2>0, <2>2 DEF CommandReplaces, Outdates, FileOf, NoFile, TypeOK
  <2>3. CASE UNCHANGED file
    BY <2>0, <2>3 DEF FileOf
  <2> QED
    BY <2>1, <2>2, <2>3 DEF Next, WriteText, EditText, Begins, Probe, ReadForDiff, ReadForEdit,
       Stamp, Fails, Stat, ListDir, Tick
<1> QED
  BY <1>1, FsInvariant, PTL DEF Spec, EditKeepsEarlierChanges, Keeps
=============================================================================
