------------------------- MODULE SkillInstallProofs -------------------------
(***************************************************************************)
(* TLAPS proofs about SkillInstall: type correctness, that the user's      *)
(* edits are kept, and that the manifest tells the truth, for any number   *)
(* of commands running at once, any places, names and versions, and any    *)
(* bounds on calls, edits and faults.                                      *)
(***************************************************************************)
EXTENDS SkillInstall, TLAPS

USE InstallAssumption

(* A command under way has the record of one.                              *)
LEMMA ActiveRuns ==
  ASSUME TypeOK, NEW p \in Active
  PROVE  p \in Process /\ call[p] \in Running
BY DEF TypeOK, Active, Idle

LEMMA PlaceType ==
  ASSUME TypeOK, NEW p \in Active, NEW name \in Name
  PROVE  PlaceOf(p, name) \in Place
BY ActiveRuns DEF PlaceOf, Running

(* Recording an entry leaves one entry for every path.                     *)
LEMMA RecordedUnique ==
  ASSUME NEW entries, entries \subseteq ManifestEntry, UniquePaths(entries),
         NEW entry \in ManifestEntry
  PROVE  /\ Recorded(entries, entry) \subseteq ManifestEntry
         /\ UniquePaths(Recorded(entries, entry))
BY DEF Recorded, EntryFor, UniquePaths

LEMMA InitType == Init => TypeOK
BY DEF Init, TypeOK, Content, Active, Idle, UniquePaths

(* The part of TypeOK that a step of one command disturbs.                 *)
CallType(record) == record \in Running /\ WellFormed(record)

LEMMA CallStep ==
  ASSUME TypeOK, NEW p \in Process, NEW record, CallType(record),
         call' = [call EXCEPT ![p] = record],
         file' \in [Place -> Content], manifest' = manifest,
         loose' \subseteq Place, calls' = calls, edits' = edits,
         faults' \in 0..MaxFaults
  PROVE  TypeOK'
<1>1. call' \in [Process -> Running \union {Idle}]
  BY DEF TypeOK, CallType
<1>2. \A q \in Active' : WellFormed(call'[q])
  <2>1. TAKE q \in Active'
  <2>2. CASE q = p
    BY <2>2 DEF TypeOK, CallType
  <2>3. CASE q # p
    BY <2>3 DEF TypeOK, Active
  <2>4. QED
    BY <2>2, <2>3
<1>3. QED
  BY <1>1, <1>2 DEF TypeOK

(* A command that ends, whatever it leaves.                                *)
LEMMA EndStep ==
  ASSUME TypeOK, NEW p \in Process, call' = [call EXCEPT ![p] = Idle],
         file' = file, manifest' \subseteq ManifestEntry, UniquePaths(manifest'),
         loose' \subseteq Place, calls' = calls, edits' = edits,
         faults' \in 0..MaxFaults
  PROVE  TypeOK'
<1>1. call' \in [Process -> Running \union {Idle}]
  BY DEF TypeOK
<1>2. \A q \in Active' : WellFormed(call'[q])
  BY DEF TypeOK, Active, Idle
<1>3. QED
  BY <1>1, <1>2 DEF TypeOK

(* A command that others join stays as it is but for the note of it.       *)
LEMMA AccompaniedType ==
  ASSUME TypeOK, NEW q \in Process
  PROVE  /\ Accompanied(q) \in Running \union {Idle}
         /\ (Accompanied(q).step # "idle") <=> q \in Active
         /\ q \in Active => CallType(Accompanied(q))
<1>1. CASE q \in Active
  <2>1. call[q] \in Running /\ Accompanied(q) = [call[q] EXCEPT !.overlapped = TRUE]
    BY <1>1, ActiveRuns DEF Accompanied
  <2>2. /\ Accompanied(q) \in Running
        /\ Accompanied(q).step = call[q].step
        /\ Accompanied(q).entries = call[q].entries
        /\ Accompanied(q).left = call[q].left
    BY <2>1 DEF Running
  <2>3. QED
    BY <1>1, <2>2 DEF TypeOK, CallType, Active, WellFormed
<1>2. CASE q \notin Active
  BY <1>2 DEF Accompanied, TypeOK, Active
<1>3. QED
  BY <1>1, <1>2

LEMMA BegunType ==
  ASSUME NEW version \in Version, NEW cwd \in Cwd,
         NEW command \in {"install", "upgrade", "uninstall"},
         NEW paths \in SUBSET Name
  PROVE  CallType(Begun(command, version, cwd, paths))
<1>1. (Active # {}) \in BOOLEAN
  OBVIOUS
<1>2. Begun(command, version, cwd, paths) \in Running
  BY <1>1 DEF Begun, Running, Steps
<1>3. QED
  BY <1>2 DEF CallType, Begun, UniquePaths, WellFormed

LEMMA StartType ==
  ASSUME TypeOK, NEW p \in Process, NEW version \in Version, NEW cwd \in Cwd,
         NEW command \in {"install", "upgrade", "uninstall"},
         NEW paths \in SUBSET Name, Start(p, command, version, cwd, paths)
  PROVE  TypeOK'
<1> DEFINE begun == Begun(command, version, cwd, paths)
<1>1. CallType(begun)
  BY BegunType
<1>2. call' = [q \in Process |-> IF q = p THEN begun ELSE Accompanied(q)]
  BY DEF Start
<1> HIDE DEF begun
<1>3. call' \in [Process -> Running \union {Idle}]
  BY <1>1, <1>2, AccompaniedType DEF CallType
<1>4. \A q \in Active' : WellFormed(call'[q])
  BY <1>1, <1>2, AccompaniedType DEF Active, CallType
<1>5. calls' \in 0..MaxCalls
  BY DEF Start, TypeOK
<1>6. QED
  BY <1>3, <1>4, <1>5 DEF Start, TypeOK

LEMMA SurveyType ==
  ASSUME TypeOK, NEW p \in Process, Survey(p)
  PROVE  TypeOK'
<1> DEFINE record == [call[p] EXCEPT !.step = "compare", !.left = manifest,
                        !.paths = {entry.path : entry \in manifest}]
<1>1. call[p] \in Running
  BY ActiveRuns DEF Survey, Active
<1>2. {entry.path : entry \in manifest} \subseteq Name
  BY DEF TypeOK, ManifestEntry
<1>3. CallType(record)
  <2>1. record \in Running
    BY <1>1, <1>2 DEF Running, Steps, TypeOK
  <2>2. call[p].entries = {}
    BY DEF TypeOK, Active, WellFormed, Survey
  <2>3. record.entries = {} /\ record.left = manifest /\ record.step = "compare"
    BY <1>1, <2>2 DEF Running
  <2>4. QED
    BY <2>1, <2>3 DEF CallType, WellFormed, TypeOK
<1>4. call' = [call EXCEPT ![p] = record]
  BY DEF Survey
<1> HIDE DEF record
<1>5. QED
  BY <1>3, <1>4, CallStep DEF Survey, TypeOK

(* A command that was not idle has one entry for a path in its lists.      *)
LEMMA ActiveType ==
  ASSUME TypeOK, NEW p \in Active
  PROVE  CallType(call[p])
BY ActiveRuns DEF CallType, TypeOK

LEMMA EndsType ==
  ASSUME TypeOK, NEW p \in Active, Ends(p),
         file' = file, manifest' = manifest, calls' = calls, edits' = edits,
         faults' \in 0..MaxFaults
  PROVE  TypeOK'
<1>1. loose' \subseteq Place
  BY ActiveRuns DEF Ends, Running, TypeOK
<1>2. QED
  BY <1>1, ActiveRuns, EndStep DEF Ends, TypeOK

LEMMA CompareType ==
  ASSUME TypeOK, NEW p \in Process, NEW entry \in ManifestEntry, Compare(p, entry)
  PROVE  TypeOK'
<1> DEFINE place == PlaceOf(p, entry.path)
           record == [call[p] EXCEPT !.left = @ \ {entry}, !.touched = @ \ {place}]
<1>1. p \in Active
  BY DEF Compare, Active
<1>2. CASE Modified(place, entry.digest)
  BY <1>1, <1>2, EndsType DEF Compare, TypeOK
<1>3. CASE ~Modified(place, entry.digest)
  <2>1. CallType(call[p]) /\ call[p].step = "compare"
    BY <1>1, ActiveType DEF Compare
  <2>2. /\ record \in Running
        /\ record.entries = call[p].entries
        /\ record.left = call[p].left \ {entry}
        /\ record.step = call[p].step
    BY <2>1 DEF CallType, Running
  <2>3. CallType(record)
    BY <2>1, <2>2 DEF CallType, WellFormed, UniquePaths
  <2>4. call' = [call EXCEPT ![p] = record]
    BY <1>3 DEF Compare
  <2> HIDE DEF record
  <2>5. QED
    BY <1>3, <2>3, <2>4, CallStep DEF Compare, TypeOK
<1>4. QED
  BY <1>2, <1>3

LEMMA LoadType ==
  ASSUME TypeOK, NEW p \in Process, Load(p)
  PROVE  TypeOK'
<1> DEFINE dirs == IF call[p].paths = {} THEN Probed ELSE call[p].paths
           record == [call[p] EXCEPT !.step = "check", !.entries = manifest,
                                     !.dirs = dirs]
<1>1. CallType(call[p])
  BY ActiveType DEF Load, Active
<1>2. /\ record \in Running
      /\ record.step = "check" /\ record.entries = manifest
      /\ record.left = {}
  BY <1>1 DEF CallType, Running, Steps, TypeOK, WellFormed, Load
<1>3. CallType(record)
  BY <1>2 DEF CallType, WellFormed, TypeOK
<1>4. call' = [call EXCEPT ![p] = record]
  BY DEF Load
<1> HIDE DEF record
<1>5. QED
  BY <1>3, <1>4, CallStep DEF Load, TypeOK

LEMMA LoadAllType ==
  ASSUME TypeOK, NEW p \in Process, LoadAll(p)
  PROVE  TypeOK'
<1> DEFINE record == [call[p] EXCEPT !.step = "examine", !.left = manifest]
<1>1. CallType(call[p]) /\ call[p].step = "load"
  BY ActiveType DEF LoadAll, Active
<1>2. /\ record \in Running
      /\ record.step = "examine" /\ record.left = manifest
      /\ record.entries = {}
  BY <1>1 DEF CallType, Running, Steps, TypeOK, WellFormed
<1>3. CallType(record)
  BY <1>2 DEF CallType, WellFormed, TypeOK
<1>4. call' = [call EXCEPT ![p] = record]
  BY DEF LoadAll
<1> HIDE DEF record
<1>5. QED
  BY <1>3, <1>4, CallStep DEF LoadAll, TypeOK

LEMMA CheckType ==
  ASSUME TypeOK, NEW p \in Process, NEW name \in Name, Check(p, name)
  PROVE  TypeOK'
<1> DEFINE place == PlaceOf(p, name)
           touched == IF name \in call[p].paths THEN call[p].touched
                      ELSE call[p].touched \ {place}
           record == [call[p] EXCEPT !.step = "write", !.target = {name},
                                     !.dirs = @ \ {name}, !.touched = touched]
<1>1. p \in Active
  BY DEF Check, Active
<1>2. CASE Refuses(p, name)
  BY <1>1, <1>2, EndsType DEF Check, TypeOK
<1>3. CASE ~Refuses(p, name)
  <2>1. CallType(call[p]) /\ call[p].step = "check"
    BY <1>1, ActiveType DEF Check
  <2>2. touched \subseteq Place /\ call[p].dirs \ {name} \subseteq Name
    BY <2>1 DEF CallType, Running
  <2> HIDE DEF touched
  <2>3. /\ record \in Running
        /\ record.entries = call[p].entries
        /\ record.left = call[p].left
        /\ record.step = "write"
    BY <2>1, <2>2 DEF CallType, Running, Steps
  <2>4. CallType(record)
    BY <2>1, <2>3 DEF CallType, WellFormed
  <2>5. call' = [call EXCEPT ![p] = record]
    BY <1>3 DEF Check, touched
  <2> HIDE DEF record
  <2>6. QED
    BY <1>3, <2>4, <2>5, CallStep DEF Check, TypeOK
<1>4. QED
  BY <1>2, <1>3

LEMMA WriteType ==
  ASSUME TypeOK, NEW p \in Process, NEW name \in Name, Write(p, name)
  PROVE  TypeOK'
<1> DEFINE place == PlaceOf(p, name)
           entry == [path |-> name, digest |-> call[p].version]
           entries == Recorded(call[p].entries, entry)
           record == [call[p] EXCEPT !.step = "check", !.target = {},
                        !.entries = entries, !.changed = @ \union {place}]
<1>1. p \in Active
  BY DEF Write, Active
<1>2. CallType(call[p]) /\ call[p].step = "write" /\ place \in Place
  BY <1>1, ActiveType, PlaceType DEF Write
<1>3. entry \in ManifestEntry
  BY <1>2 DEF CallType, Running, ManifestEntry
<1>4. entries \subseteq ManifestEntry /\ UniquePaths(entries)
  <2>1. UniquePaths(call[p].entries)
    BY <1>2 DEF CallType, WellFormed, UniquePaths
  <2>2. QED
    BY <1>2, <1>3, <2>1, RecordedUnique DEF CallType, Running
<1>5. call' = [call EXCEPT ![p] = record]
  BY DEF Write
<1> HIDE DEF entries, place
<1>6. CallType(record)
  <2>1. /\ record \in Running
        /\ record.entries = entries
        /\ record.left = call[p].left
        /\ record.step = "check"
    BY <1>2, <1>4 DEF CallType, Running, Steps
  <2>2. QED
    BY <1>2, <1>4, <2>1 DEF CallType, WellFormed
<1> HIDE DEF record
<1>7. file' \in [Place -> Content]
  BY <1>2 DEF Write, TypeOK, CallType, Running, Content, place
<1>8. QED
  BY <1>5, <1>6, <1>7, CallStep DEF Write, TypeOK

LEMMA ExamineType ==
  ASSUME TypeOK, NEW p \in Process, NEW entry \in ManifestEntry,
         Keep(p, entry) \/ Drop(p, entry)
  PROVE  TypeOK'
<1>1. CallType(call[p])
  BY ActiveType DEF Keep, Drop, Active
<1>2. CASE Keep(p, entry)
  <2> DEFINE record == [call[p] EXCEPT !.left = @ \ {entry},
                                       !.entries = @ \union {entry}]
  <2>1. call' = [call EXCEPT ![p] = record]
    BY <1>2 DEF Keep
  <2>2. CallType(record)
    <3>1. /\ record \in Running
          /\ record.entries = call[p].entries \union {entry}
          /\ record.left = call[p].left \ {entry}
          /\ record.step = "examine"
      BY <1>1, <1>2 DEF CallType, Running, Keep
    <3>2. record.entries \union record.left = call[p].entries \union call[p].left
      BY <1>2, <3>1 DEF Keep
    <3>3. QED
      BY <1>1, <3>1, <3>2 DEF CallType, WellFormed
  <2> HIDE DEF record
  <2>3. QED
    BY <1>2, <2>1, <2>2, CallStep DEF Keep, TypeOK
<1>3. CASE Drop(p, entry)
  <2> DEFINE place == PlaceOf(p, entry.path)
             record == [call[p] EXCEPT !.step = "remove", !.target = {entry.path},
                          !.left = @ \ {entry}, !.touched = @ \ {place}]
  <2>1. call' = [call EXCEPT ![p] = record]
    BY <1>3 DEF Drop
  <2>2. CallType(record)
    <3>1. /\ record \in Running
          /\ record.entries = call[p].entries
          /\ record.left = call[p].left \ {entry}
          /\ record.step = "remove"
      BY <1>1 DEF CallType, Running, Steps, ManifestEntry
    <3>2. UniquePaths(record.entries \union record.left)
      BY <1>1, <3>1 DEF CallType, WellFormed, UniquePaths
    <3>3. QED
      BY <3>1, <3>2 DEF CallType, WellFormed
  <2> HIDE DEF record
  <2>3. QED
    BY <1>3, <2>1, <2>2, CallStep DEF Drop, TypeOK
<1>4. QED
  BY <1>2, <1>3

LEMMA RemoveType ==
  ASSUME TypeOK, NEW p \in Process, NEW name \in Name, RemoveFile(p, name)
  PROVE  TypeOK'
<1> DEFINE place == PlaceOf(p, name)
           record == [call[p] EXCEPT !.step = "examine", !.target = {},
                                     !.changed = @ \union {place}]
<1>1. p \in Active
  BY DEF RemoveFile, Active
<1>2. CallType(call[p]) /\ call[p].step = "remove" /\ place \in Place
  BY <1>1, ActiveType, PlaceType DEF RemoveFile
<1>3. call' = [call EXCEPT ![p] = record]
  BY DEF RemoveFile
<1>4. file' \in [Place -> Content] /\ loose' \subseteq Place /\ faults' \in 0..MaxFaults
  BY <1>2 DEF RemoveFile, TypeOK, Content
<1> HIDE DEF place
<1>5. CallType(record)
  <2>1. /\ record \in Running
        /\ record.entries = call[p].entries
        /\ record.left = call[p].left
        /\ record.step = "examine"
    BY <1>2 DEF CallType, Running, Steps
  <2>2. QED
    BY <1>2, <2>1 DEF CallType, WellFormed
<1> HIDE DEF record
<1>6. QED
  BY <1>3, <1>4, <1>5, CallStep DEF RemoveFile

LEMMA SaveType ==
  ASSUME TypeOK, NEW p \in Process, Save(p)
  PROVE  TypeOK'
<1>1. p \in Active
  BY DEF Save, Active
<1>2. CallType(call[p])
  BY <1>1, ActiveType
<1>3. manifest' \subseteq ManifestEntry /\ UniquePaths(manifest')
  BY <1>2 DEF Save, CallType, Running, WellFormed, UniquePaths
<1>4. \A name \in Name, c \in Cwd : At[c][name] \in Place
  OBVIOUS
<1>5. call[p].changed \subseteq Place
  BY <1>2 DEF CallType, Running
<1>6. loose' \subseteq Place
  BY <1>4, <1>5 DEF Save, TypeOK
<1>7. QED
  BY <1>3, <1>6, EndStep DEF Save, TypeOK

LEMMA StopType ==
  ASSUME TypeOK, NEW p \in Process, Stop(p)
  PROVE  TypeOK'
BY EndsType DEF Stop, TypeOK

LEMMA EditType ==
  ASSUME TypeOK, NEW place \in Place, NEW content \in {Own, None},
         Edit(place, content)
  PROVE  TypeOK'
<1>1. \A q \in Active :
        LET c == call'[q]
        IN  /\ CallType(c)
            /\ c.step = call[q].step
  <2>1. TAKE q \in Active
  <2>2. CallType(call[q])
    BY ActiveType
  <2>3. call'[q] = [call[q] EXCEPT !.touched = @ \union {place}]
    BY DEF Edit, Active
  <2>4. call[q] \in Running
    BY <2>2 DEF CallType
  <2>5. call[q].touched \union {place} \subseteq Place
    BY <2>4 DEF Running
  <2>6. call'[q] \in Running
    BY <2>3, <2>4, <2>5 DEF Running
  <2>7. /\ call'[q].entries = call[q].entries
        /\ call'[q].left = call[q].left
        /\ call'[q].step = call[q].step
    BY <2>3, <2>4 DEF Running
  <2>8. QED
    BY <2>2, <2>6, <2>7 DEF CallType, WellFormed
<1>2. \A q \in Process \ Active : call'[q] = Idle
  BY DEF Edit
<1>3. call' \in [Process -> Running \union {Idle}]
  BY <1>1, <1>2 DEF Edit, CallType
<1>4. Active' \subseteq Active
  BY <1>2 DEF Active, Idle
<1>5. \A q \in Active' : WellFormed(call'[q])
  BY <1>1, <1>4 DEF CallType
<1>6. /\ file' \in [Place -> Content]
      /\ edits' \in 0..MaxEdits
  BY DEF Edit, TypeOK, Content
<1>7. QED
  BY <1>3, <1>5, <1>6 DEF Edit, TypeOK

LEMMA TypeStep ==
  ASSUME TypeOK, [Next]_vars
  PROVE  TypeOK'
<1>1. ASSUME NEW p \in Process, NEW version \in Version, NEW cwd \in Cwd,
             \/ \E paths \in Given : Start(p, "install", version, cwd, paths)
             \/ Start(p, "upgrade", version, cwd, {})
      PROVE  TypeOK'
  BY <1>1, StartType
<1>2. ASSUME NEW p \in Process, NEW cwd \in Cwd,
             Start(p, "uninstall", CHOOSE v \in Version : TRUE, cwd, {})
      PROVE  TypeOK'
  BY <1>2, StartType
<1>3. ASSUME NEW p \in Process,
             Survey(p) \/ Load(p) \/ LoadAll(p) \/ Save(p) \/ Stop(p)
      PROVE  TypeOK'
  BY <1>3, SurveyType, LoadType, LoadAllType, SaveType, StopType
<1>4. ASSUME NEW p \in Process, NEW entry \in ManifestEntry,
             Compare(p, entry) \/ Keep(p, entry) \/ Drop(p, entry)
      PROVE  TypeOK'
  BY <1>4, CompareType, ExamineType
<1>5. ASSUME NEW p \in Process, NEW name \in Name,
             Check(p, name) \/ Write(p, name) \/ RemoveFile(p, name)
      PROVE  TypeOK'
  BY <1>5, CheckType, WriteType, RemoveType
<1>6. ASSUME NEW place \in Place, NEW content \in {Own, None}, Edit(place, content)
      PROVE  TypeOK'
  BY <1>6, EditType
<1>7. CASE UNCHANGED vars
  BY <1>7 DEF vars, TypeOK, Active
<1>8. QED
  BY <1>1, <1>2, <1>3, <1>4, <1>5, <1>6, <1>7 DEF Next

(* Every reachable state is well typed: one entry for every path, in the   *)
(* manifest and in the lists of every command.                             *)
THEOREM TypeCorrect == Spec => []TypeOK
<1>1. Init => TypeOK
  BY InitType
<1>2. TypeOK /\ [Next]_vars => TypeOK'
  BY TypeStep
<1>3. QED
  BY <1>1, <1>2, PTL DEF Spec

----------------------------------------------------------------------------
(* The user's edits *)

(* What the user made of the place since the command looked is noted.      *)
Safe(p, name) ==
  file[PlaceOf(p, name)] = Own => PlaceOf(p, name) \in call[p].touched

(* What a command has looked at by the step it has come to.  An upgrade    *)
(* passes the paths of its entries on to install, which does not test them *)
(* again: they are safe from the comparison on.                            *)
Looked(p) ==
  /\ call[p].step = "remove" => \A name \in call[p].target : Safe(p, name)
  /\ call[p].step = "write" =>
       \A name \in call[p].target : Safe(p, name) \/ Entitled(p, name)
  /\ call[p].step \in {"survey", "compare"} => call[p].command = "upgrade"
  /\ call[p].step \in {"check", "write"} => call[p].command \in {"install", "upgrade"}
  /\ call[p].step = "compare" =>
       \A name \in call[p].paths :
         Safe(p, name) \/ \E entry \in call[p].left : entry.path = name
  /\ call[p].command = "upgrade" /\ call[p].step \in {"check", "write"} =>
       \A name \in call[p].paths : Safe(p, name)
  /\ call[p].step \in {"check", "write"} /\ call[p].paths # {} =>
       call[p].dirs \subseteq call[p].paths

IInv == TypeOK /\ \A p \in Active : Looked(p)

(* A step of another command writes no edit of the user's, and leaves what *)
(* this one has looked at.                                                 *)
Same(c, d) ==
  /\ c.step = d.step /\ c.command = d.command /\ c.cwd = d.cwd
  /\ c.paths = d.paths /\ c.dirs = d.dirs /\ c.entries = d.entries
  /\ c.left = d.left /\ c.target = d.target /\ c.touched = d.touched

NoEdit == \A l \in Place : file'[l] = Own => file[l] = Own

LEMMA OthersLooked ==
  ASSUME TypeOK, NEW p \in Active, Looked(p), Same(call'[p], call[p]), NoEdit
  PROVE  Looked(p)'
<1>1. /\ call[p].target \subseteq Name /\ call[p].paths \subseteq Name
      /\ \A name \in Name : PlaceOf(p, name) \in Place
  BY ActiveRuns DEF PlaceOf, Running
<1>2. \A name : PlaceOf(p, name)' = PlaceOf(p, name)
  BY DEF PlaceOf, Same
<1>3. \A name \in Name : Safe(p, name) => Safe(p, name)'
  BY <1>1, <1>2 DEF Safe, Same, NoEdit
<1>4. \A name : Entitled(p, name) => Entitled(p, name)'
  BY DEF Entitled, Same, EntryFor
<1>5. QED
  BY <1>1, <1>3, <1>4 DEF Looked, Same

(* So a step of one command keeps what was looked at if it does for its    *)
(* own.                                                                    *)
LEMMA OneLooked ==
  ASSUME IInv, TypeOK', NEW p \in Process,
         \A q \in Process \ {p} : call'[q] = call[q],
         NoEdit, p \in Active' => Looked(p)'
  PROVE  IInv'
<1>1. ASSUME NEW q \in Active', q # p
      PROVE  Looked(q)'
  BY <1>1, OthersLooked DEF IInv, Active, Same
<1>2. QED
  BY <1>1 DEF IInv

LEMMA EndsLooked ==
  ASSUME IInv, TypeOK', NEW p \in Process, call' = [call EXCEPT ![p] = Idle], NoEdit
  PROVE  IInv'
<1>1. p \notin Active'
  BY DEF IInv, TypeOK, Active, Idle
<1>2. \A q \in Process \ {p} : call'[q] = call[q]
  BY DEF IInv, TypeOK
<1>3. QED
  BY <1>1, <1>2, OneLooked

LEMMA StartLooked ==
  ASSUME IInv, TypeOK', NEW p \in Process, NEW version, NEW cwd, NEW paths,
         NEW command \in {"install", "upgrade", "uninstall"},
         Start(p, command, version, cwd, paths)
  PROVE  IInv'
<1>1. ASSUME NEW q \in Active'
      PROVE  Looked(q)'
  <2>1. CASE q = p
    <3>1. call'[p] = Begun(command, version, cwd, paths)
      BY DEF Start
    <3>2. QED
      BY <2>1, <3>1 DEF Looked, Begun
  <2>2. CASE q # p
    <3>1. call'[q] = Accompanied(q)
      BY <2>2 DEF Start, Active
    <3>2. q \in Active
      BY <1>1, <3>1, AccompaniedType DEF IInv, Active
    <3>3. call[q] \in Running /\ call'[q] = [call[q] EXCEPT !.overlapped = TRUE]
      BY <3>1, <3>2, ActiveRuns DEF Accompanied, IInv
    <3>4. Same(call'[q], call[q])
      BY <3>3 DEF Same, Running
    <3>5. QED
      BY <3>2, <3>4, OthersLooked DEF IInv, NoEdit, Start
  <2>3. QED
    BY <2>1, <2>2
<1>2. QED
  BY <1>1 DEF IInv

LEMMA SurveyLooked ==
  ASSUME IInv, TypeOK', NEW p \in Process, Survey(p)
  PROVE  IInv'
<1>1. call[p] \in Running /\ Looked(p)
  BY ActiveRuns DEF Survey, Active, IInv
<1>2. call'[p] = [call[p] EXCEPT !.step = "compare", !.left = manifest,
                    !.paths = {entry.path : entry \in manifest}]
  BY DEF Survey, IInv, TypeOK
<1>3. /\ call'[p].step = "compare" /\ call'[p].command = call[p].command
      /\ call'[p].left = manifest
      /\ call'[p].paths = {entry.path : entry \in manifest}
  BY <1>1, <1>2 DEF Running
<1>4. Looked(p)'
  BY <1>1, <1>3 DEF Looked, Survey
<1>5. QED
  BY <1>4, OneLooked DEF Survey, IInv, TypeOK, NoEdit

LEMMA OwnIsNoVersion == Own # None /\ \A version \in Version : version # Own
BY DEF Own, None

LEMMA CompareLooked ==
  ASSUME IInv, TypeOK', NEW p \in Process, NEW entry \in ManifestEntry, Compare(p, entry)
  PROVE  IInv'
<1> DEFINE place == PlaceOf(p, entry.path)
<1>1. call[p] \in Running /\ Looked(p)
  BY ActiveRuns DEF Compare, Active, IInv
<1>2. CASE Modified(place, entry.digest)
  BY <1>2, EndsLooked DEF Compare, Ends, NoEdit
<1>3. CASE ~Modified(place, entry.digest)
  <2>1. file[place] # Own
    BY <1>3, OwnIsNoVersion DEF Modified, ManifestEntry
  <2>2. call'[p] = [call[p] EXCEPT !.left = @ \ {entry}, !.touched = @ \ {place}]
    BY <1>3 DEF Compare, IInv, TypeOK
  <2>3. /\ call'[p].step = "compare" /\ call'[p].command = call[p].command
        /\ call'[p].left = call[p].left \ {entry}
        /\ call'[p].paths = call[p].paths
        /\ call'[p].cwd = call[p].cwd
        /\ call'[p].touched = call[p].touched \ {place}
    BY <1>1, <2>2 DEF Running, Compare
  <2>4. \A name : Safe(p, name) => Safe(p, name)'
    BY <2>1, <2>3 DEF Safe, PlaceOf, Compare
  <2>5. Safe(p, entry.path)'
    BY <2>1, <2>3 DEF Safe, PlaceOf, Compare
  <2>6. ASSUME NEW name \in call[p].paths
        PROVE  Safe(p, name)' \/ \E e \in call'[p].left : e.path = name
    <3>1. CASE Safe(p, name)
      BY <2>4, <3>1
    <3>2. CASE \E e \in call[p].left : e.path = name
      BY <2>3, <2>5, <3>2
    <3>3. QED
      BY <1>1, <2>6, <3>1, <3>2 DEF Looked, Compare
  <2>7. Looked(p)'
    BY <1>1, <2>3, <2>6 DEF Looked, Compare
  <2>8. QED
    BY <1>3, <2>7, OneLooked DEF Compare, IInv, TypeOK, NoEdit
<1>4. QED
  BY <1>2, <1>3

LEMMA LoadLooked ==
  ASSUME IInv, TypeOK', NEW p \in Process, Load(p)
  PROVE  IInv'
<1>1. call[p] \in Running /\ Looked(p)
  BY ActiveRuns DEF Load, Active, IInv
<1>2. call'[p] = [call[p] EXCEPT !.step = "check", !.entries = manifest,
                    !.dirs = IF call[p].paths = {} THEN Probed ELSE call[p].paths]
  BY DEF Load, IInv, TypeOK
<1>3. /\ call'[p].step = "check" /\ call'[p].command = call[p].command
      /\ call'[p].paths = call[p].paths /\ call'[p].cwd = call[p].cwd
      /\ call'[p].touched = call[p].touched
      /\ call[p].paths # {} => call'[p].dirs = call[p].paths
  BY <1>1, <1>2 DEF Running
<1>4. \A name : Safe(p, name) => Safe(p, name)'
  BY <1>3 DEF Safe, PlaceOf, Load
<1>5. Looked(p)'
  BY <1>1, <1>3, <1>4 DEF Looked, Load
<1>6. QED
  BY <1>5, OneLooked DEF Load, IInv, TypeOK, NoEdit

LEMMA CheckLooked ==
  ASSUME IInv, TypeOK', NEW p \in Process, NEW name \in Name, Check(p, name)
  PROVE  IInv'
<1> DEFINE place == PlaceOf(p, name)
           touched == IF name \in call[p].paths THEN call[p].touched
                      ELSE call[p].touched \ {place}
<1>1. call[p] \in Running /\ Looked(p)
  BY ActiveRuns DEF Check, Active, IInv
<1>2. CASE Refuses(p, name)
  BY <1>2, EndsLooked DEF Check, Ends, NoEdit
<1>3. CASE ~Refuses(p, name)
  <2>1. call'[p] = [call[p] EXCEPT !.step = "write", !.target = {name},
                      !.dirs = @ \ {name}, !.touched = touched]
    BY <1>3 DEF Check, IInv, TypeOK
  <2> HIDE DEF touched
  <2>2. /\ call'[p].step = "write" /\ call'[p].command = call[p].command
        /\ call'[p].target = {name} /\ call'[p].dirs = call[p].dirs \ {name}
        /\ call'[p].paths = call[p].paths /\ call'[p].cwd = call[p].cwd
        /\ call'[p].entries = call[p].entries
        /\ call'[p].touched = touched
    BY <1>1, <2>1 DEF Running
  <2>3. \A n : PlaceOf(p, n)' = PlaceOf(p, n)
    BY <2>2 DEF PlaceOf
  <2>4. CASE name \in call[p].paths
    <3>1. \A n : Safe(p, n) => Safe(p, n)'
      BY <2>2, <2>3, <2>4 DEF Safe, Check, touched
    <3>2. Safe(p, name)' \/ Entitled(p, name)'
      BY <1>1, <2>2, <2>4, <3>1 DEF Looked, Check, Entitled
    <3>3. QED
      BY <1>1, <2>2, <3>1, <3>2, <1>3, OneLooked DEF Looked, Check, IInv, TypeOK, NoEdit
  <2>5. CASE name \notin call[p].paths
    <3>1. call[p].paths = {}
      BY <1>1, <2>5 DEF Looked, Check
    <3>2. CASE EntryFor(call[p].entries, name) = {}
      <4>1. Entitled(p, name)'
        BY <2>2, <3>2 DEF Entitled, EntryFor
      <4>2. QED
        BY <1>1, <2>2, <3>1, <4>1, <1>3, OneLooked DEF Looked, Check, IInv, TypeOK, NoEdit
    <3>3. CASE EntryFor(call[p].entries, name) # {}
      <4>1. PICK entry \in EntryFor(call[p].entries, name) : TRUE
        BY <3>3
      <4>2. entry \in ManifestEntry /\ ~Modified(place, entry.digest)
        BY <1>1, <1>3, <2>5, <4>1 DEF Refuses, EntryFor, Running
      <4>3. file[place] # Own
        BY <4>2, OwnIsNoVersion DEF Modified, ManifestEntry
      <4>4. Safe(p, name)'
        BY <2>3, <4>3 DEF Safe, Check
      <4>5. QED
        BY <1>1, <2>2, <3>1, <4>4, <1>3, OneLooked DEF Looked, Check, IInv, TypeOK, NoEdit
    <3>4. QED
      BY <3>2, <3>3
  <2>6. QED
    BY <2>4, <2>5
<1>4. QED
  BY <1>2, <1>3

LEMMA WriteLooked ==
  ASSUME IInv, TypeOK', NEW p \in Process, NEW name \in Name, Write(p, name)
  PROVE  IInv'
<1> DEFINE place == PlaceOf(p, name)
           entries == Recorded(call[p].entries, [path |-> name, digest |-> call[p].version])
<1>1. call[p] \in Running /\ Looked(p)
  BY ActiveRuns DEF Write, Active, IInv
<1>2. call'[p] = [call[p] EXCEPT !.step = "check", !.target = {},
                    !.entries = entries, !.changed = @ \union {place}]
  BY DEF Write, IInv, TypeOK
<1> HIDE DEF entries
<1>3. /\ call'[p].step = "check" /\ call'[p].command = call[p].command
      /\ call'[p].paths = call[p].paths /\ call'[p].cwd = call[p].cwd
      /\ call'[p].dirs = call[p].dirs
      /\ call'[p].touched = call[p].touched
  BY <1>1, <1>2 DEF Running
<1>4. file' = [file EXCEPT ![place] = call[p].version]
  BY DEF Write
<1>5. NoEdit
  BY <1>1, <1>4, OwnIsNoVersion DEF NoEdit, Running, IInv, TypeOK
<1>6. \A n \in Name : PlaceOf(p, n)' = PlaceOf(p, n) /\ PlaceOf(p, n) \in Place
  BY <1>1, <1>3 DEF PlaceOf, Running
<1>7. \A n \in Name : Safe(p, n) => Safe(p, n)'
  BY <1>3, <1>5, <1>6 DEF Safe, NoEdit
<1>8. Looked(p)'
  BY <1>1, <1>3, <1>7 DEF Looked, Write, Running
<1>9. QED
  BY <1>5, <1>8, OneLooked DEF Write, IInv, TypeOK

LEMMA LoadAllLooked ==
  ASSUME IInv, TypeOK', NEW p \in Process, LoadAll(p)
  PROVE  IInv'
<1>1. call[p] \in Running
  BY ActiveRuns DEF LoadAll, Active, IInv
<1>2. call'[p].step = "examine" /\ call'[p].command = "uninstall"
  BY <1>1 DEF LoadAll, IInv, TypeOK, Running
<1>3. Looked(p)'
  BY <1>2 DEF Looked
<1>4. QED
  BY <1>3, OneLooked DEF LoadAll, IInv, TypeOK, NoEdit

(* An uninstall comes to no step that checks or writes.                    *)
LEMMA KeepLooked ==
  ASSUME IInv, TypeOK', NEW p \in Process, NEW entry \in ManifestEntry, Keep(p, entry)
  PROVE  IInv'
<1>1. call[p] \in Running
  BY ActiveRuns DEF Keep, Active, IInv
<1>2. call'[p].step = "examine" /\ call'[p].command = call[p].command
  BY <1>1 DEF Keep, IInv, TypeOK, Running
<1>3. Looked(p)'
  BY <1>2 DEF Looked
<1>4. QED
  BY <1>3, OneLooked DEF Keep, IInv, TypeOK, NoEdit

LEMMA DropLooked ==
  ASSUME IInv, TypeOK', NEW p \in Process, NEW entry \in ManifestEntry, Drop(p, entry)
  PROVE  IInv'
<1> DEFINE place == PlaceOf(p, entry.path)
<1>1. call[p] \in Running
  BY ActiveRuns DEF Drop, Active, IInv
<1>2. call'[p] = [call[p] EXCEPT !.step = "remove", !.target = {entry.path},
                    !.left = @ \ {entry}, !.touched = @ \ {place}]
  BY DEF Drop, IInv, TypeOK
<1>3. /\ call'[p].step = "remove" /\ call'[p].target = {entry.path}
      /\ call'[p].cwd = call[p].cwd
  BY <1>1, <1>2 DEF Running
<1>4. file[place] # Own
  BY OwnIsNoVersion DEF Drop, ManifestEntry
<1>5. Safe(p, entry.path)'
  BY <1>3, <1>4 DEF Safe, PlaceOf, Drop
<1>6. Looked(p)'
  BY <1>3, <1>5 DEF Looked
<1>7. QED
  BY <1>6, OneLooked DEF Drop, IInv, TypeOK, NoEdit

LEMMA RemoveLooked ==
  ASSUME IInv, TypeOK', NEW p \in Process, NEW name \in Name, RemoveFile(p, name)
  PROVE  IInv'
<1>1. call[p] \in Running
  BY ActiveRuns DEF RemoveFile, Active, IInv
<1>2. call'[p].step = "examine"
  BY <1>1 DEF RemoveFile, IInv, TypeOK, Running
<1>3. Looked(p)'
  BY <1>2 DEF Looked
<1>4. NoEdit
  BY OwnIsNoVersion DEF NoEdit, RemoveFile, IInv, TypeOK
<1>5. QED
  BY <1>3, <1>4, OneLooked DEF RemoveFile, IInv, TypeOK

LEMMA SaveLooked ==
  ASSUME IInv, TypeOK', NEW p \in Process, Save(p)
  PROVE  IInv'
BY EndsLooked DEF Save, NoEdit

LEMMA StopLooked ==
  ASSUME IInv, TypeOK', NEW p \in Process, Stop(p)
  PROVE  IInv'
BY EndsLooked DEF Stop, Ends, NoEdit

(* The user's edit is noted by every command under way.                    *)
LEMMA EditLooked ==
  ASSUME IInv, TypeOK', NEW place \in Place, NEW content \in {Own, None},
         Edit(place, content)
  PROVE  IInv'
<1>1. ASSUME NEW q \in Active'
      PROVE  Looked(q)'
  <2>1. q \in Active
    BY <1>1 DEF Edit, Active, Idle
  <2>2. call[q] \in Running /\ Looked(q)
    BY <2>1, ActiveRuns DEF IInv
  <2>3. call'[q] = [call[q] EXCEPT !.touched = @ \union {place}]
    BY <2>1 DEF Edit, Active
  <2>4. /\ call'[q].step = call[q].step /\ call'[q].command = call[q].command
        /\ call'[q].paths = call[q].paths /\ call'[q].cwd = call[q].cwd
        /\ call'[q].dirs = call[q].dirs /\ call'[q].entries = call[q].entries
        /\ call'[q].left = call[q].left /\ call'[q].target = call[q].target
        /\ call'[q].touched = call[q].touched \union {place}
    BY <2>2, <2>3 DEF Running
  <2>5. \A name : PlaceOf(q, name)' = PlaceOf(q, name)
    BY <2>4 DEF PlaceOf
  <2>6. \A l \in Place : file'[l] = Own => file[l] = Own \/ l = place
    BY DEF Edit, IInv, TypeOK
  <2>7. \A name \in Name : PlaceOf(q, name) \in Place
    BY <2>2 DEF PlaceOf, Running
  <2>8. \A name \in Name : Safe(q, name) => Safe(q, name)'
    BY <2>4, <2>5, <2>6, <2>7 DEF Safe
  <2>9. \A name : Entitled(q, name) => Entitled(q, name)'
    BY <2>4 DEF Entitled, EntryFor
  <2>10. call[q].target \subseteq Name /\ call[q].paths \subseteq Name
    BY <2>2 DEF Running
  <2>11. QED
    BY <2>2, <2>4, <2>8, <2>9, <2>10 DEF Looked
<1>2. QED
  BY <1>1 DEF IInv

LEMMA LookedStep ==
  ASSUME IInv, [Next]_vars
  PROVE  IInv'
<1> USE DEF IInv
<1>1. TypeOK'
  BY TypeStep
<1>2. ASSUME NEW p \in Process, NEW version \in Version, NEW cwd \in Cwd,
             \/ \E paths \in Given : Start(p, "install", version, cwd, paths)
             \/ Start(p, "upgrade", version, cwd, {})
      PROVE  IInv'
  BY <1>1, <1>2, StartLooked
<1>3. ASSUME NEW p \in Process, NEW cwd \in Cwd,
             Start(p, "uninstall", CHOOSE v \in Version : TRUE, cwd, {})
      PROVE  IInv'
  BY <1>1, <1>3, StartLooked
<1>4. ASSUME NEW p \in Process,
             Survey(p) \/ Load(p) \/ LoadAll(p) \/ Save(p) \/ Stop(p)
      PROVE  IInv'
  BY <1>1, <1>4, SurveyLooked, LoadLooked, LoadAllLooked, SaveLooked, StopLooked
<1>5. ASSUME NEW p \in Process, NEW entry \in ManifestEntry,
             Compare(p, entry) \/ Keep(p, entry) \/ Drop(p, entry)
      PROVE  IInv'
  BY <1>1, <1>5, CompareLooked, KeepLooked, DropLooked
<1>6. ASSUME NEW p \in Process, NEW name \in Name,
             Check(p, name) \/ Write(p, name) \/ RemoveFile(p, name)
      PROVE  IInv'
  BY <1>1, <1>6, CheckLooked, WriteLooked, RemoveLooked
<1>7. ASSUME NEW place \in Place, NEW content \in {Own, None}, Edit(place, content)
      PROVE  IInv'
  BY <1>1, <1>7, EditLooked
<1>8. CASE UNCHANGED vars
  <2>1. \A q \in Active' : q \in Active /\ Same(call'[q], call[q])
    BY <1>8 DEF vars, Active, Same
  <2>2. NoEdit
    BY <1>8 DEF vars, NoEdit
  <2>3. QED
    BY <1>1, <2>1, <2>2, OthersLooked
<1>9. QED
  BY <1>2, <1>3, <1>4, <1>5, <1>6, <1>7, <1>8 DEF Next

(* What takes a file out of the user's hands is a write or a removal.      *)
LEMMA KeptStep ==
  ASSUME IInv, [Next]_vars, NEW l \in Place, file[l] = Own, file'[l] # Own,
         edits' = edits
  PROVE  \E p \in Active :
           \/ l \in call[p].touched
           \/ \E name \in call[p].target :
                /\ call[p].step = "write" /\ PlaceOf(p, name) = l
                /\ Entitled(p, name)
<1>1. ASSUME NEW p \in Process, NEW name \in Name, Write(p, name)
      PROVE  \E q \in Active :
               \/ l \in call[q].touched
               \/ \E n \in call[q].target :
                    /\ call[q].step = "write" /\ PlaceOf(q, n) = l
                    /\ Entitled(q, n)
  <2>1. p \in Active
    BY <1>1 DEF Write, Active
  <2>2. l = PlaceOf(p, name)
    BY <1>1 DEF Write, IInv, TypeOK
  <2>3. Safe(p, name) \/ Entitled(p, name)
    BY <1>1, <2>1 DEF IInv, Looked, Write
  <2>4. QED
    BY <1>1, <2>1, <2>2, <2>3 DEF Safe, Write
<1>2. ASSUME NEW p \in Process, NEW name \in Name, RemoveFile(p, name)
      PROVE  \E q \in Active : l \in call[q].touched
  <2>1. p \in Active
    BY <1>2 DEF RemoveFile, Active
  <2>2. l = PlaceOf(p, name)
    BY <1>2 DEF RemoveFile, IInv, TypeOK
  <2>3. Safe(p, name)
    BY <1>2, <2>1 DEF IInv, Looked, RemoveFile
  <2>4. QED
    BY <2>1, <2>2, <2>3 DEF Safe
<1>3. ASSUME NEW place \in Place, NEW content, Edit(place, content)
      PROVE  FALSE
  BY <1>3 DEF Edit, IInv, TypeOK
<1>4. \/ \E p \in Process, name \in Name : Write(p, name) \/ RemoveFile(p, name)
      \/ \E place \in Place, content \in {Own, None} : Edit(place, content)
      \/ UNCHANGED file
  <2>1. \A p, command, version, cwd, paths :
          Start(p, command, version, cwd, paths) => UNCHANGED file
    BY DEF Start
  <2>2. \A p : Survey(p) \/ Load(p) \/ LoadAll(p) \/ Save(p) \/ Stop(p) => UNCHANGED file
    BY DEF Survey, Load, LoadAll, Save, Stop
  <2>3. \A p, entry : Compare(p, entry) \/ Keep(p, entry) \/ Drop(p, entry) => UNCHANGED file
    BY DEF Compare, Keep, Drop
  <2>4. \A p, name : Check(p, name) => UNCHANGED file
    BY DEF Check
  <2>5. UNCHANGED vars => UNCHANGED file
    BY DEF vars
  <2>6. QED
    BY <2>1, <2>2, <2>3, <2>4, <2>5 DEF Next
<1>5. QED
  BY <1>1, <1>2, <1>3, <1>4

(* The user's edits are kept, however commands, edits and failures         *)
(* interleave.                                                             *)
THEOREM EditsKept == Spec => UserEditsKept
<1>1. Init => IInv
  BY InitType DEF IInv, Init, Active, Idle
<1>2. IInv /\ [Next]_vars => IInv'
  BY LookedStep
<1>3. IInv /\ [Next]_vars =>
        [\A l \in Place : file[l] = Own /\ file'[l] # Own =>
           \/ edits' # edits
           \/ \E p \in Active :
                \/ l \in call[p].touched
                \/ \E name \in call[p].target :
                     /\ call[p].step = "write" /\ PlaceOf(p, name) = l
                     /\ Entitled(p, name)]_vars
  BY KeptStep
<1>4. QED
  BY <1>1, <1>2, <1>3, PTL DEF Spec, UserEditsKept

----------------------------------------------------------------------------
(* The manifest tells the truth *)

(* A name that does not depend on a directory is its place to any command. *)
LEMMA DenotedPlace ==
  ASSUME TypeOK, NEW p \in Active, NEW name \in Name, NEW l, Denotes(name, l)
  PROVE  PlaceOf(p, name) = l
BY ActiveRuns DEF Denotes, Relative, PlaceOf, Running

LEMMA PlaceDenoted ==
  ASSUME TypeOK, NEW p \in Active, NEW name \in Name, ~Relative(name)
  PROVE  Denotes(name, PlaceOf(p, name))
BY ActiveRuns DEF Denotes, PlaceOf, Running

(* What is settled for one command is so for every other.                  *)
LEMMA SettledAlike ==
  ASSUME TypeOK, NEW p \in Active, NEW q \in Active, NEW entry \in ManifestEntry,
         Settled(p, entry)
  PROVE  Settled(q, entry)
<1>1. entry.path \in Name
  BY DEF ManifestEntry
<1>2. Denotes(entry.path, PlaceOf(p, entry.path))
  BY <1>1, PlaceDenoted DEF Settled
<1>3. PlaceOf(q, entry.path) = PlaceOf(p, entry.path)
  BY <1>1, <1>2, DenotedPlace
<1>4. QED
  BY <1>3 DEF Settled

(* The other commands of a step of p.                                      *)
Apart(p) == \A q \in Process \ {p} : call'[q] = call[q]

LEMMA UnsettledGrows ==
  ASSUME NEW p \in Process, Apart(p), loose \subseteq loose',
         \/ p \in Active' /\ call[p].changed \subseteq call'[p].changed
         \/ call[p].changed \subseteq loose'
  PROVE  Unsettled \subseteq Unsettled'
<1>1. ASSUME NEW l \in Unsettled
      PROVE  l \in Unsettled'
  <2>1. CASE l \in loose
    BY <2>1 DEF Unsettled
  <2>2. CASE l \notin loose
    <3>1. PICK q \in Active : l \in call[q].changed
      BY <2>2 DEF Unsettled
    <3>2. CASE q = p
      BY <3>1, <3>2 DEF Unsettled
    <3>3. CASE q # p
      BY <3>1, <3>3 DEF Unsettled, Active, Apart
    <3>4. QED
      BY <3>2, <3>3
  <2>3. QED
    BY <2>1, <2>2
<1>2. QED
  BY <1>1

LEMMA SettledBack ==
  ASSUME NEW p, NEW entry, call'[p].cwd = call[p].cwd,
         Unsettled \subseteq Unsettled', Settled(p, entry)'
  PROVE  Settled(p, entry)
BY DEF Settled, PlaceOf

(* What bbg wrote in this step is at a place that is not settled.          *)
Quiet == \A l \in Place \ Unsettled' : file'[l] \in Version => file'[l] = file[l]

Truthful(p) == Current(p) /\ Accounted(p) /\ Staged(p)

(* A step of one command that leaves the manifest keeps the truth of it if *)
(* it does its own part.                                                   *)
LEMMA OneTruth ==
  ASSUME TruthInv, TypeOK', NEW p \in Active, Apart(p),
         Unsettled \subseteq Unsettled', manifest' = manifest, Quiet,
         p \in Active' => call'[p].overlapped = call[p].overlapped /\ Truthful(p)'
  PROVE  TruthInv'
<1>1. \A q \in Active' : q \in Active
  BY DEF Active, Apart
<1>2. Alone'
  BY <1>1 DEF Alone, TruthInv, Apart, Active
<1>3. Told'
  BY DEF Told, TruthInv, Quiet
<1>4. ASSUME NEW q \in Active', q # p
      PROVE  Truthful(q)'
  <2>1. q \in Active /\ call'[q] = call[q] /\ call[q].overlapped
    BY <1>1, <1>4 DEF Apart, Active, TruthInv, Alone
  <2>2. Current(q)'
    <3>1. \A entry : Settled(q, entry)' => Settled(q, entry)
      BY <2>1, SettledBack
    <3>2. Current(q)
      BY <2>1 DEF TruthInv
    <3>3. QED
      BY <2>1, <3>1, <3>2 DEF Current, Known
  <2>3. Accounted(q)'
    BY <2>1 DEF Accounted
  <2>4. Staged(q)
    BY <2>1 DEF TruthInv
  <2>5. Staged(q)'
    BY <2>1, <2>4 DEF Staged
  <2>6. QED
    BY <2>2, <2>3, <2>5 DEF Truthful
<1>5. \A q \in Active' : Truthful(q)'
  BY <1>4
<1>6. QED
  BY <1>2, <1>3, <1>5 DEF TruthInv, Truthful

LEMMA EndsTruth ==
  ASSUME TruthInv, TypeOK', NEW p \in Active, Ends(p),
         file' = file, manifest' = manifest
  PROVE  TruthInv'
<1>1. p \notin Active'
  BY DEF Ends, TruthInv, TypeOK, Active, Idle
<1>2. Apart(p)
  BY DEF Ends, TruthInv, TypeOK, Apart
<1>3. Unsettled \subseteq Unsettled'
  <2>1. p \in Process
    BY DEF Active
  <2>2. QED
    BY <1>2, <2>1, UnsettledGrows DEF Ends
<1>4. QED
  BY <1>1, <1>2, <1>3, OneTruth DEF Quiet

LEMMA StartTruth ==
  ASSUME TruthInv, TypeOK', NEW p \in Process, NEW version, NEW cwd, NEW paths,
         NEW command \in {"install", "upgrade", "uninstall"},
         Start(p, command, version, cwd, paths)
  PROVE  TruthInv'
<1> DEFINE begun == Begun(command, version, cwd, paths)
<1>1. call'[p] = begun /\ p \notin Active /\ p \in Active'
  BY DEF Start, Begun, Active
<1>2. /\ begun.overlapped = (Active # {}) /\ begun.changed = {}
      /\ begun.step = IF command = "upgrade" THEN "survey" ELSE "load"
      /\ begun.command = command
  BY DEF Begun
<1> HIDE DEF begun
<1>3. ASSUME NEW q \in Active', q # p
      PROVE  /\ q \in Active
             /\ call'[q].overlapped
             /\ call'[q].step = call[q].step /\ call'[q].command = call[q].command
             /\ call'[q].cwd = call[q].cwd /\ call'[q].changed = call[q].changed
             /\ call'[q].entries = call[q].entries
             /\ call'[q].left = call[q].left /\ call'[q].target = call[q].target
  <2>1. call'[q] = Accompanied(q)
    BY <1>3 DEF Start, Active
  <2>2. q \in Active
    BY <1>3, <2>1, AccompaniedType DEF TruthInv, Active
  <2>3. call[q] \in Running /\ call'[q] = [call[q] EXCEPT !.overlapped = TRUE]
    BY <2>1, <2>2, ActiveRuns DEF Accompanied, TruthInv
  <2>4. QED
    BY <2>2, <2>3 DEF Running
<1>4. \A q \in Active : q \in Active' /\ q # p
  <2>1. TAKE q \in Active
  <2>2. q # p /\ q \in Process
    BY <1>1 DEF Active
  <2>3. call'[q] = Accompanied(q)
    BY <2>2 DEF Start
  <2>4. call'[q].step # "idle"
    BY <2>2, <2>3, AccompaniedType DEF TruthInv
  <2>5. QED
    BY <2>2, <2>4 DEF Active
<1>5. Unsettled' = Unsettled
  <2>1. ASSUME NEW l
        PROVE  l \in Unsettled' <=> l \in Unsettled
    <3>1. l \in Unsettled <=> l \in loose \/ \E q \in Active : l \in call[q].changed
      BY DEF Unsettled
    <3>2. l \in Unsettled' <=> l \in loose' \/ \E q \in Active' : l \in call'[q].changed
      BY DEF Unsettled
    <3>3. (\E q \in Active' : l \in call'[q].changed)
          <=> (\E q \in Active : l \in call[q].changed)
      BY <1>1, <1>2, <1>3, <1>4
    <3>4. loose' = loose
      BY DEF Start
    <3>5. QED
      BY <3>1, <3>2, <3>3, <3>4
  <2>2. QED
    BY <2>1
<1>6. Alone'
  BY <1>1, <1>2, <1>3 DEF Alone
<1>7. Told'
  BY <1>5 DEF Told, TruthInv, Start
<1>8. ASSUME NEW q \in Active'
      PROVE  Truthful(q)'
  <2>1. CASE q = p
    <3>1. Accounted(p)' /\ Staged(p)'
      BY <1>1, <1>2 DEF Accounted, Staged
    <3>2. Current(p)'
      <4>1. call'[p].entries = {} /\ call'[p].left = {}
        BY <1>1 DEF begun, Begun
      <4>2. call'[p].step \notin {"check", "write", "examine", "remove"}
        BY <1>1, <1>2
      <4>3. \A entry : entry \notin Known(p)'
        BY <4>1 DEF Known
      <4>4. QED
        BY <4>2, <4>3 DEF Current
    <3>3. QED
      BY <2>1, <3>1, <3>2 DEF Truthful
  <2>2. CASE q # p
    <3>1. Current(q) /\ Staged(q)
      BY <1>3, <1>8, <2>2 DEF TruthInv
    <3>2. \A entry : Settled(q, entry)' => Settled(q, entry)
      BY <1>3, <1>5, <1>8, <2>2, SettledBack
    <3>3. Current(q)'
      BY <1>3, <1>8, <2>2, <3>1, <3>2 DEF Current, Known, Start
    <3>4. Staged(q)'
      BY <1>3, <1>8, <2>2, <3>1 DEF Staged
    <3>5. Accounted(q)'
      BY <1>3, <1>8, <2>2 DEF Accounted
    <3>6. QED
      BY <3>3, <3>4, <3>5 DEF Truthful
  <2>3. QED
    BY <2>1, <2>2
<1>9. QED
  BY <1>6, <1>7, <1>8 DEF TruthInv, Truthful

(* What a command has loaded stays current if it comes to know the same of *)
(* the places that stay settled.                                           *)
LEMMA CurrentStep ==
  ASSUME NEW p, Current(p), call'[p].cwd = call[p].cwd,
         Unsettled \subseteq Unsettled', manifest' = manifest,
         \A entry \in ManifestEntry : Settled(p, entry)' =>
           /\ entry \in Known(p)' => entry \in Known(p)
           /\ entry \in Known(p) \/ (call[p].step = "remove" /\ entry.path \in call[p].target)
              => \/ entry \in Known(p)'
                 \/ call'[p].step = "compare"
                 \/ call'[p].step = "remove" /\ entry.path \in call'[p].target,
         call[p].step \in {"check", "write", "examine", "remove"}
           \/ call'[p].step \notin {"check", "write", "examine", "remove"}
  PROVE  Current(p)'
<1>1. \A entry : Settled(p, entry)' => Settled(p, entry)
  BY SettledBack
<1>2. QED
  BY <1>1 DEF Current

LEMMA SurveyTruth ==
  ASSUME TruthInv, TypeOK', NEW p \in Process, Survey(p)
  PROVE  TruthInv'
<1>1. p \in Active /\ call[p] \in Running /\ Truthful(p)
  BY ActiveRuns DEF Survey, Active, TruthInv, Truthful
<1>2. call'[p] = [call[p] EXCEPT !.step = "compare", !.left = manifest,
                    !.paths = {entry.path : entry \in manifest}]
  BY DEF Survey, TruthInv, TypeOK
<1>3. /\ call'[p].step = "compare" /\ call'[p].command = call[p].command
      /\ call'[p].cwd = call[p].cwd /\ call'[p].changed = call[p].changed
      /\ call'[p].entries = call[p].entries /\ call'[p].left = manifest
      /\ call'[p].overlapped = call[p].overlapped
  BY <1>1, <1>2 DEF Running
<1>4. Apart(p) /\ p \in Active'
  BY <1>1, <1>3 DEF Survey, TruthInv, TypeOK, Apart, Active
<1>5. Unsettled \subseteq Unsettled'
  BY <1>3, <1>4, UnsettledGrows DEF Survey
<1>6. call[p].entries = {}
  BY <1>1 DEF TruthInv, TypeOK, WellFormed, Survey
<1>7. Current(p)'
  BY <1>3, <1>6 DEF Current, Known, Survey
<1>8. Accounted(p)' /\ Staged(p)'
  BY <1>1, <1>3 DEF Truthful, Accounted, Staged, Survey
<1>9. QED
  BY <1>1, <1>3, <1>4, <1>5, <1>7, <1>8, OneTruth DEF Truthful, Quiet, Survey

LEMMA CompareTruth ==
  ASSUME TruthInv, TypeOK', NEW p \in Process, NEW entry \in ManifestEntry,
         Compare(p, entry)
  PROVE  TruthInv'
<1> DEFINE place == PlaceOf(p, entry.path)
<1>1. p \in Active /\ call[p] \in Running /\ Truthful(p)
  BY ActiveRuns DEF Compare, Active, TruthInv, Truthful
<1>2. CASE Modified(place, entry.digest)
  BY <1>1, <1>2, EndsTruth DEF Compare
<1>3. CASE ~Modified(place, entry.digest)
  <2>1. call'[p] = [call[p] EXCEPT !.left = @ \ {entry}, !.touched = @ \ {place}]
    BY <1>3 DEF Compare, TruthInv, TypeOK
  <2>2. /\ call'[p].step = "compare" /\ call'[p].command = call[p].command
        /\ call'[p].cwd = call[p].cwd /\ call'[p].changed = call[p].changed
        /\ call'[p].entries = call[p].entries
        /\ call'[p].left = call[p].left \ {entry}
        /\ call'[p].overlapped = call[p].overlapped
    BY <1>1, <2>1 DEF Running, Compare
  <2>3. Apart(p) /\ p \in Active'
    BY <1>1, <1>3, <2>2 DEF Compare, TruthInv, TypeOK, Apart, Active
  <2>4. Unsettled \subseteq Unsettled'
    BY <1>3, <2>2, <2>3, UnsettledGrows DEF Compare
  <2>5. Known(p)' \subseteq Known(p)
    BY <2>2 DEF Known
  <2>6. Current(p)'
    BY <1>1, <2>2, <2>4, <2>5, CurrentStep DEF Truthful, Compare
  <2>7. Accounted(p)' /\ Staged(p)'
    BY <1>1, <1>3, <2>2 DEF Truthful, Accounted, Staged, Compare
  <2>8. QED
    BY <1>1, <1>3, <2>2, <2>3, <2>4, <2>6, <2>7, OneTruth DEF Truthful, Quiet, Compare
<1>4. QED
  BY <1>2, <1>3

LEMMA LoadTruth ==
  ASSUME TruthInv, TypeOK', NEW p \in Process, Load(p)
  PROVE  TruthInv'
<1> DEFINE dirs == IF call[p].paths = {} THEN Probed ELSE call[p].paths
<1>1. p \in Active /\ call[p] \in Running /\ Truthful(p)
  BY ActiveRuns DEF Load, Active, TruthInv, Truthful
<1>2. call'[p] = [call[p] EXCEPT !.step = "check", !.entries = manifest, !.dirs = dirs]
  BY DEF Load, TruthInv, TypeOK
<1> HIDE DEF dirs
<1>3. /\ call'[p].step = "check" /\ call'[p].command = call[p].command
      /\ call'[p].cwd = call[p].cwd /\ call'[p].changed = call[p].changed
      /\ call'[p].entries = manifest /\ call'[p].left = call[p].left
      /\ call'[p].overlapped = call[p].overlapped
  BY <1>1, <1>2 DEF Running
<1>4. Apart(p) /\ p \in Active'
  BY <1>1, <1>3 DEF Load, TruthInv, TypeOK, Apart, Active
<1>5. Unsettled \subseteq Unsettled'
  BY <1>3, <1>4, UnsettledGrows DEF Load
<1>6. call[p].left = {} /\ call[p].changed = {} /\ call[p].command # "uninstall"
  BY <1>1 DEF TruthInv, TypeOK, WellFormed, Load, Truthful, Staged
<1>7. Known(p)' = manifest /\ manifest' = manifest
  BY <1>3, <1>6 DEF Known, Load
<1>8. Current(p)'
  BY <1>3, <1>7 DEF Current
<1>9. Accounted(p)' /\ Staged(p)'
  BY <1>3, <1>6 DEF Accounted, Staged
<1>10. QED
  BY <1>1, <1>3, <1>4, <1>5, <1>8, <1>9, OneTruth DEF Truthful, Quiet, Load

LEMMA LoadAllTruth ==
  ASSUME TruthInv, TypeOK', NEW p \in Process, LoadAll(p)
  PROVE  TruthInv'
<1>1. p \in Active /\ call[p] \in Running /\ Truthful(p)
  BY ActiveRuns DEF LoadAll, Active, TruthInv, Truthful
<1>2. call'[p] = [call[p] EXCEPT !.step = "examine", !.left = manifest]
  BY DEF LoadAll, TruthInv, TypeOK
<1>3. /\ call'[p].step = "examine" /\ call'[p].command = call[p].command
      /\ call'[p].cwd = call[p].cwd /\ call'[p].changed = call[p].changed
      /\ call'[p].entries = call[p].entries /\ call'[p].left = manifest
      /\ call'[p].overlapped = call[p].overlapped
  BY <1>1, <1>2 DEF Running
<1>4. Apart(p) /\ p \in Active'
  BY <1>1, <1>3 DEF LoadAll, TruthInv, TypeOK, Apart, Active
<1>5. Unsettled \subseteq Unsettled'
  BY <1>3, <1>4, UnsettledGrows DEF LoadAll
<1>6. call[p].entries = {} /\ call[p].changed = {}
  BY <1>1 DEF TruthInv, TypeOK, WellFormed, LoadAll, Truthful, Staged
<1>7. Known(p)' = manifest /\ manifest' = manifest
  BY <1>3, <1>6 DEF Known, LoadAll
<1>8. Current(p)'
  BY <1>3, <1>7 DEF Current
<1>9. Accounted(p)' /\ Staged(p)'
  BY <1>3, <1>6 DEF Accounted, Staged, LoadAll
<1>10. QED
  BY <1>1, <1>3, <1>4, <1>5, <1>8, <1>9, OneTruth DEF Truthful, Quiet, LoadAll

LEMMA CheckTruth ==
  ASSUME TruthInv, TypeOK', NEW p \in Process, NEW name \in Name, Check(p, name)
  PROVE  TruthInv'
<1> DEFINE touched == IF name \in call[p].paths THEN call[p].touched
                      ELSE call[p].touched \ {PlaceOf(p, name)}
<1>1. p \in Active /\ call[p] \in Running /\ Truthful(p)
  BY ActiveRuns DEF Check, Active, TruthInv, Truthful
<1>2. CASE Refuses(p, name)
  BY <1>1, <1>2, EndsTruth DEF Check
<1>3. CASE ~Refuses(p, name)
  <2>1. call'[p] = [call[p] EXCEPT !.step = "write", !.target = {name},
                      !.dirs = @ \ {name}, !.touched = touched]
    BY <1>3 DEF Check, TruthInv, TypeOK
  <2> HIDE DEF touched
  <2>2. /\ call'[p].step = "write" /\ call'[p].command = call[p].command
        /\ call'[p].cwd = call[p].cwd /\ call'[p].changed = call[p].changed
        /\ call'[p].entries = call[p].entries /\ call'[p].left = call[p].left
        /\ call'[p].overlapped = call[p].overlapped
    BY <1>1, <2>1 DEF Running
  <2>3. Apart(p) /\ p \in Active'
    BY <1>1, <1>3, <2>2 DEF Check, TruthInv, TypeOK, Apart, Active
  <2>4. Unsettled \subseteq Unsettled'
    BY <1>3, <2>2, <2>3, UnsettledGrows DEF Check
  <2>5. Known(p)' = Known(p) /\ call[p].step = "check"
    BY <2>2 DEF Known, Check
  <2>6. Current(p)'
    BY <1>1, <2>2, <2>4, <2>5, CurrentStep DEF Truthful, Check
  <2>7. Accounted(p)' /\ Staged(p)'
    BY <1>1, <1>3, <2>2 DEF Truthful, Accounted, Staged, Check, PlaceOf
  <2>8. QED
    BY <1>1, <1>3, <2>2, <2>3, <2>4, <2>6, <2>7, OneTruth DEF Truthful, Quiet, Check
<1>4. QED
  BY <1>2, <1>3

LEMMA WriteTruth ==
  ASSUME TruthInv, TypeOK', NEW p \in Process, NEW name \in Name, Write(p, name)
  PROVE  TruthInv'
<1> DEFINE place == PlaceOf(p, name)
           written == [path |-> name, digest |-> call[p].version]
           entries == Recorded(call[p].entries, written)
<1>1. p \in Active /\ call[p] \in Running /\ Truthful(p)
  BY ActiveRuns DEF Write, Active, TruthInv, Truthful
<1>2. call'[p] = [call[p] EXCEPT !.step = "check", !.target = {},
                    !.entries = entries, !.changed = @ \union {place}]
  BY DEF Write, TruthInv, TypeOK
<1>3. /\ written.path = name /\ written.digest = call[p].version
      /\ written \in entries
      /\ \A entry : entry.path # name => (entry \in entries <=> entry \in call[p].entries)
  BY DEF Recorded, EntryFor
<1> HIDE DEF entries, written
<1>4. /\ call'[p].step = "check" /\ call'[p].command = call[p].command
      /\ call'[p].cwd = call[p].cwd
      /\ call'[p].changed = call[p].changed \union {place}
      /\ call'[p].entries = entries /\ call'[p].left = call[p].left
      /\ call'[p].overlapped = call[p].overlapped
  BY <1>1, <1>2 DEF Running
<1>5. Apart(p) /\ p \in Active'
  BY <1>1, <1>4 DEF Write, TruthInv, TypeOK, Apart, Active
<1>6. Unsettled \subseteq Unsettled' /\ place \in Unsettled'
  <2>1. Unsettled \subseteq Unsettled'
    BY <1>4, <1>5, UnsettledGrows DEF Write
  <2>2. place \in call'[p].changed
    BY <1>4
  <2>3. QED
    BY <1>5, <2>1, <2>2 DEF Unsettled
<1>7. file' = [file EXCEPT ![place] = call[p].version] /\ place \in Place
  BY <1>1, PlaceType DEF Write, TruthInv
<1>8. Quiet
  BY <1>6, <1>7 DEF Quiet, TruthInv, TypeOK
<1>9. \A n : PlaceOf(p, n)' = PlaceOf(p, n)
  BY <1>4 DEF PlaceOf
<1>10. Current(p)'
  <2>1. \A entry : Settled(p, entry)' => entry.path # name
    BY <1>6, <1>9 DEF Settled
  <2>2. \A entry : entry.path # name => (entry \in Known(p)' <=> entry \in Known(p))
    BY <1>3, <1>4 DEF Known
  <2>3. call[p].step = "write" /\ manifest' = manifest
    BY DEF Write
  <2>4. QED
    BY <1>1, <1>4, <1>6, <2>1, <2>2, <2>3, CurrentStep DEF Truthful
<1>11. Accounted(p)'
  <2>1. SUFFICES ASSUME ~call[p].overlapped, NEW l \in call'[p].changed,
                        file'[l] \in Version
                 PROVE  \E entry \in entries :
                          PlaceOf(p, entry.path) = l /\ entry.digest = file'[l]
    <3>1. call[p].command # "uninstall"
      BY <1>1 DEF Truthful, Staged, Write
    <3>2. QED
      BY <1>4, <1>9, <3>1 DEF Accounted
  <2>2. CASE l = place
    BY <1>3, <1>7, <2>2 DEF TruthInv, TypeOK
  <2>3. CASE l # place
    <3>1. l \in call[p].changed /\ file'[l] = file[l]
      BY <1>1, <1>4, <1>7, <2>3 DEF TruthInv, TypeOK, Running
    <3>2. call[p].command # "uninstall"
      BY <1>1 DEF Truthful, Staged, Write
    <3>3. PICK entry \in call[p].entries :
            PlaceOf(p, entry.path) = l /\ entry.digest = file[l]
      BY <1>1, <2>1, <3>1, <3>2 DEF Truthful, Accounted
    <3>4. entry.path # name
      BY <2>3, <3>3
    <3>5. QED
      BY <1>3, <3>1, <3>3, <3>4
  <2>4. QED
    BY <2>2, <2>3
<1>12. Staged(p)'
  BY <1>1, <1>4 DEF Truthful, Staged, Write
<1>13. manifest' = manifest
  BY DEF Write
<1>14. QED
  BY <1>1, <1>4, <1>5, <1>6, <1>8, <1>10, <1>11, <1>12, <1>13, OneTruth DEF Truthful

LEMMA KeepTruth ==
  ASSUME TruthInv, TypeOK', NEW p \in Process, NEW entry \in ManifestEntry,
         Keep(p, entry)
  PROVE  TruthInv'
<1>1. p \in Active /\ call[p] \in Running /\ Truthful(p)
  BY ActiveRuns DEF Keep, Active, TruthInv, Truthful
<1>2. call'[p] = [call[p] EXCEPT !.left = @ \ {entry}, !.entries = @ \union {entry}]
  BY DEF Keep, TruthInv, TypeOK
<1>3. /\ call'[p].step = call[p].step /\ call'[p].command = call[p].command
      /\ call'[p].cwd = call[p].cwd /\ call'[p].changed = call[p].changed
      /\ call'[p].entries = call[p].entries \union {entry}
      /\ call'[p].left = call[p].left \ {entry}
      /\ call'[p].overlapped = call[p].overlapped
  BY <1>1, <1>2 DEF Running
<1>4. Apart(p) /\ p \in Active' /\ call[p].step = "examine"
  BY <1>1, <1>3 DEF Keep, TruthInv, TypeOK, Apart, Active
<1>5. Unsettled \subseteq Unsettled'
  BY <1>3, <1>4, UnsettledGrows DEF Keep
<1>6. Known(p)' = Known(p)
  BY <1>3 DEF Known, Keep
<1>7. Current(p)'
  BY <1>1, <1>3, <1>4, <1>5, <1>6, CurrentStep DEF Truthful, Keep
<1>8. call[p].command = "uninstall"
  BY <1>1, <1>4 DEF Truthful, Staged
<1>9. Accounted(p)' /\ Staged(p)'
  BY <1>1, <1>3, <1>4, <1>8 DEF Truthful, Accounted, Staged, Keep
<1>10. QED
  BY <1>1, <1>3, <1>4, <1>5, <1>7, <1>9, OneTruth DEF Truthful, Quiet, Keep

LEMMA DropTruth ==
  ASSUME TruthInv, TypeOK', NEW p \in Process, NEW entry \in ManifestEntry,
         Drop(p, entry)
  PROVE  TruthInv'
<1>1. p \in Active /\ call[p] \in Running /\ Truthful(p)
  BY ActiveRuns DEF Drop, Active, TruthInv, Truthful
<1>2. call'[p] = [call[p] EXCEPT !.step = "remove", !.target = {entry.path},
                    !.left = @ \ {entry}, !.touched = @ \ {PlaceOf(p, entry.path)}]
  BY DEF Drop, TruthInv, TypeOK
<1>3. /\ call'[p].step = "remove" /\ call'[p].command = call[p].command
      /\ call'[p].cwd = call[p].cwd /\ call'[p].changed = call[p].changed
      /\ call'[p].entries = call[p].entries
      /\ call'[p].left = call[p].left \ {entry}
      /\ call'[p].target = {entry.path}
      /\ call'[p].overlapped = call[p].overlapped
  BY <1>1, <1>2 DEF Running
<1>4. Apart(p) /\ p \in Active' /\ call[p].step = "examine"
  BY <1>1, <1>3 DEF Drop, TruthInv, TypeOK, Apart, Active
<1>5. Unsettled \subseteq Unsettled'
  BY <1>3, <1>4, UnsettledGrows DEF Drop
<1>6. /\ Known(p)' \subseteq Known(p)
      /\ \A e \in Known(p) : e \in Known(p)' \/ e.path \in call'[p].target
  BY <1>3 DEF Known
<1>7. Current(p)'
  BY <1>1, <1>3, <1>4, <1>5, <1>6, CurrentStep DEF Truthful, Drop
<1>8. call[p].command = "uninstall"
  BY <1>1, <1>4 DEF Truthful, Staged
<1>9. Accounted(p)'
  BY <1>1, <1>3, <1>8 DEF Truthful, Accounted, Drop
<1>10. Staged(p)'
  <2>1. entry.path \in Name
    BY DEF ManifestEntry
  <2>2. QED
    BY <1>3, <1>8, <2>1 DEF Staged
<1>11. QED
  BY <1>1, <1>3, <1>4, <1>5, <1>7, <1>9, <1>10, OneTruth DEF Truthful, Quiet, Drop

LEMMA RemoveTruth ==
  ASSUME TruthInv, TypeOK', NEW p \in Process, NEW name \in Name, RemoveFile(p, name)
  PROVE  TruthInv'
<1> DEFINE place == PlaceOf(p, name)
<1>1. p \in Active /\ call[p] \in Running /\ Truthful(p)
  BY ActiveRuns DEF RemoveFile, Active, TruthInv, Truthful
<1>2. call'[p] = [call[p] EXCEPT !.step = "examine", !.target = {},
                    !.changed = @ \union {place}]
  BY DEF RemoveFile, TruthInv, TypeOK
<1>3. /\ call'[p].step = "examine" /\ call'[p].command = call[p].command
      /\ call'[p].cwd = call[p].cwd
      /\ call'[p].changed = call[p].changed \union {place}
      /\ call'[p].entries = call[p].entries /\ call'[p].left = call[p].left
      /\ call'[p].target = {}
      /\ call'[p].overlapped = call[p].overlapped
  BY <1>1, <1>2 DEF Running
<1>4. Apart(p) /\ p \in Active' /\ call[p].step = "remove"
  BY <1>1, <1>3 DEF RemoveFile, TruthInv, TypeOK, Apart, Active
<1>5. /\ \/ file' = [file EXCEPT ![place] = None] /\ loose' = loose
         \/ file' = file /\ loose' = loose \union {place}
      /\ place \in Place
  BY <1>1, PlaceType DEF RemoveFile, TruthInv
<1>6. Unsettled \subseteq Unsettled' /\ place \in Unsettled'
  <2>1. Unsettled \subseteq Unsettled'
    BY <1>3, <1>4, <1>5, UnsettledGrows
  <2>2. place \in call'[p].changed
    BY <1>3
  <2>3. QED
    BY <1>4, <2>1, <2>2 DEF Unsettled
<1>7. /\ \A l \in Place : file'[l] \in Version => file'[l] = file[l]
      /\ place \in loose' \/ file'[place] \notin Version
  BY <1>5 DEF TruthInv, TypeOK, None
<1>8. Quiet
  BY <1>7 DEF Quiet
<1>9. call[p].target = {name}
  BY <1>1, <1>4 DEF Truthful, Staged, RemoveFile
<1>10. Current(p)'
  <2>1. \A entry : Settled(p, entry)' => entry.path # name
    BY <1>3, <1>6 DEF Settled, PlaceOf
  <2>2. Known(p)' = Known(p) /\ manifest' = manifest
    BY <1>3 DEF Known, RemoveFile
  <2>3. QED
    BY <1>1, <1>3, <1>4, <1>6, <1>9, <2>1, <2>2, CurrentStep DEF Truthful
<1>11. call[p].command = "uninstall"
  BY <1>1, <1>4 DEF Truthful, Staged
<1>12. Accounted(p)'
  <2>1. SUFFICES ASSUME ~call[p].overlapped, NEW l \in call'[p].changed,
                        file'[l] \in Version
                 PROVE  l \in loose'
    BY <1>3, <1>11 DEF Accounted
  <2>2. CASE l = place
    BY <1>7, <2>1, <2>2
  <2>3. CASE l # place
    <3>1. l \in call[p].changed /\ file'[l] = file[l]
      BY <1>1, <1>3, <1>7, <2>1, <2>3 DEF Running
    <3>2. l \in loose
      BY <1>1, <1>11, <2>1, <3>1 DEF Truthful, Accounted
    <3>3. QED
      BY <1>5, <3>2
  <2>4. QED
    BY <2>2, <2>3
<1>13. Staged(p)'
  BY <1>3, <1>11 DEF Staged
<1>14. manifest' = manifest
  BY DEF RemoveFile
<1>15. QED
  BY <1>1, <1>3, <1>4, <1>6, <1>8, <1>10, <1>12, <1>13, <1>14, OneTruth DEF Truthful

(* What a command saves says of settled places what the manifest said.     *)
LEMMA SavedAlike ==
  ASSUME TruthInv, NEW p \in Process, Save(p), NEW entry \in ManifestEntry,
         Settled(p, entry)
  PROVE  entry \in manifest' <=> entry \in manifest
<1>1. p \in Active /\ call[p].step \in {"check", "examine"}
  BY DEF Save, Active
<1>2. call[p].left = {}
  BY <1>1 DEF Save, TruthInv, TypeOK, WellFormed
<1>3. Known(p) = manifest'
  BY <1>2 DEF Known, Save
<1>4. Current(p)
  BY <1>1 DEF TruthInv
<1>5. call[p].step # "remove"
  BY <1>1
<1>6. QED
  BY <1>1, <1>3, <1>4, <1>5 DEF Current

(* With company it leaves what it changed in doubt.                        *)
LEMMA SaveOverlapped ==
  ASSUME TruthInv, TypeOK', NEW p \in Process, Save(p), call[p].overlapped
  PROVE  TruthInv'
<1>1. p \in Active /\ p \notin Active' /\ Apart(p)
  BY DEF Save, Active, TruthInv, TypeOK, Idle, Apart
<1>2. loose' = loose \union call[p].changed /\ file' = file
  BY DEF Save
<1>3. Unsettled \subseteq Unsettled'
  BY <1>1, <1>2, UnsettledGrows
<1>4. \A q \in Active' : q \in Active /\ q # p /\ call'[q] = call[q]
  BY <1>1 DEF Active, Apart
<1>5. Alone'
  BY <1>4 DEF Alone, TruthInv
<1>6. Told'
  <2>1. SUFFICES ASSUME NEW l \in Place \ Unsettled', file'[l] \in Version
                 PROVE  \E entry \in manifest' :
                          Denotes(entry.path, l) /\ entry.digest = file'[l]
    BY DEF Told, Denotes, Relative
  <2>2. PICK entry \in manifest : Denotes(entry.path, l) /\ entry.digest = file[l]
    BY <1>2, <1>3, <2>1 DEF TruthInv, Told
  <2>3. entry \in ManifestEntry /\ entry.path \in Name
    BY DEF TruthInv, TypeOK, ManifestEntry
  <2>4. PlaceOf(p, entry.path) = l
    BY <1>1, <2>2, <2>3, DenotedPlace DEF TruthInv
  <2>5. Settled(p, entry)
    BY <1>3, <2>1, <2>2, <2>4 DEF Settled, Denotes
  <2>6. entry \in manifest'
    BY <2>3, <2>5, SavedAlike
  <2>7. QED
    BY <1>2, <2>2, <2>6
<1>7. ASSUME NEW q \in Active'
      PROVE  Truthful(q)'
  <2>1. /\ q \in Active /\ q # p /\ call'[q] = call[q]
        /\ call[q].overlapped /\ Current(q) /\ Staged(q)
    BY <1>1, <1>4, <1>7 DEF TruthInv, Alone
  <2>2. Current(q)'
    <3>1. ASSUME NEW entry \in ManifestEntry, Settled(q, entry)'
          PROVE  Settled(q, entry) /\ (entry \in manifest' <=> entry \in manifest)
      <4>1. Settled(q, entry)
        BY <1>3, <2>1, <3>1, SettledBack
      <4>2. Settled(p, entry)
        BY <1>1, <2>1, <4>1, SettledAlike DEF TruthInv
      <4>3. QED
        BY <4>1, <4>2, SavedAlike
    <3>2. Known(q)' = Known(q)
      BY <2>1 DEF Known
    <3>3. QED
      BY <2>1, <3>1, <3>2 DEF Current
  <2>3. Accounted(q)' /\ Staged(q)'
    BY <2>1 DEF Accounted, Staged
  <2>4. QED
    BY <2>2, <2>3 DEF Truthful
<1>8. QED
  BY <1>5, <1>6, <1>7 DEF TruthInv, Truthful

(* Alone it puts on record what it wrote, but for relative names.          *)
LEMMA SaveAlone ==
  ASSUME TruthInv, TypeOK', NEW p \in Process, Save(p), ~call[p].overlapped
  PROVE  TruthInv'
<1> DEFINE named == {name \in Name : PlaceOf(p, name) \in call[p].changed
                                      /\ EntryFor(call[p].entries, name) # {}}
           doubtful == UNION {{At[c][name] : c \in Cwd} :
                                name \in {n \in named : Relative(n)}}
<1>1. p \in Active /\ call[p] \in Running /\ Truthful(p)
  BY ActiveRuns DEF Save, Active, TruthInv, Truthful
<1>2. \A q \in Active : q = p
  BY <1>1 DEF TruthInv, Alone
<1>3. Active' = {}
  <2>1. call' = [call EXCEPT ![p] = Idle]
    BY DEF Save
  <2>2. QED
    BY <1>2, <2>1 DEF Active, TruthInv, TypeOK, Idle
<1>4. /\ file' = file /\ manifest' = call[p].entries
      /\ loose' = IF call[p].command = "uninstall" THEN loose \union doubtful
                  ELSE (loose \ call[p].changed) \union doubtful
  BY DEF Save
<1>5. ASSUME NEW name \in Name, Relative(name), PlaceOf(p, name) \in call[p].changed,
             EntryFor(call[p].entries, name) # {}
      PROVE  PlaceOf(p, name) \in doubtful
  BY <1>1, <1>5 DEF PlaceOf, Running
<1> HIDE DEF doubtful, named
<1>6. \A l : l \in loose' => l \in Unsettled'
  BY DEF Unsettled
<1>7. \A l : l \in Unsettled => l \in loose \/ l \in call[p].changed
  BY <1>2 DEF Unsettled
<1>8. ASSUME NEW l \in Place \ Unsettled', file'[l] \in Version
      PROVE  \E entry \in manifest' : Denotes(entry.path, l) /\ entry.digest = file'[l]
  <2>1. l \notin loose'
    BY <1>6, <1>8
  <2>2. CASE l \in call[p].changed
    <3>1. call[p].command # "uninstall"
      BY <1>1, <1>4, <1>8, <2>1, <2>2 DEF Truthful, Accounted
    <3>2. PICK entry \in call[p].entries :
            PlaceOf(p, entry.path) = l /\ entry.digest = file[l]
      BY <1>1, <1>4, <1>8, <2>2, <3>1 DEF Truthful, Accounted
    <3>3. entry.path \in Name /\ EntryFor(call[p].entries, entry.path) # {}
      BY <1>1 DEF Running, ManifestEntry, EntryFor
    <3>4. ~Relative(entry.path)
      BY <1>4, <1>5, <2>1, <2>2, <3>1, <3>2, <3>3
    <3>5. Denotes(entry.path, l)
      BY <1>1, <3>2, <3>3, <3>4, PlaceDenoted DEF TruthInv
    <3>6. QED
      BY <1>4, <3>2, <3>5
  <2>3. CASE l \notin call[p].changed
    <3>1. l \notin Unsettled
      BY <1>4, <1>7, <2>1, <2>3
    <3>2. PICK entry \in manifest : Denotes(entry.path, l) /\ entry.digest = file[l]
      BY <1>4, <1>8, <3>1 DEF TruthInv, Told
    <3>3. entry \in ManifestEntry /\ entry.path \in Name
      BY DEF TruthInv, TypeOK, ManifestEntry
    <3>4. PlaceOf(p, entry.path) = l
      BY <1>1, <3>2, <3>3, DenotedPlace DEF TruthInv
    <3>5. Settled(p, entry)
      BY <3>1, <3>2, <3>4 DEF Settled, Denotes
    <3>6. entry \in manifest'
      BY <3>3, <3>5, SavedAlike
    <3>7. QED
      BY <1>4, <3>2, <3>6
  <2>4. QED
    BY <2>2, <2>3
<1>9. Told'
  BY <1>8 DEF Told, Denotes, Relative
<1>10. QED
  BY <1>3, <1>9 DEF TruthInv, Alone

LEMMA StopTruth ==
  ASSUME TruthInv, TypeOK', NEW p \in Process, Stop(p)
  PROVE  TruthInv'
BY EndsTruth DEF Stop

LEMMA EditTruth ==
  ASSUME TruthInv, TypeOK', NEW place \in Place, NEW content \in {Own, None},
         Edit(place, content)
  PROVE  TruthInv'
<1>1. ASSUME NEW q \in Active
      PROVE  /\ q \in Active'
             /\ call'[q].step = call[q].step /\ call'[q].command = call[q].command
             /\ call'[q].cwd = call[q].cwd /\ call'[q].changed = call[q].changed
             /\ call'[q].entries = call[q].entries
             /\ call'[q].left = call[q].left /\ call'[q].target = call[q].target
             /\ call'[q].overlapped = call[q].overlapped
  <2>1. call[q] \in Running
    BY ActiveRuns DEF TruthInv
  <2>2. call'[q] = [call[q] EXCEPT !.touched = @ \union {place}] /\ q \in Process
    BY DEF Edit, Active
  <2>3. call'[q].step = call[q].step
    BY <2>1, <2>2 DEF Running
  <2>4. QED
    BY <2>1, <2>2, <2>3 DEF Running, Active
<1>2. \A q \in Active' : q \in Active
  BY DEF Edit, Active, Idle
<1>3. loose' = loose /\ manifest' = manifest
  BY DEF Edit
<1>4. \A l : l \in Unsettled' <=> l \in Unsettled
  <2>1. TAKE l
  <2>2. (\E q \in Active' : l \in call'[q].changed) <=> (\E q \in Active : l \in call[q].changed)
    BY <1>1, <1>2
  <2>3. l \in Unsettled' <=> l \in loose' \/ \E q \in Active' : l \in call'[q].changed
    BY DEF Unsettled
  <2>4. l \in Unsettled <=> l \in loose \/ \E q \in Active : l \in call[q].changed
    BY DEF Unsettled
  <2>5. QED
    BY <1>3, <2>2, <2>3, <2>4
<1>5. \A l \in Place : file'[l] \in Version => file'[l] = file[l]
  BY DEF Edit, TruthInv, TypeOK, Own, None
<1>6. Alone'
  BY <1>1, <1>2 DEF Alone, TruthInv
<1>7. Told'
  BY <1>3, <1>4, <1>5 DEF Told, TruthInv
<1>8. ASSUME NEW q \in Active'
      PROVE  Truthful(q)'
  <2>1. q \in Active /\ call[q] \in Running /\ Truthful(q)
    BY <1>2, ActiveRuns DEF TruthInv, Truthful
  <2>2. Unsettled \subseteq Unsettled'
    BY <1>4
  <2>3. Known(q)' = Known(q)
    BY <1>1, <2>1 DEF Known
  <2>4. Current(q)'
    BY <1>1, <1>3, <2>1, <2>2, <2>3, CurrentStep DEF Truthful
  <2>5. Staged(q)'
    BY <1>1, <2>1 DEF Truthful, Staged
  <2>6. Accounted(q)'
    <3>1. call[q].changed \subseteq Place
      BY <2>1 DEF Running
    <3>2. \A n : PlaceOf(q, n)' = PlaceOf(q, n)
      BY <1>1, <2>1 DEF PlaceOf
    <3>3. QED
      BY <1>1, <1>3, <1>5, <2>1, <3>1, <3>2 DEF Truthful, Accounted
  <2>7. QED
    BY <2>4, <2>5, <2>6 DEF Truthful
<1>9. QED
  BY <1>6, <1>7, <1>8 DEF TruthInv, Truthful

LEMMA TruthStep ==
  ASSUME TruthInv, [Next]_vars
  PROVE  TruthInv'
<1>1. TypeOK'
  BY TypeStep DEF TruthInv
<1>2. ASSUME NEW p \in Process, NEW version \in Version, NEW cwd \in Cwd,
             \/ \E paths \in Given : Start(p, "install", version, cwd, paths)
             \/ Start(p, "upgrade", version, cwd, {})
      PROVE  TruthInv'
  BY <1>1, <1>2, StartTruth
<1>3. ASSUME NEW p \in Process, NEW cwd \in Cwd,
             Start(p, "uninstall", CHOOSE v \in Version : TRUE, cwd, {})
      PROVE  TruthInv'
  BY <1>1, <1>3, StartTruth
<1>4. ASSUME NEW p \in Process,
             Survey(p) \/ Load(p) \/ LoadAll(p) \/ Save(p) \/ Stop(p)
      PROVE  TruthInv'
  BY <1>1, <1>4, SurveyTruth, LoadTruth, LoadAllTruth, SaveOverlapped, SaveAlone,
     StopTruth DEF Stop
<1>5. ASSUME NEW p \in Process, NEW entry \in ManifestEntry,
             Compare(p, entry) \/ Keep(p, entry) \/ Drop(p, entry)
      PROVE  TruthInv'
  BY <1>1, <1>5, CompareTruth, KeepTruth, DropTruth
<1>6. ASSUME NEW p \in Process, NEW name \in Name,
             Check(p, name) \/ Write(p, name) \/ RemoveFile(p, name)
      PROVE  TruthInv'
  BY <1>1, <1>6, CheckTruth, WriteTruth, RemoveTruth
<1>7. ASSUME NEW place \in Place, NEW content \in {Own, None}, Edit(place, content)
      PROVE  TruthInv'
  BY <1>1, <1>7, EditTruth
<1>8. CASE UNCHANGED vars
  BY <1>1, <1>8 DEF vars, TruthInv, Alone, Told, Current, Accounted, Staged, Known,
     Settled, Unsettled, Active, PlaceOf
<1>9. QED
  BY <1>2, <1>3, <1>4, <1>5, <1>6, <1>7, <1>8 DEF Next

(* When no command runs, loose is all that is doubtful.                    *)
LEMMA ToldRemovable ==
  ASSUME TruthInv
  PROVE  Removable
<1>1. SUFFICES ASSUME Active = {}, NEW l \in Place \ loose, file[l] \in Version
               PROVE  \E entry \in manifest, c \in Cwd :
                        At[c][entry.path] = l /\ entry.digest = file[l]
  BY DEF Removable
<1>2. l \notin Unsettled
  BY <1>1 DEF Unsettled
<1>3. QED
  BY <1>1, <1>2 DEF TruthInv, Told, Denotes

(* The entry a command refuses on, of a settled place, would be the        *)
(* manifest's own, which is true: or there are two of the place.           *)
LEMMA RefusalJust ==
  ASSUME TruthInv, NEW p \in Active, NEW entry \in Known(p),
         NEW l \in Place \ Unsettled, PlaceOf(p, entry.path) = l,
         Modified(l, entry.digest)
  PROVE  file[l] = Own \/ Aliased(p, l)
<1>1. CASE file[l] \in Version
  <2>1. entry \in ManifestEntry /\ manifest \subseteq ManifestEntry
    BY ActiveRuns DEF Known, Running, TruthInv, TypeOK
  <2>2. PICK told \in manifest : Denotes(told.path, l) /\ told.digest = file[l]
    BY <1>1 DEF TruthInv, Told
  <2>3. told.path \in Name /\ PlaceOf(p, told.path) = l
    BY <2>1, <2>2, DenotedPlace DEF TruthInv, ManifestEntry
  <2>4. told # entry
    BY <2>2 DEF Modified
  <2>5. CASE told.path = entry.path
    <3>1. Settled(p, entry)
      BY <2>2, <2>5 DEF Settled, Denotes
    <3>2. entry \in manifest
      BY <2>1, <3>1 DEF TruthInv, Current
    <3>3. QED
      BY <2>2, <2>4, <2>5, <3>2 DEF TruthInv, TypeOK, UniquePaths
  <2>6. CASE told.path # entry.path
    BY <2>2, <2>3, <2>6 DEF Aliased, Known
  <2>7. QED
    BY <2>5, <2>6
<1>2. CASE file[l] \notin Version
  BY <1>2 DEF TruthInv, TypeOK, Content, Modified
<1>3. QED
  BY <1>1, <1>2

LEMMA RefusalsJust ==
  ASSUME TruthInv
  PROVE  JustRefusal
<1>1. SUFFICES ASSUME NEW p \in Active, NEW l \in RefusedAt(p), l \notin Unsettled
               PROVE  file[l] = Own \/ Aliased(p, l)
  BY DEF JustRefusal
<1>2. call[p] \in Running
  BY ActiveRuns DEF TruthInv
<1>3. ASSUME NEW entry \in Known(p), PlaceOf(p, entry.path) = l,
             Modified(l, entry.digest)
      PROVE  file[l] = Own \/ Aliased(p, l)
  <2>1. entry.path \in Name
    BY <1>2 DEF Known, Running, ManifestEntry
  <2>2. l \in Place
    BY <1>3, <2>1, PlaceType DEF TruthInv
  <2>3. QED
    BY <1>1, <1>3, <2>2, RefusalJust
<1>4. CASE \E entry \in call[p].left :
             Modified(PlaceOf(p, entry.path), entry.digest) /\ l = PlaceOf(p, entry.path)
  BY <1>3, <1>4 DEF Known
<1>5. CASE \E name \in call[p].dirs : Refuses(p, name) /\ l = PlaceOf(p, name)
  <2>1. PICK name \in call[p].dirs : Refuses(p, name) /\ l = PlaceOf(p, name)
    BY <1>5
  <2>2. PICK entry \in call[p].entries :
          entry.path = name /\ Modified(l, entry.digest)
    BY <2>1 DEF Refuses, EntryFor
  <2>3. QED
    BY <1>3, <2>1, <2>2 DEF Known
<1>6. QED
  BY <1>1, <1>4, <1>5 DEF RefusedAt

(* Whatever commands run at once, are killed or fail, and whatever the     *)
(* user edits meanwhile: at every place that no command left in doubt,     *)
(* uninstall finds what bbg wrote and a refusal is the user's own doing.   *)
THEOREM ManifestTells == Spec => []ManifestTruthful
<1>1. Init => TruthInv
  <2>1. SUFFICES ASSUME Init
                 PROVE  TruthInv
    OBVIOUS
  <2>2. Active = {}
    BY <2>1 DEF Init, Active, Idle
  <2>3. \A l \in Place : file[l] \notin Version
    BY <2>1 DEF Init, None
  <2>4. QED
    BY <2>1, <2>2, <2>3, InitType DEF TruthInv, Alone, Told
<1>2. TruthInv /\ [Next]_vars => TruthInv'
  BY TruthStep
<1>3. TruthInv => ManifestTruthful
  BY ToldRemovable, RefusalsJust DEF ManifestTruthful
<1>4. QED
  BY <1>1, <1>2, <1>3, PTL DEF Spec
=============================================================================
