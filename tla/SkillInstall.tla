---------------------------- MODULE SkillInstall ----------------------------
(***************************************************************************)
(* The skill file and its manifest: `bbg install`, `bbg upgrade` and       *)
(* `bbg uninstall` of src/src/skill.rs, from their first read of the       *)
(* manifest to its replacement, one action per access to a file.  Binaries *)
(* of several versions may run at once, in several directories; nothing    *)
(* locks the manifest, and the user edits and removes files meanwhile.     *)
(*                                                                         *)
(* A skill file is the version of the binary that wrote it, which stands   *)
(* for its bytes and their digest; what the user makes of one is Own.  A   *)
(* path is kept as it was given, so that it is a name, and the place it    *)
(* names depends on the directory it is read in.  The entries of a         *)
(* manifest and the paths of a command are sets: they are taken in any     *)
(* order, of which the code takes one.                                     *)
(***************************************************************************)
EXTENDS Integers, FiniteSets

CONSTANTS
  Process,      \* commands that run at a time
  Version,      \* SKILL_VERSION of the binaries
  Place,        \* where a skill file can be
  Name,         \* paths, as given or as probed
  Cwd,          \* directories commands run in
  At,           \* of a directory and a name, the place
  Probed,       \* probe_dirs: names that do not depend on a directory
  Given,        \* what --path names, for an install
  MaxCalls,     \* bound: commands
  MaxEdits,     \* bound: edits and removals by the user
  MaxFaults     \* bound: calls that fail or are killed

ASSUME InstallAssumption ==
  /\ At \in [Cwd -> [Name -> Place]]
  /\ Probed \subseteq Name
  /\ Given \subseteq SUBSET Name
  /\ Version # {} /\ {"own", "none"} \cap Version = {}
  /\ {MaxCalls, MaxEdits, MaxFaults} \subseteq Nat

VARIABLES
  file,         \* what is at each place
  manifest,     \* entries of skill-manifest.json
  call,         \* of each process, the command it runs
  loose,        \* places a command changed without a true record of it
  calls, edits, faults

vars == <<file, manifest, call, loose, calls, edits, faults>>

Own == "own"
None == "none"
Content == Version \union {Own, None}

ManifestEntry == [path : Name, digest : Version]

Idle == [step |-> "idle"]

Steps == {"survey", "compare", "load", "check", "write", "examine", "remove"}

(* A command under way: entries is the manifest it works on, dirs what is  *)
(* left to write, left what is left to compare or examine, target the one  *)
(* it has looked at and is about to write or remove, if any.  For the      *)
(* properties: the places it changed, those the user changed since it last *)
(* looked, and whether another command ran meanwhile.                      *)
Running ==
  [step : Steps, command : {"install", "upgrade", "uninstall"},
   version : Version, cwd : Cwd, paths : SUBSET Name, dirs : SUBSET Name,
   entries : SUBSET ManifestEntry, left : SUBSET ManifestEntry,
   target : SUBSET Name,
   changed : SUBSET Place, touched : SUBSET Place, overlapped : BOOLEAN]

Active == {p \in Process : call[p].step # "idle"}

PlaceOf(p, name) == At[call[p].cwd][name]

(* A name that is another place elsewhere                                  *)
Relative(name) == \E c, d \in Cwd : At[c][name] # At[d][name]

UniquePaths(entries) ==
  \A d, e \in entries : d.path = e.path => d = e

(* Of what a command has loaded and what is left of it.                    *)
WellFormed(c) ==
  /\ UniquePaths(c.entries \union c.left)
  /\ c.step \in {"survey", "compare", "load"} => c.entries = {}
  /\ c.step \in {"survey", "load", "check", "write"} => c.left = {}

TypeOK ==
  /\ file \in [Place -> Content]
  /\ manifest \subseteq ManifestEntry /\ UniquePaths(manifest)
  /\ call \in [Process -> Running \union {Idle}]
  /\ \A p \in Active : WellFormed(call[p])
  /\ loose \subseteq Place
  /\ calls \in 0..MaxCalls /\ edits \in 0..MaxEdits /\ faults \in 0..MaxFaults

Init ==
  /\ file = [l \in Place |-> None]
  /\ manifest = {}
  /\ call = [p \in Process |-> Idle]
  /\ loose = {}
  /\ calls = 0 /\ edits = 0 /\ faults = 0

----------------------------------------------------------------------------
(* Commands *)

(* The command line: a command starts, beside those that run already.      *)
Begun(command, version, cwd, paths) ==
  [step |-> IF command = "upgrade" THEN "survey" ELSE "load",
   command |-> command, version |-> version, cwd |-> cwd, paths |-> paths,
   dirs |-> {}, entries |-> {}, left |-> {}, target |-> {},
   changed |-> {}, touched |-> {}, overlapped |-> Active # {}]

Accompanied(q) ==
  IF q \in Active THEN [call[q] EXCEPT !.overlapped = TRUE] ELSE call[q]

Start(p, command, version, cwd, paths) ==
  /\ call[p].step = "idle"
  /\ calls < MaxCalls
  /\ calls' = calls + 1
  /\ call' = [q \in Process |-> IF q = p THEN Begun(command, version, cwd, paths)
                                 ELSE Accompanied(q)]
  /\ UNCHANGED <<file, manifest, loose, edits, faults>>

(* A command ends without writing the manifest.                            *)
Ends(p) ==
  /\ call' = [call EXCEPT ![p] = Idle]
  /\ loose' = loose \union call[p].changed

(* upgrade reads the manifest,                                             *)
Survey(p) ==
  /\ call[p].step = "survey"
  /\ call' = [call EXCEPT ![p].step = "compare", ![p].left = manifest,
                ![p].paths = {entry.path : entry \in manifest}]
  /\ UNCHANGED <<file, manifest, loose, calls, edits, faults>>

Modified(place, digest) == file[place] \notin {None, digest}

(* refuses if a file is not what its entry says, and otherwise installs    *)
(* into the directories of the entries: those probed if there is none.     *)
Compare(p, entry) ==
  LET place == PlaceOf(p, entry.path)
  IN  /\ call[p].step = "compare" /\ entry \in call[p].left
      /\ IF Modified(place, entry.digest)
         THEN Ends(p)
         ELSE /\ call' = [call EXCEPT ![p].left = @ \ {entry},
                                      ![p].touched = @ \ {place}]
              /\ UNCHANGED loose
      /\ UNCHANGED <<file, manifest, calls, edits, faults>>

(* install reads the manifest,                                             *)
Load(p) ==
  /\ \/ call[p].step = "load" /\ call[p].command = "install"
     \/ call[p].step = "compare" /\ call[p].left = {}
  /\ call' = [call EXCEPT ![p].step = "check", ![p].entries = manifest,
                ![p].dirs = IF call[p].paths = {} THEN Probed ELSE call[p].paths]
  /\ UNCHANGED <<file, manifest, loose, calls, edits, faults>>

EntryFor(entries, name) == {entry \in entries : entry.path = name}

(* Mutation: what was probed counts as named.                              *)
RefusesNone(p, name) ==
  /\ name \notin call[p].dirs
  /\ \E entry \in EntryFor(call[p].entries, name) :
       Modified(PlaceOf(p, name), entry.digest)

(* and before each write makes this test.                                  *)
Refuses(p, name) ==
  /\ name \notin call[p].paths
  /\ \E entry \in EntryFor(call[p].entries, name) :
       Modified(PlaceOf(p, name), entry.digest)

Check(p, name) ==
  /\ call[p].step = "check" /\ name \in call[p].dirs
  /\ IF Refuses(p, name)
     THEN Ends(p)
     ELSE /\ call' = [call EXCEPT
               ![p].step = "write", ![p].target = {name}, ![p].dirs = @ \ {name},
               ![p].touched = IF name \in call[p].paths THEN @
                              ELSE @ \ {PlaceOf(p, name)}]
          /\ UNCHANGED loose
  /\ UNCHANGED <<file, manifest, calls, edits, faults>>

(* Mutation: an entry of that path is not replaced.                        *)
RecordedTwice(entries, entry) == entries \union {entry}

(* Mutation: an entry of that path stays as it is.                         *)
RecordedOnce(entries, entry) ==
  IF EntryFor(entries, entry.path) = {} THEN entries \union {entry} ELSE entries

Recorded(entries, entry) ==
  (entries \ EntryFor(entries, entry.path)) \union {entry}

(* atomic_write of the skill file, seen from its rename; its entry         *)
(* replaces another of that path.                                          *)
Write(p, name) ==
  /\ call[p].step = "write" /\ name \in call[p].target
  /\ file' = [file EXCEPT ![PlaceOf(p, name)] = call[p].version]
  /\ call' = [call EXCEPT
       ![p].step = "check", ![p].target = {},
       ![p].entries = Recorded(@, [path |-> name, digest |-> call[p].version]),
       ![p].changed = @ \union {PlaceOf(p, name)}]
  /\ UNCHANGED <<manifest, loose, calls, edits, faults>>

(* uninstall reads the manifest,                                           *)
LoadAll(p) ==
  /\ call[p].step = "load" /\ call[p].command = "uninstall"
  /\ call' = [call EXCEPT ![p].step = "examine", ![p].left = manifest]
  /\ UNCHANGED <<file, manifest, loose, calls, edits, faults>>

(* keeps the entry of a file that is gone or is not what the entry says,   *)
Keep(p, entry) ==
  /\ call[p].step = "examine" /\ entry \in call[p].left
  /\ file[PlaceOf(p, entry.path)] # entry.digest
  /\ call' = [call EXCEPT ![p].left = @ \ {entry}, ![p].entries = @ \union {entry}]
  /\ UNCHANGED <<file, manifest, loose, calls, edits, faults>>

Drop(p, entry) ==
  /\ call[p].step = "examine" /\ entry \in call[p].left
  /\ file[PlaceOf(p, entry.path)] = entry.digest
  /\ call' = [call EXCEPT ![p].step = "remove", ![p].target = {entry.path},
                          ![p].left = @ \ {entry},
                          ![p].touched = @ \ {PlaceOf(p, entry.path)}]
  /\ UNCHANGED <<file, manifest, loose, calls, edits, faults>>

(* and drops that of a file it removes, whether or not the removal works.  *)
RemoveFile(p, name) ==
  LET place == PlaceOf(p, name)
  IN  /\ call[p].step = "remove" /\ name \in call[p].target
      /\ call' = [call EXCEPT ![p].step = "examine", ![p].target = {},
                              ![p].changed = @ \union {place}]
      /\ \/ file' = [file EXCEPT ![place] = None] /\ UNCHANGED <<loose, faults>>
         \/ /\ faults < MaxFaults /\ faults' = faults + 1
            /\ loose' = loose \union {place}
            /\ UNCHANGED file
      /\ UNCHANGED <<manifest, calls, edits>>

(* save_manifest, seen from its rename.  What the command changed is now   *)
(* on record if it had the manifest for itself; under a relative name, of  *)
(* no place in particular.                                                 *)
Save(p) ==
  LET named == {name \in Name : PlaceOf(p, name) \in call[p].changed
                                  /\ EntryFor(call[p].entries, name) # {}}
      doubtful == IF call[p].overlapped THEN call[p].changed
                  ELSE UNION {{At[c][name] : c \in Cwd} : name \in {n \in named : Relative(n)}}
  IN  /\ \/ call[p].step = "check" /\ call[p].dirs = {}
         \/ call[p].step = "examine" /\ call[p].left = {}
      /\ manifest' = call[p].entries
      /\ loose' = IF call[p].command = "uninstall" \/ call[p].overlapped
                  THEN loose \union doubtful
                  ELSE (loose \ call[p].changed) \union doubtful
      /\ call' = [call EXCEPT ![p] = Idle]
      /\ UNCHANGED <<file, calls, edits, faults>>

(* An access fails, or the command is killed.                              *)
Stop(p) ==
  /\ p \in Active
  /\ faults < MaxFaults /\ faults' = faults + 1
  /\ Ends(p)
  /\ UNCHANGED <<file, manifest, calls, edits>>

(* The user changes a file or puts one of his own there, or removes it.    *)
Edit(place, content) ==
  /\ edits < MaxEdits /\ edits' = edits + 1
  /\ file[place] # content
  /\ file' = [file EXCEPT ![place] = content]
  /\ call' = [p \in Process |->
                IF p \in Active THEN [call[p] EXCEPT !.touched = @ \union {place}] ELSE Idle]
  /\ UNCHANGED <<manifest, loose, calls, faults>>

Next ==
  \/ \E p \in Process :
       \/ \E version \in Version, cwd \in Cwd :
            \/ \E paths \in Given : Start(p, "install", version, cwd, paths)
            \/ Start(p, "upgrade", version, cwd, {})
       \/ \E cwd \in Cwd : Start(p, "uninstall", CHOOSE v \in Version : TRUE, cwd, {})
       \/ Survey(p) \/ Load(p) \/ LoadAll(p)
       \/ \E entry \in ManifestEntry :
            Compare(p, entry) \/ Keep(p, entry) \/ Drop(p, entry)
       \/ \E name \in Name : Check(p, name) \/ Write(p, name) \/ RemoveFile(p, name)
       \/ Save(p) \/ Stop(p)
  \/ \E place \in Place, content \in {Own, None} : Edit(place, content)

Spec == Init /\ [][Next]_vars

----------------------------------------------------------------------------
(* Properties *)

(* `bbg uninstall` can find every skill file it may remove (design.md,     *)
(* "removes it from every location it was written to"): a file that is as  *)
(* bbg wrote it has an entry that says so, unless a command on it was cut  *)
(* short or refused half-way, had company, or knew it by a relative name.  *)
Removable ==
  Active = {} =>
    \A l \in Place \ loose : file[l] \in Version =>
      \E entry \in manifest, c \in Cwd :
        At[c][entry.path] = l /\ entry.digest = file[l]

(* Only what the user made of a file stands in the way of a command        *)
(* ("refusing modified"), or a command that was cut short, refused or had  *)
(* company, or a place with two names.                                     *)
Unsettled == loose \union UNION {call[p].changed : p \in Active}

(* Two entries are of the same place, under two names.                     *)
Aliased(p, place) ==
  \E d, e \in call[p].entries \union call[p].left \union manifest :
    d.path # e.path /\ PlaceOf(p, d.path) = place /\ PlaceOf(p, e.path) = place

RefusedAt(p) ==
  {PlaceOf(p, entry.path) : entry \in
     {e \in call[p].left : /\ call[p].step = "compare"
                           /\ Modified(PlaceOf(p, e.path), e.digest)}}
  \union {PlaceOf(p, name) : name \in
            {n \in call[p].dirs : call[p].step = "check" /\ Refuses(p, n)}}

JustRefusal ==
  \A p \in Active : \A l \in RefusedAt(p) :
    file[l] = Own \/ l \in Unsettled \/ Aliased(p, l)

(* The manifest tells the truth of every place no command left doubtful:   *)
(* what bbg wrote can be removed, and only the user's edits are refused.   *)
ManifestTruthful == Removable /\ JustRefusal

(* What the user made of a file is replaced or removed only by an install  *)
(* that names its path, by a command whose manifest has no entry for it,   *)
(* or if the user made it after the command had looked ("never remove or   *)
(* overwrite an unowned or modified file", tech-stack.md).                 *)
Entitled(p, name) ==
  \/ call[p].command = "install" /\ name \in call[p].paths
  \/ EntryFor(call[p].entries, name) = {}

UserEditsKept ==
  [][\A l \in Place : file[l] = Own /\ file'[l] # Own =>
       \/ edits' # edits
       \/ \E p \in Active :
            \/ l \in call[p].touched
            \/ \E name \in call[p].target :
                 /\ call[p].step = "write" /\ PlaceOf(p, name) = l
                 /\ Entitled(p, name)]_vars
----------------------------------------------------------------------------
(* Why the manifest tells the truth *)

(* Commands that run together know of it.                                  *)
Alone == \A p, q \in Active : p # q => call[p].overlapped /\ call[q].overlapped

(* The name is this place in every directory.                              *)
Denotes(name, l) == ~Relative(name) /\ \E c \in Cwd : At[c][name] = l

(* What bbg wrote is on record under such a name, at a settled place.      *)
Told ==
  \A l \in Place \ Unsettled : file[l] \in Version =>
    \E entry \in manifest : Denotes(entry.path, l) /\ entry.digest = file[l]

Known(p) == call[p].entries \union call[p].left

Settled(p, entry) ==
  ~Relative(entry.path) /\ PlaceOf(p, entry.path) \notin Unsettled

(* Of settled places, what a command has loaded is what the manifest says, *)
(* whatever others have saved since; an upgrade that compares has done     *)
(* with some entries, an uninstall with the one it is about to remove.     *)
Current(p) ==
  \A entry \in ManifestEntry : Settled(p, entry) =>
    /\ entry \in Known(p) => entry \in manifest
    /\ /\ call[p].step \in {"check", "write", "examine", "remove"}
       /\ entry \in manifest
       => \/ entry \in Known(p)
          \/ call[p].step = "remove" /\ entry.path \in call[p].target

(* What a command with the manifest for itself has written is in what it   *)
(* will save; what it could not remove is noted.                           *)
Accounted(p) ==
  ~call[p].overlapped =>
    \A l \in call[p].changed : file[l] \in Version =>
      IF call[p].command = "uninstall" THEN l \in loose
      ELSE \E entry \in call[p].entries :
             PlaceOf(p, entry.path) = l /\ entry.digest = file[l]

(* The steps of an uninstall are its own; nothing changes before one loads *)
(* the manifest; one file is removed at a time.                            *)
Staged(p) ==
  /\ call[p].step \in {"examine", "remove"} => call[p].command = "uninstall"
  /\ call[p].step \in {"survey", "compare", "check", "write"} =>
       call[p].command # "uninstall"
  /\ call[p].step \in {"survey", "compare", "load"} => call[p].changed = {}
  /\ call[p].step = "remove" => \E name \in Name : call[p].target = {name}

TruthInv ==
  /\ TypeOK
  /\ Alone
  /\ Told
  /\ \A p \in Active : Current(p) /\ Accounted(p) /\ Staged(p)
============================================================================
