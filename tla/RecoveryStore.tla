--------------------------- MODULE RecoveryStore ---------------------------
(***************************************************************************)
(* The recovery mappings of src/src/store.rs: put_sigil_original and       *)
(* put_normalization_original, which store an original under the hash of   *)
(* the text that stands for it, one action per file operation, by          *)
(* concurrent requests of one or more processes.  Nothing locks the        *)
(* directory: what a put finds absent may be there when it renames its     *)
(* temporary file.                                                         *)
(*                                                                         *)
(* A file is the writer whose put created it (its inode), so that a name   *)
(* can come to denote another writer's file, finished or not.              *)
(***************************************************************************)
CONSTANTS
  Writer,       \* the puts, each performed at most once
  Key,          \* normalized_markdown_hash of the visible text
  Original,     \* the bytes it stands for
  Process,      \* the processes that share the store
  ProcessOf,    \* the process a put runs in
  Name,         \* names of temporary files: a pid and a time
  NameOf,       \* the name a put makes up
  Absent        \* no file

Dir == {"sigil", "normalization"}

ASSUME StoreAssumption ==
  /\ Absent \notin Writer
  /\ ProcessOf \in [Writer -> Process]
  /\ NameOf \in [Writer -> Name]
  /\ \A w, v \in Writer : NameOf[w] = NameOf[v] => ProcessOf[w] = ProcessOf[v]

VARIABLES
  file,         \* sigil/ and normalization/: the file under each key
  temp,         \* the file each temporary name of a directory denotes
  whole,        \* the files that were written to the end
  put,          \* the arguments of a put
  step,         \* where it is
  doneBefore    \* history: the puts that had returned when it began

vars == <<file, temp, whole, put, step, doneBefore>>

Unstarted == "unstarted"
Running == {"check", "create", "write", "rename"}
Returned == {"ok", "error"}
Gone == "gone"

Temp == Dir \X Name

Args == [dir : Dir, key : Key, original : Original]

NoArgs == [dir |-> "none"]

TypeOK ==
  /\ file \in [Dir \X Key -> Writer \cup {Absent}]
  /\ temp \in [Temp -> Writer \cup {Absent}]
  /\ whole \subseteq Writer
  /\ step \in [Writer -> Running \cup Returned \cup {Unstarted, Gone}]
  /\ put \in [Writer -> Args \cup {NoArgs}]
  /\ \A w \in Writer : step[w] \in Running \cup Returned => put[w] \in Args
  /\ doneBefore \in [Writer -> SUBSET Writer]
  /\ \A w \in Writer : step[w] = "rename" => w \in whole

Init ==
  /\ file = [at \in Dir \X Key |-> Absent]
  /\ temp = [n \in Temp |-> Absent]
  /\ whole = {}
  /\ put = [w \in Writer |-> NoArgs]
  /\ step = [w \in Writer |-> Unstarted]
  /\ doneBefore = [w \in Writer |-> {}]

----------------------------------------------------------------------------
At(w) == <<put[w].dir, put[w].key>>

TempOf(w) == <<put[w].dir, NameOf[w]>>

Goto(w, s) == step' = [step EXCEPT ![w] = s]

Begin(w, args) ==
  /\ step[w] = Unstarted
  /\ put' = [put EXCEPT ![w] = args]
  /\ Goto(w, "check")
  /\ doneBefore' = [doneBefore EXCEPT ![w] = {v \in Writer : step[v] \in Returned}]
  /\ UNCHANGED <<file, temp, whole>>

(* What is under the key already satisfies the put: any sigil original     *)
(* does, a normalization original only if the bytes are equal.             *)
Accepts(w, v) ==
  put[w].dir = "normalization" => put[v].original = put[w].original

(* Mutation: the key is not looked up.                                     *)
CheckNothing(w) ==
  /\ step[w] = "check"
  /\ Goto(w, "create")
  /\ UNCHANGED <<file, temp, whole, put, doneBefore>>

(* validate_regular_file, and the comparison of put_normalization_original *)
(* with the file it then opens: no file under a key is ever removed.       *)
Check(w) ==
  /\ step[w] = "check"
  /\ \/ /\ file[At(w)] = Absent
        /\ Goto(w, "create")
     \/ /\ file[At(w)] # Absent
        /\ Goto(w, IF Accepts(w, file[At(w)]) THEN "ok" ELSE "error")
     \/ Goto(w, "error")            \* an I/O error
  /\ UNCHANGED <<file, temp, whole, put, doneBefore>>

----------------------------------------------------------------------------
(* atomic_write *)

(* An error removes the temporary name, whichever file it denotes.         *)
Fail(w) ==
  /\ Goto(w, "error")
  /\ temp' = [temp EXCEPT ![TempOf(w)] = Absent]

(* OpenOptions::create_new *)
Create(w) ==
  /\ step[w] = "create"
  /\ \/ /\ temp[TempOf(w)] = Absent
        /\ temp' = [temp EXCEPT ![TempOf(w)] = w]
        /\ Goto(w, "write")
     \/ Fail(w)                     \* the name exists, or an I/O error
  /\ UNCHANGED <<file, whole, put, doneBefore>>

(* Mutation: the file is not written before it is renamed.                 *)
WriteNothing(w) ==
  /\ step[w] = "write"
  /\ Goto(w, "rename")
  /\ UNCHANGED <<file, temp, whole, put, doneBefore>>

(* write_all and sync_all, through the open file.                          *)
Write(w) ==
  /\ step[w] = "write"
  /\ \/ /\ whole' = whole \cup {w}
        /\ Goto(w, "rename")
        /\ UNCHANGED temp
     \/ /\ Fail(w)
        /\ UNCHANGED whole
  /\ UNCHANGED <<file, put, doneBefore>>

(* Mutation: the file is renamed before it is written.                     *)
RenameFirst(w) ==
  /\ step[w] \in {"write", "rename"}
  /\ temp[TempOf(w)] # Absent
  /\ file' = [file EXCEPT ![At(w)] = temp[TempOf(w)]]
  /\ temp' = [temp EXCEPT ![TempOf(w)] = Absent]
  /\ Goto(w, "ok")
  /\ UNCHANGED <<whole, put, doneBefore>>

(* fs::rename, by name, and set_file_permissions: if that fails the put    *)
(* does although its file is in place.                                     *)
Rename(w) ==
  /\ step[w] = "rename"
  /\ \/ /\ temp[TempOf(w)] # Absent
        /\ file' = [file EXCEPT ![At(w)] = temp[TempOf(w)]]
        /\ temp' = [temp EXCEPT ![TempOf(w)] = Absent]
        /\ \E s \in Returned : Goto(w, s)
     \/ /\ Fail(w)                  \* the name is gone, or an I/O error
        /\ UNCHANGED file
  /\ UNCHANGED <<whole, put, doneBefore>>

(* A process is killed, and its puts with it.                              *)
Kill(p) ==
  /\ \E w \in Writer : ProcessOf[w] = p /\ step[w] \in Running
  /\ step' = [w \in Writer |->
               IF ProcessOf[w] = p /\ step[w] \in Running \cup {Unstarted}
                 THEN Gone ELSE step[w]]
  /\ UNCHANGED <<file, temp, whole, put, doneBefore>>

Next ==
  \/ \E w \in Writer :
       \/ \E args \in Args : Begin(w, args)
       \/ Check(w)
       \/ Create(w)
       \/ Write(w)
       \/ Rename(w)
  \/ \E p \in Process : Kill(p)

Spec == Init /\ [][Next]_vars

----------------------------------------------------------------------------
(* Properties *)

(* What a key denotes is, in full, an original offered for that key,       *)
(* whatever put was killed or failed, and even if two puts of one process  *)
(* made up the same temporary name.                                        *)
WholeOriginals ==
  \A at \in Dir \X Key :
    file[at] # Absent => file[at] \in whole /\ At(file[at]) = at

Overlap(w, v) == w \notin doneBefore[v] /\ v \notin doneBefore[w]

(* A put that returns Ok has a mapping under its key that no later put     *)
(* replaced; for a normalization it is the put's own original, so that the *)
(* text forwarded can be undone.  Only puts that overlapped can break it:  *)
(* both find the key absent, and the first writer does not win.            *)
Acknowledged ==
  \A w \in Writer :
    step[w] = "ok" =>
      /\ file[At(w)] # Absent
      /\ w \notin doneBefore[file[At(w)]]
      /\ \/ put[w].dir = "sigil"
         \/ put[file[At(w)]].original = put[w].original
         \/ \E v \in Writer \ {w} :
              put[v] # NoArgs /\ At(v) = At(w) /\ Overlap(v, w)
============================================================================
