------------------------------ MODULE Ledgers -------------------------------
(***************************************************************************)
(* The JSONL ledgers of src/src: costs, health and transform receipts,     *)
(* which are only appended to, the transcript, rotated when it is full,    *)
(* and the served ledger, rewritten when it is.  Requests and processes    *)
(* append to them without a lock: an append opens a file by its name and   *)
(* writes a record and its newline in several writes, while another may    *)
(* give the name to another file.                                          *)
(*                                                                         *)
(* A file is the sequence of what single writes put there: a piece of the  *)
(* text of a record, a part of such a piece, or a newline.                 *)
(***************************************************************************)
EXTENDS Integers, SequencesExt

CONSTANTS
  Kinds,        \* the ledgers looked at
  Writers,      \* the appends
  ProcessOf,    \* the process of each
  Times,        \* readings of the clock
  MaxAge,       \* SERVED_LEDGER_MAX_AGE_SECS
  Threshold,    \* SERVED_LEDGER_COMPACT_THRESHOLD_BYTES or DEFAULT_MAX_BYTES
  MaxFaults     \* bound: failed calls and kills

ASSUME LedgersAssumption ==
  /\ Kinds \subseteq {"costs", "receipts", "health", "transcript", "served"}
  /\ IsFiniteSet(Writers) /\ DOMAIN ProcessOf = Writers
  /\ Times # {} /\ Times \subseteq Nat /\ MaxAge \in Nat
  /\ Threshold \in Nat \ {0} /\ MaxFaults \in Nat

VARIABLES
  kind,         \* the ledger
  clock,
  content,      \* of each file
  active,       \* the file under the ledger's name
  backup,       \* and under that name with .1
  floor,        \* served_compact_floor of each process
  op,           \* where each append is
  over,         \* history: the appends that overlapped it
  faults

vars == <<kind, clock, content, active, backup, floor, op, over, faults>>

(* serde_json::to_writer writes a record token by token; two writes stand  *)
(* for those.                                                              *)
Pieces == IF kind \in {"health", "transcript"} THEN 2 ELSE 1

Newline == <<>>
Part(w) == <<w, 0>>
Record(w) == [k \in 1..Pieces |-> <<w, k>>]

(* A file is named by the append that created it, and how.                 *)
NoFile == <<>>
File == Writers \X {"appended", "rewritten"}

Busy(w) == op[w].pc \notin {"new", "done", "failed"}

Content(f) == IF f = NoFile THEN <<>> ELSE content[f]

IsPiece(piece) ==
  \/ piece = Newline
  \/ piece[1] \in Writers /\ piece[2] \in 0..Pieces

TypeOK ==
  /\ kind \in Kinds
  /\ clock \in Times
  /\ \A f \in File : \A i \in 1..Len(content[f]) : IsPiece(content[f][i])
  /\ {active, backup} \subseteq File \union {NoFile}
  /\ active = backup => active = NoFile
  /\ backup # NoFile => kind = "transcript"
  /\ \A w \in Writers :
       /\ op[w].pc \in {"new", "check", "rotate", "open", "write", "stat", "read",
                        "rewrite", "done", "failed"}
       /\ op[w].at \in Times
       /\ op[w].wrote \in 0..(Pieces + 1)
       /\ op[w].pc = "write" => op[w].file \in File /\ op[w].wrote <= Pieces
       /\ op[w].pc \in {"check", "rotate"} => kind = "transcript"
       /\ op[w].pc \in {"stat", "read", "rewrite"} => kind = "served"
       /\ op[w].pc = "done" => op[w].wrote = Pieces + 1
  /\ \A w \in Writers : over[w] \subseteq Writers \ {w}
  /\ \A p \in DOMAIN floor : floor[p] >= Threshold
  /\ faults \in 0..MaxFaults

Init ==
  /\ kind \in Kinds
  /\ clock = CHOOSE t \in Times : TRUE     \* SetClock moves it
  /\ content = [f \in File |-> <<>>]
  /\ active = NoFile
  /\ backup = NoFile
  /\ floor = [p \in {ProcessOf[w] : w \in Writers} |-> Threshold]
  /\ op = [w \in Writers |-> [pc |-> "new", at |-> clock, file |-> NoFile,
                              wrote |-> 0, kept |-> <<>>, now |-> clock]]
  /\ over = [w \in Writers |-> {}]
  /\ faults = 0

Goto(w, pc) == op' = [op EXCEPT ![w].pc = pc]

End(w, pc) == op' = [op EXCEPT ![w] = [@ EXCEPT !.pc = pc, !.kept = <<>>, !.now = op[w].at]]

----------------------------------------------------------------------------
(* What a reader makes of a file *)

Lines(bytes) ==
  LET split == FoldLeft(LAMBDA lines, piece :
                          IF piece = Newline THEN Append(lines, <<>>)
                          ELSE [lines EXCEPT ![Len(lines)] = Append(@, piece)],
                        << <<>> >>, bytes)
  IN  IF Last(split) = <<>> THEN Front(split) ELSE split

(* The records that stand on a line of their own                           *)
Parsed(f) ==
  LET bytes == Content(f)
  IN  {w \in Writers :
         \E i \in 1..(Len(bytes) - Pieces + 1) :
           /\ SubSeq(bytes, i, i + Pieces - 1) = Record(w)
           /\ i = 1 \/ bytes[i - 1] = Newline
           /\ i + Pieces > Len(bytes) \/ bytes[i + Pieces] = Newline}

Readable == Parsed(active) \union Parsed(backup)

----------------------------------------------------------------------------
(* Appending *)

(* A request or `bbg get` has a record to append.                          *)
Begin(w) ==
  LET others == {v \in Writers : Busy(v)}
  IN  /\ op[w].pc = "new"
      /\ op' = [op EXCEPT ![w].pc = IF kind = "transcript" THEN "check" ELSE "open",
                          ![w].at = clock]
      /\ over' = [v \in Writers |-> IF v = w THEN others
                                    ELSE IF v \in others THEN over[v] \union {w}
                                    ELSE over[v]]
      /\ UNCHANGED <<kind, clock, content, active, backup, floor, faults>>

(* Mutation: a ledger that has just reached the cap is not full yet.       *)
CheckAbove(w) ==
  /\ op[w].pc = "check"
  /\ Goto(w, IF Len(Content(active)) > Threshold THEN "rotate" ELSE "open")
  /\ UNCHANGED <<kind, clock, content, active, backup, floor, over, faults>>

(* append_capped: is the transcript full?                                  *)
Check(w) ==
  /\ op[w].pc = "check"
  /\ Goto(w, IF Len(Content(active)) >= Threshold THEN "rotate" ELSE "open")
  /\ UNCHANGED <<kind, clock, content, active, backup, floor, over, faults>>

(* Mutation: the backup is a link to a ledger that stays in place.         *)
RotateByLink(w) ==
  /\ op[w].pc = "rotate"
  /\ backup' = active
  /\ Goto(w, "open")
  /\ UNCHANGED <<kind, clock, content, active, floor, over, faults>>

(* Then it replaces the backup, unless another rotation took it away.      *)
Rotate(w) ==
  /\ op[w].pc = "rotate"
  /\ \/ /\ active # NoFile
        /\ backup' = active
        /\ active' = NoFile
        /\ Goto(w, "open")
     \/ /\ active = NoFile
        /\ Goto(w, "failed")
        /\ UNCHANGED <<active, backup>>
  /\ UNCHANGED <<kind, clock, content, floor, over, faults>>

(* open_private_append: the file of that name, or a new one.               *)
Open(w) ==
  /\ op[w].pc = "open"
  /\ active' = IF active = NoFile THEN <<w, "appended">> ELSE active
  /\ op' = [op EXCEPT ![w].pc = "write", ![w].file = active']
  /\ UNCHANGED <<kind, clock, content, backup, floor, over, faults>>

Put(w, piece) == content' = [content EXCEPT ![op[w].file] = Append(@, piece)]

Appended(w) == op[w].wrote = Pieces + 1

(* Mutation: the newline is left to the next record's writer.              *)
WriteTextOnly(w) ==
  LET n == op[w].wrote + 1
  IN  /\ op[w].pc = "write"
      /\ IF n <= Pieces THEN Put(w, Record(w)[n]) ELSE UNCHANGED content
      /\ op' = [op EXCEPT ![w].wrote = n,
                          ![w].pc = IF n <= Pieces THEN "write"
                                    ELSE IF kind = "served" THEN "stat" ELSE "done"]
      /\ UNCHANGED <<kind, clock, active, backup, floor, over, faults>>

(* One write, to the file that was opened, whatever its name is now.       *)
Write(w) ==
  LET n == op[w].wrote + 1
  IN  /\ op[w].pc = "write"
      /\ Put(w, IF n <= Pieces THEN Record(w)[n] ELSE Newline)
      /\ op' = [op EXCEPT ![w].wrote = n,
                          ![w].pc = IF n <= Pieces THEN "write"
                                    ELSE IF kind = "served" THEN "stat" ELSE "done"]
      /\ UNCHANGED <<kind, clock, active, backup, floor, over, faults>>

----------------------------------------------------------------------------
(* compact_served_ledger *)

Stat(w) ==
  /\ op[w].pc = "stat"
  /\ Goto(w, IF Len(Content(active)) < floor[ProcessOf[w]] THEN "done" ELSE "read")
  /\ UNCHANGED <<kind, clock, content, active, backup, floor, over, faults>>

(* Mutation: an entry of just the maximal age is dropped.                  *)
KeepsYounger(line) ==
  \A w \in Writers : line = Record(w) => op[w].at <= clock /\ clock - op[w].at < MaxAge

(* An entry is dropped when it is too old or dated after now; a line that  *)
(* does not parse is kept.                                                 *)
Keeps(line) ==
  \A w \in Writers : line = Record(w) => op[w].at <= clock /\ clock - op[w].at <= MaxAge

Read(w) ==
  LET kept == SelectSeq(Lines(Content(active)), Keeps)
  IN  /\ op[w].pc = "read"
      /\ op' = [op EXCEPT ![w].pc = "rewrite", ![w].now = clock,
                          ![w].kept = FlattenSeq([i \in 1..Len(kept) |->
                                                    Append(kept[i], Newline)])]
      /\ UNCHANGED <<kind, clock, content, active, backup, floor, over, faults>>

(* atomic_write gives the name to a file of what was kept, and may fail    *)
(* after that.                                                             *)
Rewrite(w) ==
  LET file == <<w, "rewritten">>
  IN  /\ op[w].pc = "rewrite"
      /\ content' = [content EXCEPT ![file] = op[w].kept]
      /\ active' = file
      /\ \/ /\ End(w, "done")
            /\ floor' = [floor EXCEPT ![ProcessOf[w]] = Len(op[w].kept) + Threshold]
            /\ UNCHANGED faults
         \/ /\ faults < MaxFaults
            /\ faults' = faults + 1
            /\ End(w, "failed")
            /\ UNCHANGED floor
      /\ UNCHANGED <<kind, clock, backup, over>>

----------------------------------------------------------------------------
(* A call fails or the process is killed; a write may have put part of a   *)
(* piece there.                                                            *)
Stop(w) ==
  /\ Busy(w)
  /\ faults < MaxFaults
  /\ faults' = faults + 1
  /\ End(w, "failed")
  /\ \/ UNCHANGED content
     \/ op[w].pc = "write" /\ op[w].wrote < Pieces /\ Put(w, Part(w))
  /\ UNCHANGED <<kind, clock, active, backup, floor, over>>

SetClock ==
  /\ kind = "served"
  /\ clock' \in Times
  /\ UNCHANGED <<kind, content, active, backup, floor, op, over, faults>>

Next ==
  \/ \E w \in Writers :
       \/ Begin(w) \/ Check(w) \/ Rotate(w) \/ Open(w) \/ Write(w)
       \/ Stat(w) \/ Read(w) \/ Rewrite(w) \/ Stop(w)
  \/ SetClock

Spec == Init /\ [][Next]_vars

----------------------------------------------------------------------------
(* Properties *)

(* The text of w was glued to what an append that stopped left behind.     *)
Glued(w) ==
  \E i \in 1..(Len(Content(active)) - 1), v \in Writers :
    /\ op[v].pc = "failed" /\ ~Appended(v)
    /\ Content(active)[i] \in {v} \X (0..Pieces)
    /\ Content(active)[i + 1] = Record(w)[1]

(* A record appended while no other append was under way can be read: only *)
(* an append cut short before it can spoil it, and that one only.          *)
AppendReadable ==
  [][\A w \in Writers :
       Appended(w)' /\ ~Appended(w) /\ over[w] = {} =>
         w \in Readable' \/ Glued(w)']_vars

(* Such a record can be read from then on, until a rotation replaces the   *)
(* backup it is in, or a rewrite of the served ledger finds the entry too  *)
(* old, or dated later than its reading of the clock.                      *)
KeptReadable ==
  [][\A w \in Writers :
       /\ Appended(w) /\ over[w] = {}
       /\ w \in Readable /\ w \notin Readable'
       => \/ w \in Parsed(backup) /\ backup' # backup
          \/ \E v \in Writers :
               /\ op[v].pc = "rewrite" /\ op'[v].pc # "rewrite"
               /\ op[w].at > op[v].now \/ op[v].now - op[w].at > MaxAge]_vars

(* "bounding disk use to roughly twice this figure" (transcript.rs): each  *)
(* of the two files is above the cap by one record, or by those of the     *)
(* appends that overlapped another.                                        *)
RotationBounds ==
  kind = "transcript" =>
    \A f \in {active, backup} \ {NoFile} :
      LET racing == {w \in Writers : over[w] # {} /\ op[w].file = f}
      IN  Len(content[f]) <
            Threshold + (Pieces + 1) * (IF racing = {} THEN 1 ELSE Cardinality(racing))
============================================================================
