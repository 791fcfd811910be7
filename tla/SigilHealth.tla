---------------------------- MODULE SigilHealth ----------------------------
(***************************************************************************)
(* The passive scans of a response beside the decoder: uses_sigils and     *)
(* table_health of src/src/sigil.rs, terminal_receipt of                   *)
(* src/src/signals.rs, and the rules of src/src/lint.rs that look for a    *)
(* terminal and for prose.  Each walks the lines by itself and is meant to *)
(* mirror the decoder.                                                     *)
(*                                                                         *)
(* Spans within a line, which uses_sigils also looks for, and the words of *)
(* prose are left out.                                                     *)
(***************************************************************************)
EXTENDS SigilDecoder, SequencesExt

(* Mutation: a terminal counts wherever it stands.                         *)
MarkedAnywhere(L, i) == L[i].kind \in {"marker", "terminal"}

(* has_marker, and for a terminal final_nonblank                           *)
Marked(L, i) ==
  \/ L[i].kind = "marker"
  \/ L[i].kind = "terminal" /\ \A j \in (i + 1)..Len(L) : L[j].kind = "blank"

(* One line of uses_sigils, which returns as soon as it has found one.     *)
UsesSigilsLine(L, scan, i) ==
  LET line == L[i]
      flushed == [scan EXCEPT !.table = <<>>]
  IN  CASE scan.found -> scan
        [] ~scan.found /\ scan.inFence ->
             [scan EXCEPT !.inFence = line.kind # "fence"]
        [] ~scan.found /\ ~scan.inFence /\ line.kind = "row" ->
             [scan EXCEPT !.table = Append(@, line)]
        [] ~scan.found /\ ~scan.inFence /\ line.kind # "row" ->
             IF IsTable(scan.table) THEN [flushed EXCEPT !.found = TRUE]
             ELSE IF line.kind = "fence"
               THEN [flushed EXCEPT !.inFence = TRUE, !.depth = 0]
             ELSE [flushed EXCEPT
                     !.found = \/ Marked(L, i)
                               \/ line.kind = "nested" /\ line.n <= scan.depth + 1,
                     !.depth = 0]

UsesSigils(L) ==
  LET scan == FoldLeft(LAMBDA s, i : UsesSigilsLine(L, s, i),
                       [found |-> FALSE, inFence |-> FALSE, depth |-> 0, table |-> <<>>],
                       [i \in 1..Len(L) |-> i])
  IN  scan.found \/ IsTable(scan.table)

(* A run of rows that ends is counted.                                     *)
Counted(health) ==
  IF health.table = <<>> THEN health
  ELSE [health EXCEPT !.runs = @ + 1,
                      !.malformed = @ + IF IsTable(health.table) THEN 0 ELSE 1,
                      !.table = <<>>]

(* One line of table_health                                                *)
TableHealthLine(health, line) ==
  IF health.inFence THEN [health EXCEPT !.inFence = line.kind # "fence"]
  ELSE IF line.kind = "row" THEN [health EXCEPT !.table = Append(@, line)]
  ELSE [Counted(health) EXCEPT !.inFence = line.kind = "fence"]

TableHealth(L) ==
  Counted(FoldLeft(TableHealthLine,
                   [runs |-> 0, malformed |-> 0, inFence |-> FALSE, table |-> <<>>],
                   L))

(* terminal_receipt: the last line that is not blank.                      *)
Told(L) == SelectSeq(L, LAMBDA line : line.kind # "blank")

HasReceipt(L) == Told(L) # <<>> /\ Last(Told(L)).kind = "terminal"

(* lint_document's G1, "missing typed terminal"                            *)
MissingTerminal(L) == \A i \in DOMAIN L : L[i].kind # "terminal"

(* is_structured_sigil_line                                                *)
IsStructured(line) == line.kind \in {"row", "nested", "marker", "terminal"}

(* One line of parallel_prose_line, which has no state but the fence.      *)
ProseLine(L, scan, i) ==
  CASE L[i].kind = "fence" -> [scan EXCEPT !.inFence = ~@]
    [] L[i].kind # "fence" /\ (scan.inFence \/ IsStructured(L[i])) -> scan
    [] OTHER -> [scan EXCEPT !.prose = @ \union {i}]

Prose(L) ==
  FoldLeft(LAMBDA s, i : ProseLine(L, s, i), [inFence |-> FALSE, prose |-> {}],
           [i \in 1..Len(L) |-> i]).prose

----------------------------------------------------------------------------
(* Properties *)

IsSigil(out) ==
  \/ out.as = "row"
  \/ out.as = "decoded" /\ out.line.kind \in {"marker", "terminal"}
  \/ out.as = "decoded" /\ out.line.kind = "nested" /\ out.depth > 0

(* uses_sigils finds a sigil just when the decoder has rendered one: the   *)
(* scan keeps up with every fence, table, held terminal and depth.         *)
UsesSigilsMirrors ==
  phase = "finished" =>
    (UsesSigils(lines) <=> \E i \in 1..Len(output) : IsSigil(output[i]))

Runs(L) == {run \in (1..Len(L)) \X (1..Len(L)) :
              run[1] <= run[2] /\ IsRun(L, run[1], run[2])}

(* table_health counts the runs of rows of the response, and as malformed  *)
(* those whose rows the decoder let through as they were.                  *)
TableHealthMirrors ==
  phase = "finished" =>
    LET health == TableHealth(lines)
    IN  /\ health.runs = Cardinality(Runs(lines))
        /\ health.malformed =
             Cardinality({run \in Runs(lines) :
                            \A i \in run[1]..run[2] : output[i].as = "raw"})

(* An answer has a receipt of its terminal just when the client was shown  *)
(* one, or it ends in a terminal inside a fence that was left open, which  *)
(* the receipt does not look for; the lint never misses one it was shown.  *)
TerminalsMirror ==
  phase = "finished" =>
    LET shown == \E i \in DOMAIN output :
                   output[i].as = "decoded" /\ output[i].line.kind = "terminal"
    IN  /\ shown <=> HasReceipt(lines) /\ ~inFence
        /\ shown => ~MissingTerminal(lines)

(* The lint takes for prose the lines that the decoder renders as such.    *)
ProseMirrors ==
  phase = "finished" =>
    \A i \in DOMAIN lines : lines[i].kind = "plain" =>
      (i \in Prose(lines) <=> output[i] # Raw(lines[i]))

(* Each scan agrees with what the decoder made of the response.            *)
ScansMirror ==
  UsesSigilsMirrors /\ TableHealthMirrors /\ TerminalsMirror /\ ProseMirrors
============================================================================
