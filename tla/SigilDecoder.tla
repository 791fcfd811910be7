---------------------------- MODULE SigilDecoder ----------------------------
(***************************************************************************)
(* The incremental sigil decoder of src/src/sigil.rs.  A response is taken *)
(* line by line, as push finds them complete; the text of a line that is   *)
(* not complete yet only waits.  A line is what the decoder's tests make   *)
(* of it: its kind, and a number - the columns of a table row (0 if the    *)
(* row closes with a bar, which no table may) or the dashes of a nested    *)
(* line.  The lines that open with one of the other markers, and prose     *)
(* with its escaped lines, are rendered by themselves.                     *)
(*                                                                         *)
(* Each line of the output says how it was rendered.                       *)
(***************************************************************************)
EXTENDS Integers, Sequences, FiniteSets

CONSTANTS
  Line,         \* the lines of responses
  MaxLines      \* bound: lines in a response

Kind == {"plain", "blank", "fence", "marker", "terminal", "nested", "row"}

ASSUME LineAssumption ==
  /\ Line \subseteq [kind : Kind, n : Nat]
  /\ \A line \in Line : line.kind = "nested" => line.n > 0
  /\ MaxLines \in Nat

VARIABLES
  table,        \* table_lines
  inFence,      \* in_fence
  depth,        \* nested_depth
  terminal,     \* pending_terminal, and
  blanks,       \* pending_blanks: the lines held after it
  output,       \* what push and finish returned
  lines,        \* history: the lines taken
  phase         \* push, or where finish is

vars == <<table, inFence, depth, terminal, blanks, output, lines, phase>>

Raw(line) == [line |-> line, as |-> "raw", depth |-> 0]
Row(line) == [line |-> line, as |-> "row", depth |-> 0]

(* decode_line: nested under the depth given, or by itself.  A blank line  *)
(* renders as it is.                                                       *)
Rendered(line, d) ==
  IF line.kind = "blank" THEN Raw(line)
  ELSE [line |-> line, as |-> "decoded", depth |-> d]

Output == [line : Line, as : {"raw", "row", "decoded"}, depth : Nat]

TypeOK ==
  /\ table \in Seq({line \in Line : line.kind = "row"})
  /\ inFence \in BOOLEAN
  /\ depth \in Nat
  /\ terminal \in Seq({line \in Line : line.kind = "terminal"})
  /\ Len(terminal) <= 1
  /\ blanks \in Seq({line \in Line : line.kind = "blank"})
  /\ output \in Seq(Output)
  /\ lines \in Seq(Line)
  /\ phase \in {"push", "finish", "finished"}
  /\ inFence => depth = 0

Init ==
  /\ table = <<>>
  /\ inFence = FALSE
  /\ depth = 0
  /\ terminal = <<>>
  /\ blanks = <<>>
  /\ output = <<>>
  /\ lines = <<>>
  /\ phase = "push"

----------------------------------------------------------------------------
(* What is held back and how it comes out *)

(* decode_table: two rows at least, and every row the columns of the first *)
IsTable(rows) ==
  /\ Len(rows) >= 2
  /\ \A i \in 1..Len(rows) : rows[i].n > 0 /\ rows[i].n = rows[1].n

AllRaw(s) == [i \in 1..Len(s) |-> Raw(s[i])]

(* flush_table *)
TableOut ==
  IF IsTable(table) THEN [i \in 1..Len(table) |-> Row(table[i])] ELSE AllRaw(table)

(* Mutation: a table leaves the depth of the list before it.               *)
DepthKept == depth

(* nested_depth once the table is flushed                                  *)
DepthThen == IF table = <<>> THEN depth ELSE 0

(* flush_pending_terminal_raw *)
Released == AllRaw(terminal) \o AllRaw(blanks)

(* flush_pending_terminal_decoded *)
TerminalOut ==
  [i \in 1..Len(terminal) |-> Rendered(terminal[i], 0)] \o AllRaw(blanks)

----------------------------------------------------------------------------
(* process_line *)

(* A blank line while a terminal is held waits with it.                    *)
HoldBlank(line) ==
  /\ terminal # <<>>
  /\ line.kind = "blank"
  /\ blanks' = Append(blanks, line)
  /\ UNCHANGED <<table, inFence, depth, terminal, output>>

(* Any other line releases the terminal.                                   *)
Release(line) ==
  /\ terminal # <<>> => line.kind # "blank"
  /\ blanks' = <<>>

InFence(line) ==
  /\ Release(line)
  /\ inFence
  /\ output' = output \o Released \o <<Raw(line)>>
  /\ terminal' = <<>>
  /\ inFence' = (line.kind # "fence")
  /\ UNCHANGED <<table, depth>>

HoldRow(line) ==
  /\ Release(line)
  /\ ~inFence
  /\ line.kind = "row"
  /\ output' = output \o Released
  /\ terminal' = <<>>
  /\ table' = Append(table, line)
  /\ UNCHANGED <<inFence, depth>>

(* Mutation: the depth of the list before the fence is kept.               *)
OpenFenceInList(line) ==
  /\ Release(line)
  /\ ~inFence
  /\ line.kind = "fence"
  /\ output' = output \o Released \o TableOut \o <<Raw(line)>>
  /\ terminal' = <<>>
  /\ table' = <<>>
  /\ inFence' = TRUE
  /\ UNCHANGED depth

OpenFence(line) ==
  /\ Release(line)
  /\ ~inFence
  /\ line.kind = "fence"
  /\ output' = output \o Released \o TableOut \o <<Raw(line)>>
  /\ terminal' = <<>>
  /\ table' = <<>>
  /\ inFence' = TRUE
  /\ depth' = 0

(* Mutation: the table before the terminal stays held.                     *)
HoldTerminalToo(line) ==
  /\ Release(line)
  /\ ~inFence
  /\ line.kind = "terminal"
  /\ output' = output \o Released
  /\ terminal' = <<line>>
  /\ depth' = 0
  /\ UNCHANGED <<table, inFence>>

HoldTerminal(line) ==
  /\ Release(line)
  /\ ~inFence
  /\ line.kind = "terminal"
  /\ output' = output \o Released \o TableOut
  /\ terminal' = <<line>>
  /\ table' = <<>>
  /\ depth' = 0
  /\ UNCHANGED inFence

(* decode_nested: at most one deeper than the line before.                 *)
Nests(line) == line.kind = "nested" /\ line.n <= DepthThen + 1

Render(line) ==
  /\ Release(line)
  /\ ~inFence
  /\ line.kind \in {"plain", "blank", "marker", "nested"}
  /\ depth' = IF Nests(line) THEN line.n ELSE 0
  /\ output' = output \o Released \o TableOut \o <<Rendered(line, depth')>>
  /\ terminal' = <<>>
  /\ table' = <<>>
  /\ UNCHANGED inFence

ProcessLine(line) ==
  \/ HoldBlank(line)
  \/ InFence(line)
  \/ HoldRow(line)
  \/ OpenFence(line)
  \/ HoldTerminal(line)
  \/ Render(line)

----------------------------------------------------------------------------
(* One turn of push's loop.                                                *)
Push(line) ==
  /\ phase = "push"
  /\ Len(lines) < MaxLines
  /\ ProcessLine(line)
  /\ lines' = Append(lines, line)
  /\ UNCHANGED phase

(* finish, on a last line that did not end.                                *)
FinishLine(line) ==
  /\ phase = "push"
  /\ Len(lines) < MaxLines
  /\ ProcessLine(line)
  /\ lines' = Append(lines, line)
  /\ phase' = "finish"

(* Mutation: finish forgets the table.                                     *)
FinishTerminal ==
  /\ phase # "finished"
  /\ phase' = "finished"
  /\ output' = output \o TerminalOut
  /\ terminal' = <<>>
  /\ blanks' = <<>>
  /\ UNCHANGED <<table, inFence, depth, lines>>

(* The rest of finish.                                                     *)
Finish ==
  /\ phase # "finished"
  /\ phase' = "finished"
  /\ output' = output \o TableOut \o TerminalOut
  /\ table' = <<>>
  /\ terminal' = <<>>
  /\ blanks' = <<>>
  /\ depth' = IF table = <<>> /\ terminal = <<>> THEN depth ELSE 0
  /\ UNCHANGED <<inFence, lines>>

Next ==
  \/ \E line \in Line : Push(line) \/ FinishLine(line)
  \/ Finish

Spec == Init /\ [][Next]_vars

----------------------------------------------------------------------------
(* Properties *)

LinesOf(out) == [i \in 1..Len(out) |-> out[i].line]

Emitted == LinesOf(output)

(* Every line of the response is in the output once, in order, or held     *)
(* back after it: no line is lost, repeated or overtaken by a later one.   *)
InOrder == Emitted \o table \o terminal \o blanks = lines

(* Only the end of the response that is still open is held back: a run of  *)
(* table rows outside a fence, or a terminal line with the blank lines     *)
(* after it, never both.                                                   *)
HeldBack ==
  /\ table # <<>> => terminal = <<>> /\ ~inFence
  /\ terminal # <<>> => ~inFence
  /\ terminal = <<>> => blanks = <<>>
  /\ phase = "finished" => table = <<>> /\ terminal = <<>>

(* The grammar, for a whole response L, without a state: how line i is to  *)
(* be rendered follows from the lines around it.                           *)

(* Every fence line opens a fence or closes one.                           *)
Fenced(L, i) == Cardinality({j \in 1..(i - 1) : L[j].kind = "fence"}) % 2 = 1

Unfenced(L, a, b) == \A i \in a..b : ~Fenced(L, i) /\ L[i].kind # "fence"

IsRun(L, a, b) ==
  /\ Unfenced(L, a, b)
  /\ \A i \in a..b : L[i].kind = "row"
  /\ a > 1 => Fenced(L, a - 1) \/ L[a - 1].kind # "row"
  /\ b < Len(L) => L[b + 1].kind # "row"

InTable(L, i) ==
  \E a \in 1..i, b \in i..Len(L) : IsRun(L, a, b) /\ IsTable(SubSeq(L, a, b))

LastNonblank(L, i) == \A j \in (i + 1)..Len(L) : L[j].kind = "blank"

(* A nested line descends, one level at a time, from one of level 1.       *)
Descends(L, i) ==
  \E a \in 1..i :
    /\ Unfenced(L, a, i)
    /\ \A j \in a..i : L[j].kind = "nested"
    /\ L[a].n = 1
    /\ \A j \in (a + 1)..i : L[j].n <= L[j - 1].n + 1

RenderingOf(L, i) ==
  LET line == L[i]
  IN  CASE line.kind = "fence" -> Raw(line)
        [] line.kind = "row" ->
             IF InTable(L, i) THEN Row(line) ELSE Raw(line)
        [] line.kind = "terminal" ->
             IF LastNonblank(L, i) THEN Rendered(line, 0) ELSE Raw(line)
        [] line.kind = "nested" ->
             Rendered(line, IF Descends(L, i) THEN line.n ELSE 0)
        [] line.kind \in {"plain", "blank", "marker"} -> Rendered(line, 0)

Grammar(L) ==
  [i \in 1..Len(L) |-> IF Fenced(L, i) THEN Raw(L[i]) ELSE RenderingOf(L, i)]

(* The streamed output is what the grammar gives for the response as a     *)
(* whole, although each line was rendered before the later ones came.      *)
AgreesWithGrammar == phase = "finished" => output = Grammar(lines)

----------------------------------------------------------------------------
(* The abstract decoder                                                    *)

Abstract == INSTANCE HoldBack WITH
  given <- lines,
  shown <- Emitted,
  finished <- phase = "finished"

(* The decoder is a HoldBack: streaming clients rely on no more.           *)
ImplementsHoldBack == Abstract!Spec
============================================================================
