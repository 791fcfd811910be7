------------------------- MODULE SigilDecoderProofs -------------------------
(***************************************************************************)
(* Proofs about SigilDecoder, for every set of lines and responses of any  *)
(* length: no line is lost, repeated or overtaken, only the open end of    *)
(* the response is held back, and so the decoder implements HoldBack.      *)
(***************************************************************************)
EXTENDS SigilDecoder, SequenceTheorems, TLAPS

USE DEF Kind

LEMMA AppendConcat ==
  ASSUME NEW S, NEW s \in Seq(S), NEW e \in S
  PROVE  Append(s, e) = s \o <<e>> /\ Append(s, e) \in Seq(S)
  OBVIOUS

(* The lines of an output.                                                 *)
LEMMA LinesOfType ==
  ASSUME NEW out \in Seq(Output)
  PROVE  LinesOf(out) \in Seq(Line) /\ Len(LinesOf(out)) = Len(out)
  <1>1. ASSUME NEW i \in 1..Len(out)
        PROVE  out[i].line \in Line
    <2>1. out[i] \in Output
      OBVIOUS
    <2> QED
      BY <2>1 DEF Output
  <1> QED
    BY <1>1 DEF LinesOf

(* The lines of two outputs, one after the other.                          *)
LEMMA LinesOfConcat ==
  ASSUME NEW s \in Seq(Output), NEW t \in Seq(Output)
  PROVE  LinesOf(s \o t) = LinesOf(s) \o LinesOf(t)
  <1> DEFINE both == LinesOf(s \o t)
             pair == LinesOf(s) \o LinesOf(t)
  <1>1. s \o t \in Seq(Output) /\ Len(s \o t) = Len(s) + Len(t)
    BY ConcatProperties
  <1>2. both \in Seq(Line) /\ Len(both) = Len(s) + Len(t)
    BY <1>1, LinesOfType
  <1>3. /\ LinesOf(s) \in Seq(Line) /\ Len(LinesOf(s)) = Len(s)
        /\ LinesOf(t) \in Seq(Line) /\ Len(LinesOf(t)) = Len(t)
    BY LinesOfType
  <1>4. pair \in Seq(Line) /\ Len(pair) = Len(s) + Len(t)
    BY <1>3
  <1>5. ASSUME NEW i \in 1..(Len(s) + Len(t))
        PROVE  both[i] = pair[i]
    <2>1. both[i] = (s \o t)[i].line
      BY <1>1 DEF LinesOf
    <2>2. pair[i] = IF i <= Len(s) THEN LinesOf(s)[i] ELSE LinesOf(t)[i - Len(s)]
      BY <1>3
    <2>3. (s \o t)[i] = IF i <= Len(s) THEN s[i] ELSE t[i - Len(s)]
      OBVIOUS
    <2>4. i <= Len(s) => LinesOf(s)[i] = s[i].line
      BY DEF LinesOf
    <2>5. ~(i <= Len(s)) => LinesOf(t)[i - Len(s)] = t[i - Len(s)].line
      BY DEF LinesOf
    <2> HIDE DEF both, pair
    <2> QED
      BY <2>1, <2>2, <2>3, <2>4, <2>5
  <1> HIDE DEF both, pair
  <1>6. both = pair
    BY <1>2, <1>4, <1>5, SeqEqual
  <1> QED
    BY <1>6 DEF both, pair

LEMMA RenderedType ==
  ASSUME NEW line \in Line, NEW d \in Nat
  PROVE  /\ Rendered(line, d) \in Output /\ Rendered(line, d).line = line
         /\ Raw(line) \in Output /\ Raw(line).line = line
         /\ Row(line) \in Output /\ Row(line).line = line
  BY LineAssumption DEF Rendered, Raw, Row, Output

LEMMA SingleLine ==
  ASSUME NEW out \in Output
  PROVE  <<out>> \in Seq(Output) /\ LinesOf(<<out>>) = <<out.line>>
  BY DEF LinesOf, Output

LEMMA AllRawLines ==
  ASSUME NEW s \in Seq(Line)
  PROVE  AllRaw(s) \in Seq(Output) /\ LinesOf(AllRaw(s)) = s
  <1>1. AllRaw(s) \in Seq(Output) /\ Len(AllRaw(s)) = Len(s)
    BY RenderedType DEF AllRaw
  <1>2. \A i \in 1..Len(s) : LinesOf(AllRaw(s))[i] = s[i]
    BY <1>1, RenderedType DEF AllRaw, LinesOf
  <1>3. Len(LinesOf(AllRaw(s))) = Len(s)
    BY <1>1 DEF LinesOf
  <1> QED
    BY <1>1, <1>2, <1>3, LinesOfType, SeqEqual

----------------------------------------------------------------------------
(* What is held, and what comes of it                                      *)

LEMMA HeldType ==
  ASSUME TypeOK
  PROVE  /\ table \in Seq(Line) /\ terminal \in Seq(Line) /\ blanks \in Seq(Line)
         /\ Emitted \in Seq(Line)
         /\ lines \in Seq(Line) /\ output \in Seq(Output)
  BY LinesOfType DEF TypeOK, Emitted

(* A held terminal is released with its blank lines, in their order.       *)
LEMMA ReleasedLines ==
  ASSUME TypeOK
  PROVE  Released \in Seq(Output) /\ LinesOf(Released) = terminal \o blanks
  <1>1. /\ AllRaw(terminal) \in Seq(Output) /\ AllRaw(blanks) \in Seq(Output)
        /\ LinesOf(AllRaw(terminal)) = terminal /\ LinesOf(AllRaw(blanks)) = blanks
    BY HeldType, AllRawLines
  <1> QED
    BY <1>1, LinesOfConcat, ConcatProperties DEF Released

(* A flushed table comes out row by row, as a table or as it is.           *)
LEMMA TableOutLines ==
  ASSUME TypeOK
  PROVE  TableOut \in Seq(Output) /\ LinesOf(TableOut) = table
  <1> DEFINE rows == [i \in 1..Len(table) |-> Row(table[i])]
  <1>1. table \in Seq(Line)
    BY HeldType
  <1>2. rows \in Seq(Output) /\ Len(rows) = Len(table)
    BY <1>1, RenderedType
  <1>3. \A i \in 1..Len(table) : rows[i].line = table[i]
    BY <1>1, RenderedType
  <1>4. LinesOf(rows) \in Seq(Line) /\ Len(LinesOf(rows)) = Len(table)
    BY <1>2, LinesOfType
  <1>5. \A i \in 1..Len(table) : LinesOf(rows)[i] = table[i]
    BY <1>2, <1>3 DEF LinesOf
  <1>6. LinesOf(rows) = table
    BY <1>1, <1>4, <1>5, SeqEqual
  <1> QED
    BY <1>1, <1>2, <1>6, AllRawLines DEF TableOut

LEMMA TerminalOutLines ==
  ASSUME TypeOK
  PROVE  TerminalOut \in Seq(Output) /\ LinesOf(TerminalOut) = terminal \o blanks
  <1> DEFINE last == [i \in 1..Len(terminal) |-> Rendered(terminal[i], 0)]
  <1>1. terminal \in Seq(Line) /\ blanks \in Seq(Line)
    BY HeldType
  <1>2. last \in Seq(Output) /\ Len(last) = Len(terminal)
    BY <1>1, RenderedType
  <1>3. \A i \in 1..Len(terminal) : last[i].line = terminal[i]
    BY <1>1, RenderedType
  <1>4. LinesOf(last) \in Seq(Line) /\ Len(LinesOf(last)) = Len(terminal)
    BY <1>2, LinesOfType
  <1>5. \A i \in 1..Len(terminal) : LinesOf(last)[i] = terminal[i]
    BY <1>2, <1>3 DEF LinesOf
  <1>6. LinesOf(last) = terminal
    BY <1>1, <1>4, <1>5, SeqEqual
  <1>7. AllRaw(blanks) \in Seq(Output) /\ LinesOf(AllRaw(blanks)) = blanks
    BY <1>1, AllRawLines
  <1> HIDE DEF last
  <1>8. LinesOf(last \o AllRaw(blanks)) = terminal \o blanks
    BY <1>2, <1>6, <1>7, LinesOfConcat
  <1> QED
    BY <1>2, <1>7, <1>8, ConcatProperties DEF TerminalOut, last

LEMMA LinesAssociative ==
  \A x, y, z \in Seq(Line) : (x \o y) \o z = x \o (y \o z)
  BY ConcatAssociative

----------------------------------------------------------------------------
(* The steps                                                               *)

Inv == TypeOK /\ InOrder /\ HeldBack

(* What every kind of line has in common.                                  *)
Taken(line) ==
  /\ Inv
  /\ line \in Line
  /\ lines' = Append(lines, line)
  /\ phase' \in {"push", "finish"}

LEMMA TakenLines ==
  ASSUME NEW line, Taken(line)
  PROVE  lines' \in Seq(Line) /\ lines' = lines \o <<line>>
  BY HeldType, AppendConcat DEF Taken, Inv

LEMMA HoldBlankSafe ==
  ASSUME NEW line, Taken(line), HoldBlank(line)
  PROVE  Inv'
  <1>1. blanks' = blanks \o <<line>>
    BY HeldType, AppendConcat DEF Taken, Inv, HoldBlank
  <1>2. TypeOK'
    BY TakenLines DEF Taken, Inv, TypeOK, HoldBlank
  <1>3. InOrder'
    <2>1. Emitted' = Emitted
      BY DEF Emitted, LinesOf, HoldBlank
    <2>2. Emitted \o table \o terminal \in Seq(Line) /\ <<line>> \in Seq(Line)
      BY HeldType, ConcatProperties DEF Taken, Inv
    <2>3. (Emitted \o table \o terminal) \o (blanks \o <<line>>)
            = (Emitted \o table \o terminal \o blanks) \o <<line>>
      BY <2>2, HeldType, LinesAssociative DEF Taken, Inv
    <2> QED
      BY <1>1, <2>1, <2>3, TakenLines DEF Taken, Inv, InOrder, HoldBlank
  <1>4. HeldBack'
    BY DEF Taken, Inv, HeldBack, HoldBlank
  <1> QED
    BY <1>2, <1>3, <1>4 DEF Inv

(* With all that is held released, the output is the response so far.      *)
LEMMA FlushedLines ==
  ASSUME Inv
  PROVE  /\ output \o Released \in Seq(Output)
         /\ LinesOf(output \o Released) = Emitted \o (terminal \o blanks)
         /\ LinesOf(output \o Released) \o table = lines
         /\ table = <<>> => LinesOf(output \o Released) = lines
         /\ output \o Released \o TableOut \in Seq(Output)
         /\ LinesOf(output \o Released \o TableOut) = lines
  <1>1. output \o Released \in Seq(Output)
    BY HeldType, ReleasedLines, ConcatProperties DEF Inv
  <1>2. LinesOf(output \o Released) = Emitted \o (terminal \o blanks)
    BY HeldType, ReleasedLines, LinesOfConcat DEF Inv, Emitted
  <1>3. table = <<>> \/ (terminal = <<>> /\ blanks = <<>>)
    BY DEF Inv, HeldBack
  <1>4. LinesOf(output \o Released) \o table = lines
    <2>1. /\ Emitted \in Seq(Line) /\ table \in Seq(Line)
          /\ terminal \in Seq(Line) /\ blanks \in Seq(Line)
      BY HeldType DEF Inv
    <2>2. CASE table = <<>>
      <3>1. Emitted \o (terminal \o blanks) \in Seq(Line)
        BY <2>1, ConcatProperties
      <3>2. (Emitted \o (terminal \o blanks)) \o <<>>
              = Emitted \o (terminal \o blanks)
        BY <3>1, ConcatEmptySeq
      <3>3. Emitted \o <<>> = Emitted
        BY <2>1, ConcatEmptySeq
      <3>4. Emitted \o (terminal \o blanks) = (Emitted \o terminal) \o blanks
        BY <2>1, LinesAssociative
      <3> QED
        BY <1>2, <2>2, <3>2, <3>3, <3>4 DEF Inv, InOrder
    <2>3. CASE terminal = <<>> /\ blanks = <<>>
      <3>1. terminal \o blanks = <<>> /\ Emitted \o <<>> = Emitted
        BY <2>1, <2>3, ConcatEmptySeq
      <3>2. Emitted \o table \in Seq(Line)
        BY <2>1, ConcatProperties
      <3>3. (Emitted \o table) \o <<>> = Emitted \o table
        BY <3>2, ConcatEmptySeq
      <3> QED
        BY <1>2, <2>3, <3>1, <3>3 DEF Inv, InOrder
    <2> QED
      BY <1>3, <2>2, <2>3
  <1>5. LinesOf(output \o Released) \in Seq(Line)
    BY <1>1, LinesOfType
  <1>6. table = <<>> => LinesOf(output \o Released) = lines
    BY <1>4, <1>5, ConcatEmptySeq
  <1>7. output \o Released \o TableOut \in Seq(Output)
    BY <1>1, TableOutLines, ConcatProperties DEF Inv
  <1>8. LinesOf(output \o Released \o TableOut) = lines
    BY <1>1, <1>4, TableOutLines, LinesOfConcat DEF Inv
  <1> QED
    BY <1>1, <1>2, <1>4, <1>6, <1>7, <1>8

(* A line that is rendered at once, with nothing held.                     *)
LEMMA LineOut ==
  ASSUME NEW line, Taken(line), NEW out \in Seq(Output), LinesOf(out) = lines,
         NEW rendering \in Output, rendering.line = line,
         output' = out \o <<rendering>>,
         table' = <<>>, terminal' = <<>>, blanks' = <<>>
  PROVE  output' \in Seq(Output) /\ InOrder'
  <1>1. <<rendering>> \in Seq(Output) /\ LinesOf(<<rendering>>) = <<line>>
    BY SingleLine
  <1>2. output' \in Seq(Output)
    BY <1>1, ConcatProperties
  <1>3. Emitted' = lines \o <<line>>
    <2>1. Emitted' = LinesOf(output')
      BY DEF Emitted, LinesOf
    <2>2. LinesOf(out \o <<rendering>>) = LinesOf(out) \o LinesOf(<<rendering>>)
      BY <1>1, LinesOfConcat
    <2> QED
      BY <1>1, <2>1, <2>2
  <1>4. Emitted' = lines' /\ lines' \in Seq(Line)
    BY <1>3, TakenLines
  <1>5. lines' \o <<>> = lines'
    BY <1>4, ConcatEmptySeq
  <1> QED
    BY <1>2, <1>4, <1>5 DEF InOrder

LEMMA InFenceSafe ==
  ASSUME NEW line, Taken(line), InFence(line)
  PROVE  Inv'
  <1>1. table = <<>> /\ terminal = <<>>
    BY DEF Taken, Inv, HeldBack, InFence
  <1>2. table' = <<>> /\ terminal' = <<>> /\ blanks' = <<>>
    BY <1>1 DEF InFence, Release
  <1>3. Raw(line) \in Output /\ Raw(line).line = line
    BY RenderedType DEF Taken
  <1>4. output' \in Seq(Output) /\ InOrder'
    BY <1>1, <1>2, <1>3, FlushedLines, LineOut DEF Taken, InFence
  <1>5. TypeOK'
    BY <1>2, <1>4, TakenLines DEF Taken, Inv, TypeOK, InFence
  <1>6. HeldBack'
    BY <1>2 DEF HeldBack
  <1> QED
    BY <1>4, <1>5, <1>6 DEF Inv

LEMMA OpenFenceSafe ==
  ASSUME NEW line, Taken(line), OpenFence(line)
  PROVE  Inv'
  <1>1. table' = <<>> /\ terminal' = <<>> /\ blanks' = <<>>
    BY DEF OpenFence, Release
  <1>2. Raw(line) \in Output /\ Raw(line).line = line
    BY RenderedType DEF Taken
  <1>3. output' \in Seq(Output) /\ InOrder'
    BY <1>1, <1>2, FlushedLines, LineOut DEF Taken, OpenFence
  <1>4. TypeOK'
    BY <1>1, <1>3, TakenLines DEF Taken, Inv, TypeOK, OpenFence
  <1>5. HeldBack'
    BY <1>1 DEF HeldBack
  <1> QED
    BY <1>3, <1>4, <1>5 DEF Inv

LEMMA RenderSafe ==
  ASSUME NEW line, Taken(line), Render(line)
  PROVE  Inv'
  <1>1. table' = <<>> /\ terminal' = <<>> /\ blanks' = <<>>
    BY DEF Render, Release
  <1>2. depth' \in Nat
    BY LineAssumption DEF Taken, Render
  <1>3. Rendered(line, depth') \in Output /\ Rendered(line, depth').line = line
    BY <1>2, RenderedType DEF Taken
  <1>4. output' \in Seq(Output) /\ InOrder'
    BY <1>1, <1>3, FlushedLines, LineOut DEF Taken, Render
  <1>5. TypeOK'
    BY <1>1, <1>2, <1>4, TakenLines DEF Taken, Inv, TypeOK, Render
  <1>6. HeldBack'
    BY <1>1 DEF HeldBack
  <1> QED
    BY <1>4, <1>5, <1>6 DEF Inv

LEMMA HoldRowSafe ==
  ASSUME NEW line, Taken(line), HoldRow(line)
  PROVE  Inv'
  <1> DEFINE out == output \o Released
  <1>1. terminal' = <<>> /\ blanks' = <<>> /\ table' = table \o <<line>>
    BY HeldType, AppendConcat DEF Taken, Inv, HoldRow, Release
  <1>2. out \in Seq(Output) /\ LinesOf(out) \o table = lines
    BY FlushedLines DEF Taken
  <1>3. InOrder'
    <2>1. Emitted' = LinesOf(out)
      BY DEF Emitted, LinesOf, HoldRow
    <2> HIDE DEF out
    <2>2. /\ LinesOf(out) \in Seq(Line) /\ table \in Seq(Line)
          /\ <<line>> \in Seq(Line)
      BY <1>2, LinesOfType, HeldType DEF Taken, Inv
    <2>3. LinesOf(out) \o (table \o <<line>>) = lines \o <<line>>
      BY <1>2, <2>2, LinesAssociative
    <2>4. lines' = lines \o <<line>> /\ lines' \in Seq(Line)
      BY TakenLines
    <2>5. Emitted' \o table' = lines'
      BY <1>1, <2>1, <2>3, <2>4
    <2>6. lines' \o <<>> = lines'
      BY <2>4, ConcatEmptySeq
    <2> QED
      BY <1>1, <2>5, <2>6 DEF InOrder
  <1>4. TypeOK'
    <2>1. output' \in Seq(Output)
      BY <1>2 DEF HoldRow
    <2> QED
      BY <1>1, <2>1, TakenLines DEF Taken, Inv, TypeOK, HoldRow
  <1>5. HeldBack'
    BY <1>1 DEF Taken, HeldBack, HoldRow
  <1> QED
    BY <1>3, <1>4, <1>5 DEF Inv

LEMMA HoldTerminalSafe ==
  ASSUME NEW line, Taken(line), HoldTerminal(line)
  PROVE  Inv'
  <1> DEFINE out == output \o Released \o TableOut
  <1>1. table' = <<>> /\ terminal' = <<line>> /\ blanks' = <<>> /\ ~inFence'
    BY DEF HoldTerminal, Release
  <1>2. out \in Seq(Output) /\ LinesOf(out) = lines
    BY FlushedLines DEF Taken
  <1>3. InOrder'
    <2>1. Emitted' = LinesOf(out)
      BY DEF Emitted, LinesOf, HoldTerminal
    <2>2. Emitted' = lines /\ lines \in Seq(Line)
      BY <1>2, <2>1, HeldType DEF Taken, Inv
    <2>3. lines \o <<>> = lines
      BY <2>2, ConcatEmptySeq
    <2>4. lines' = lines \o <<line>> /\ lines' \in Seq(Line)
      BY TakenLines
    <2>5. lines' \o <<>> = lines'
      BY <2>4, ConcatEmptySeq
    <2> QED
      BY <1>1, <2>2, <2>3, <2>4, <2>5 DEF InOrder
  <1>4. TypeOK'
    <2>1. output' \in Seq(Output)
      BY <1>2 DEF HoldTerminal
    <2>2. terminal' \in Seq({l \in Line : l.kind = "terminal"}) /\ Len(terminal') = 1
      BY <1>1 DEF Taken, HoldTerminal
    <2> QED
      BY <1>1, <2>1, <2>2, TakenLines DEF Taken, Inv, TypeOK, HoldTerminal
  <1>5. HeldBack'
    BY <1>1 DEF Taken, HeldBack
  <1> QED
    BY <1>3, <1>4, <1>5 DEF Inv

LEMMA FinishSafe ==
  ASSUME Inv, Finish
  PROVE  Inv'
  <1> DEFINE out == output \o TableOut \o TerminalOut
  <1>1. table' = <<>> /\ terminal' = <<>> /\ blanks' = <<>>
    BY DEF Finish
  <1>2. output \o TableOut \in Seq(Output)
         /\ LinesOf(output \o TableOut) = Emitted \o table
    BY HeldType, TableOutLines, LinesOfConcat, ConcatProperties DEF Inv, Emitted
  <1>3. out \in Seq(Output)
    BY <1>2, TerminalOutLines, ConcatProperties DEF Inv
  <1>4. LinesOf(out) = (Emitted \o table) \o (terminal \o blanks)
    BY <1>2, TerminalOutLines, LinesOfConcat DEF Inv
  <1>5. InOrder'
    <2>1. Emitted' = LinesOf(out)
      BY DEF Emitted, LinesOf, Finish
    <2>2. (Emitted \o table) \o (terminal \o blanks)
            = Emitted \o table \o terminal \o blanks
      <3>1. Emitted \o table \in Seq(Line)
        BY HeldType, ConcatProperties DEF Inv
      <3> QED
        BY <3>1, HeldType, LinesAssociative DEF Inv
    <2>3. Emitted' = lines /\ lines \in Seq(Line) /\ lines' = lines
      BY <1>4, <2>1, <2>2, HeldType DEF Inv, InOrder, Finish
    <2>4. lines \o <<>> = lines
      BY <2>3, ConcatEmptySeq
    <2> QED
      BY <1>1, <2>3, <2>4 DEF InOrder
  <1>6. TypeOK'
    <2>1. output' \in Seq(Output)
      BY <1>3 DEF Finish
    <2> QED
      BY <1>1, <2>1 DEF Inv, TypeOK, Finish
  <1>7. HeldBack'
    BY <1>1 DEF HeldBack
  <1> QED
    BY <1>5, <1>6, <1>7 DEF Inv

----------------------------------------------------------------------------
(* The theorems                                                            *)

LEMMA InvInit == Init => Inv
  <1> SUFFICES ASSUME Init
               PROVE  Inv
    OBVIOUS
  <1>1. TypeOK
    <2>1. \A S : <<>> \in Seq(S)
      OBVIOUS
    <2>2. /\ table \in Seq({line \in Line : line.kind = "row"})
          /\ terminal \in Seq({line \in Line : line.kind = "terminal"})
          /\ blanks \in Seq({line \in Line : line.kind = "blank"})
          /\ output \in Seq(Output) /\ lines \in Seq(Line)
      BY <2>1, Zenon DEF Init
    <2>3. Len(terminal) <= 1
      BY DEF Init
    <2> QED
      BY <2>2, <2>3 DEF Init, TypeOK
  <1>2. Emitted = <<>>
    BY DEF Init, Emitted, LinesOf
  <1> QED
    BY <1>1, <1>2 DEF Init, Inv, InOrder, HeldBack

LEMMA InvStep == Inv /\ [Next]_vars => Inv'
  <1> SUFFICES ASSUME Inv, [Next]_vars
               PROVE  Inv'
    OBVIOUS
  <1>1. ASSUME NEW line \in Line, ProcessLine(line),
               lines' = Append(lines, line), phase' \in {"push", "finish"}
        PROVE  Inv'
    <2>1. Taken(line)
      BY <1>1 DEF Taken
    <2>2. CASE HoldBlank(line)
      BY <2>1, <2>2, HoldBlankSafe
    <2>3. CASE InFence(line)
      BY <2>1, <2>3, InFenceSafe
    <2>4. CASE HoldRow(line)
      BY <2>1, <2>4, HoldRowSafe
    <2>5. CASE OpenFence(line)
      BY <2>1, <2>5, OpenFenceSafe
    <2>6. CASE HoldTerminal(line)
      BY <2>1, <2>6, HoldTerminalSafe
    <2>7. CASE Render(line)
      BY <2>1, <2>7, RenderSafe
    <2> QED
      BY <1>1, <2>2, <2>3, <2>4, <2>5, <2>6, <2>7 DEF ProcessLine
  <1>2. ASSUME NEW line \in Line, Push(line)
        PROVE  Inv'
    BY <1>1, <1>2 DEF Push
  <1>3. ASSUME NEW line \in Line, FinishLine(line)
        PROVE  Inv'
    BY <1>1, <1>3 DEF FinishLine
  <1>4. CASE Finish
    BY <1>4, FinishSafe
  <1>5. CASE UNCHANGED vars
    BY <1>5 DEF vars, Inv, TypeOK, InOrder, HeldBack, Emitted, LinesOf
  <1> QED
    BY <1>2, <1>3, <1>4, <1>5 DEF Next

LEMMA Safe == Spec => []Inv
  BY InvInit, InvStep, PTL DEF Spec

(* The fields of the decoder hold the kinds of lines they are for, and a   *)
(* fence never opens inside a list.                                        *)
THEOREM DecoderTypeCorrect == Spec => []TypeOK
  <1>1. Inv => TypeOK
    BY DEF Inv
  <1> QED
    BY <1>1, Safe, PTL

(* However a response is cut into pushes, every line of it is in the       *)
(* output once and in order, or held back after it.                        *)
THEOREM LinesInOrder == Spec => []InOrder
  <1>1. Inv => InOrder
    BY DEF Inv
  <1> QED
    BY <1>1, Safe, PTL

(* Only an open table or an open terminal is held back, never both, and    *)
(* nothing once the response is finished.                                  *)
THEOREM OnlyOpenEndHeld == Spec => []HeldBack
  <1>1. Inv => HeldBack
    BY DEF Inv
  <1> QED
    BY <1>1, Safe, PTL

----------------------------------------------------------------------------
(* The decoder implements HoldBack                                         *)

LEMMA PrefixOfConcat ==
  ASSUME NEW s \in Seq(Line), NEW t \in Seq(Line)
  PROVE  Len(s) <= Len(s \o t) /\ s = SubSeq(s \o t, 1, Len(s))
  <1>1. s \o t \in Seq(Line) /\ Len(s \o t) = Len(s) + Len(t)
    BY ConcatProperties
  <1>2. SubSeq(s \o t, 1, Len(s)) \in Seq(Line) /\ Len(SubSeq(s \o t, 1, Len(s))) = Len(s)
    BY <1>1
  <1>3. \A i \in 1..Len(s) : s[i] = SubSeq(s \o t, 1, Len(s))[i]
    BY <1>1
  <1> QED
    BY <1>1, <1>2, <1>3, SeqEqual

(* What came out is a prefix of what went in.                              *)
EmittedPrefix ==
  /\ Len(Emitted) <= Len(lines)
  /\ Emitted = SubSeq(lines, 1, Len(Emitted))

LEMMA EmittedIsPrefix == Inv => EmittedPrefix
  <1> SUFFICES ASSUME Inv
               PROVE  EmittedPrefix
    OBVIOUS
  <1> DEFINE last == terminal \o blanks
  <1>1. /\ Emitted \in Seq(Line) /\ table \in Seq(Line)
        /\ terminal \in Seq(Line) /\ blanks \in Seq(Line)
    BY HeldType DEF Inv
  <1>2. Emitted \o table \in Seq(Line) /\ last \in Seq(Line) /\ table \o last \in Seq(Line)
    BY <1>1, ConcatProperties
  <1>3. lines = (Emitted \o table) \o last
    <2>1. \A x \in Seq(Line) : (x \o terminal) \o blanks = x \o last
      BY <1>1, LinesAssociative
    <2>2. Emitted \o table \o terminal \o blanks = (Emitted \o table) \o last
      BY <1>2, <2>1
    <2> QED
      BY <2>2 DEF Inv, InOrder
  <1> HIDE DEF last
  <1>4. (Emitted \o table) \o last = Emitted \o (table \o last)
    BY <1>1, <1>2, LinesAssociative
  <1> QED
    BY <1>1, <1>2, <1>3, <1>4, PrefixOfConcat DEF EmittedPrefix

LEMMA OutputOnlyGrows ==
  ASSUME Inv, NEW line \in Line, ProcessLine(line)
  PROVE  Len(output) <= Len(output')
  <1>1. /\ output \in Seq(Output) /\ Released \in Seq(Output) /\ TableOut \in Seq(Output)
    BY HeldType, ReleasedLines, TableOutLines DEF Inv
  <1>2. /\ output \o Released \in Seq(Output)
        /\ Len(output) <= Len(output \o Released)
    BY <1>1, ConcatProperties
  <1>3. /\ output \o Released \o TableOut \in Seq(Output)
        /\ Len(output) <= Len(output \o Released \o TableOut)
    BY <1>1, <1>2, ConcatProperties
  <1>4. \A out \in Seq(Output), r \in Output :
          Len(output) <= Len(out) => Len(output) <= Len(out \o <<r>>)
    BY <1>1
  <1>5. /\ Raw(line) \in Output
        /\ depth' \in Nat => Rendered(line, depth') \in Output
    BY RenderedType
  <1>6. CASE HoldBlank(line)
    BY <1>1, <1>6 DEF HoldBlank
  <1>7. CASE InFence(line)
    BY <1>2, <1>4, <1>5, <1>7 DEF InFence
  <1>8. CASE HoldRow(line)
    BY <1>2, <1>8 DEF HoldRow
  <1>9. CASE OpenFence(line)
    BY <1>3, <1>4, <1>5, <1>9 DEF OpenFence
  <1>10. CASE HoldTerminal(line)
    BY <1>3, <1>10 DEF HoldTerminal
  <1>11. CASE Render(line)
    <2>1. depth' \in Nat
      BY <1>11, LineAssumption DEF Render
    <2> QED
      BY <1>3, <1>4, <1>5, <1>11, <2>1 DEF Render
  <1> QED
    BY <1>6, <1>7, <1>8, <1>9, <1>10, <1>11 DEF ProcessLine

(* Of two prefixes of one sequence the shorter is a prefix of the longer.  *)
LEMMA PrefixOfPrefix ==
  ASSUME NEW s \in Seq(Line), NEW t \in Seq(Line), NEW u \in Seq(Line),
         Abstract!Prefix(s, u), Abstract!Prefix(t, u), Len(s) <= Len(t)
  PROVE  Abstract!Prefix(s, t)
  <1>1. /\ SubSeq(t, 1, Len(s)) \in Seq(Line)
        /\ Len(SubSeq(t, 1, Len(s))) = Len(s)
    OBVIOUS
  <1>2. ASSUME NEW i \in 1..Len(s)
        PROVE  s[i] = SubSeq(t, 1, Len(s))[i]
    <2>1. s[i] = u[i]
      <3>1. SubSeq(u, 1, Len(s))[i] = u[i]
        BY DEF Abstract!Prefix
      <3> QED
        BY <3>1 DEF Abstract!Prefix
    <2>2. t[i] = u[i]
      <3>1. SubSeq(u, 1, Len(t))[i] = u[i]
        BY DEF Abstract!Prefix
      <3> QED
        BY <3>1 DEF Abstract!Prefix
    <2>3. SubSeq(t, 1, Len(s))[i] = t[i]
      OBVIOUS
    <2> QED
      BY <2>1, <2>2, <2>3
  <1> QED
    BY <1>1, <1>2, SeqEqual DEF Abstract!Prefix

LEMMA LineIsPush ==
  ASSUME Inv, NEW line \in Line, phase = "push", ProcessLine(line),
         lines' = Append(lines, line), phase' \in {"push", "finish"},
         EmittedPrefix, Inv', EmittedPrefix'
  PROVE  Abstract!Push
  <1>1. /\ lines \in Seq(Line) /\ lines' \in Seq(Line) /\ <<line>> \in Seq(Line)
        /\ Emitted \in Seq(Line) /\ Emitted' \in Seq(Line)
    <2>1. output \in Seq(Output) /\ output' \in Seq(Output)
      BY DEF Inv, TypeOK
    <2>2. LinesOf(output') \in Seq(Line)
      BY <2>1, LinesOfType
    <2>3. Emitted' = LinesOf(output')
      BY DEF Emitted, LinesOf
    <2> QED
      BY <2>2, <2>3, HeldType DEF Inv, TypeOK
  <1>2. Abstract!Prefix(lines, lines')
    <2>1. lines' = lines \o <<line>>
      BY <1>1, AppendConcat
    <2> QED
      BY <1>1, <2>1, PrefixOfConcat DEF Abstract!Prefix
  <1>3. Abstract!Prefix(Emitted', lines')
    BY DEF EmittedPrefix, Abstract!Prefix
  <1>4. Abstract!Prefix(Emitted, lines')
    <2>1. Len(Emitted) <= Len(lines) /\ Emitted = SubSeq(lines, 1, Len(Emitted))
      BY DEF EmittedPrefix
    <2>2. Len(lines) <= Len(lines') /\ lines = SubSeq(lines', 1, Len(lines))
      BY <1>2 DEF Abstract!Prefix
    <2>3. SubSeq(lines', 1, Len(Emitted)) \in Seq(Line)
          /\ Len(SubSeq(lines', 1, Len(Emitted))) = Len(Emitted)
      BY <1>1, <2>1, <2>2
    <2>4. ASSUME NEW i \in 1..Len(Emitted)
          PROVE  Emitted[i] = SubSeq(lines', 1, Len(Emitted))[i]
      <3>1. Emitted[i] = lines[i]
        <4>1. SubSeq(lines, 1, Len(Emitted))[i] = lines[i]
          BY <1>1, <2>1
        <4> QED
          BY <2>1, <4>1
      <3>2. lines[i] = lines'[i]
        <4>1. SubSeq(lines', 1, Len(lines))[i] = lines'[i]
          BY <1>1, <2>1, <2>2
        <4> QED
          BY <2>2, <4>1
      <3>3. SubSeq(lines', 1, Len(Emitted))[i] = lines'[i]
        BY <1>1, <2>1, <2>2
      <3> QED
        BY <3>1, <3>2, <3>3
    <2>5. Emitted = SubSeq(lines', 1, Len(Emitted))
      BY <1>1, <2>3, <2>4, SeqEqual
    <2> QED
      BY <1>1, <2>1, <2>2, <2>5 DEF Abstract!Prefix
  <1>5. Len(Emitted) <= Len(Emitted')
    <2>1. output \in Seq(Output) /\ output' \in Seq(Output)
      BY DEF Inv, TypeOK
    <2>2. Len(Emitted) = Len(output) /\ Len(Emitted') = Len(output')
      BY <2>1, LinesOfType DEF Emitted, LinesOf
    <2> QED
      BY <2>2, OutputOnlyGrows
  <1>6. Abstract!Prefix(Emitted, Emitted')
    BY <1>1, <1>3, <1>4, <1>5, PrefixOfPrefix
  <1> QED
    BY <1>2, <1>3, <1>6 DEF Abstract!Push

(* Whatever is pushed, the decoder behaves as HoldBack promises: what it   *)
(* returned is a prefix of the response, and all of it at the end.         *)
THEOREM DecoderHoldsBack == Spec => ImplementsHoldBack
  <1>1. Init => Abstract!Init
    BY DEF Init, Abstract!Init, Emitted, LinesOf
  <1>2. EmittedPrefix /\ EmittedPrefix' /\ Inv /\ Inv' /\ [Next]_vars => [Abstract!Next]_(Abstract!vars)
    <2> SUFFICES ASSUME EmittedPrefix, EmittedPrefix', Inv, Inv', [Next]_vars
                 PROVE  [Abstract!Next]_(Abstract!vars)
      OBVIOUS
    <2>1. ASSUME NEW line \in Line, Push(line) \/ FinishLine(line)
          PROVE  Abstract!Next
      <3>1. Abstract!Push
        BY <2>1, LineIsPush DEF Push, FinishLine
      <3> QED
        BY <3>1 DEF Abstract!Next
    <2>2. CASE Finish
      <3>1. table' = <<>> /\ terminal' = <<>> /\ blanks' = <<>> /\ lines' = lines
        BY <2>2 DEF Finish
      <3>2. Emitted' \in Seq(Line)
        BY LinesOfType DEF Inv, TypeOK, Emitted, LinesOf
      <3>3. Emitted' \o <<>> = Emitted'
        BY <3>2, ConcatEmptySeq
      <3>4. Emitted' = lines
        BY <3>1, <3>3 DEF Inv, InOrder
      <3> QED
        BY <2>2, <3>1, <3>4 DEF Finish, Abstract!Finish, Abstract!Next
    <2>3. CASE UNCHANGED vars
      BY <2>3 DEF vars, Abstract!vars, Emitted, LinesOf
    <2> QED
      BY <2>1, <2>2, <2>3 DEF Next
  <1> QED
    BY <1>1, <1>2, Safe, EmittedIsPrefix, PTL DEF Spec, ImplementsHoldBack, Abstract!Spec
============================================================================
