------------------------------ MODULE HoldBack ------------------------------
(***************************************************************************)
(* What a streaming decoder promises (the comments on sigil::Decoder and   *)
(* on TextBlock in src/src): what it has been given comes out in the order *)
(* it went in, all of it once the decoder is finished, and until then all  *)
(* but an end it holds back.  How much that is, and why, is the decoder's  *)
(* own affair.                                                             *)
(***************************************************************************)
EXTENDS Sequences, Naturals

VARIABLES
  given,        \* what went in
  shown,        \* what came out
  finished

vars == <<given, shown, finished>>

Prefix(s, t) == Len(s) <= Len(t) /\ s = SubSeq(t, 1, Len(s))

Init ==
  /\ given = <<>>
  /\ shown = <<>>
  /\ finished = FALSE

Push ==
  /\ ~finished
  /\ Prefix(given, given')
  /\ Prefix(shown, shown')
  /\ Prefix(shown', given')
  /\ UNCHANGED finished

Finish ==
  /\ ~finished
  /\ finished' = TRUE
  /\ shown' = given
  /\ UNCHANGED given

Next == Push \/ Finish

Spec == Init /\ [][Next]_vars
============================================================================
