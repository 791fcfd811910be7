------------------------- MODULE MCSessionRegistry -------------------------
(* SessionRegistry on a small instance.                                    *)
EXTENDS SessionRegistry, SequencesExt

CONSTANTS sys, u1, u2, a1, sum, r1, r2, r3

MCMessage == {sys, u1, u2, a1, sum}
MCUser == {u1, u2}
MCAssistant == {a1}

(* Two conversations under one system prompt, the second turn of the first *)
(* and its compacted form, a conversation without a system prompt, and a   *)
(* payload without messages.                                               *)
MCHistory ==
  {<<sys, u1>>, <<sys, u2>>, <<sys, u1, a1, u2>>, <<sys, sum>>, <<u1>>, <<>>}

Symmetry == Permutations(Request)
============================================================================
