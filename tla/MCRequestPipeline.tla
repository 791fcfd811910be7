------------------------- MODULE MCRequestPipeline --------------------------
(* RequestPipeline with answers that read the same, one of them rendered   *)
(* by a space at its end, an agent that trims them, two edits that         *)
(* resemble each other, and two wordings of one request.                   *)
EXTENDS RequestPipeline

MCRequests == 1..3
MCProtocols == {"openai", "anthropic"}
MCUserText == <<"ask, please", "please ask", "ask, please">>
MCNormal == [u \in Range(MCUserText) |-> "ask"]

MCTexts == {"*a", "md", "md ", "b"}
MCRendering == [t \in MCTexts |-> IF t \in {"*a", "md"} THEN "md " ELSE t]
MCKeyOf == [t \in MCTexts |-> IF t \in {"md", "md "} THEN "md" ELSE t]

MCCalls ==
  "edit1" :> [tool |-> "edit", tokens |-> {"f", "g", "h", "1"}, edit |-> TRUE] @@
  "edit2" :> [tool |-> "edit", tokens |-> {"f", "g", "h", "2"}, edit |-> TRUE] @@
  "read" :> [tool |-> "read", tokens |-> {"f"}, edit |-> FALSE]

MCAnswers ==
  { [texts |-> <<"*a">>, calls |-> <<"edit1">>],
    [texts |-> <<"md ">>, calls |-> <<>>],
    [texts |-> <<"md">>, calls |-> <<"read", "edit2">>],
    [texts |-> <<"*a", "b">>, calls |-> <<"edit2">>] }

MCToolResults ==
  LET no == [value |-> "no", failed |-> TRUE]
      ok == [value |-> "ok", failed |-> FALSE]
  IN  "edit1" :> {no} @@ "edit2" :> {no, ok} @@ "read" :> {ok}

MCSize ==
  [v \in MCTexts \union DOMAIN MCCalls \union {"ok", "no", "ask"} |-> 1] @@
  [u \in Range(MCUserText) |-> 3]

(* "Round-trip exactness. The sigil original is restored byte-exactly on   *)
(* the request path via CCR substitution" (I1 of design.md).               *)
RoundTripExact ==
  \A r \in Forwarded : \A p \in AnswerTexts(op[r].history) \ op[r].unread :
    LET id == op[r].history[p[1]].blocks[p[2]].id
    IN  Echoed(r, p) = op[id[1]].shown[id[2]] => Sent(r, p) = Written(op[r].history, p)
============================================================================
