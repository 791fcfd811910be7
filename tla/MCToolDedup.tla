---------------------------- MODULE MCToolDedup ----------------------------
(* ToolDedup on small instances.                                           *)
EXTENDS ToolDedup, TLC

CONSTANTS u1, u2, f, t, p1, p2

MCMessage == {u1, u2}

(* A file, for which references depend on earlier sightings, and a table,  *)
(* for which they do not, both captured when the clock starts.             *)
MCKind == f :> "file" @@ t :> "other"
MCCaptured == f :> 0 @@ t :> 0

(* One conversation reads the file, the other the file and the table.      *)
MCPayload ==
  {[history |-> <<u1>>, results |-> <<f>>],
   [history |-> <<u2>>, results |-> <<f, t>>]}
============================================================================
