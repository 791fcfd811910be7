--------------------------- MODULE MCSigilDecoder ---------------------------
(* SigilDecoder on every response of a few lines.                          *)
EXTENDS SigilHealth

Of(kind, n) == [kind |-> kind, n |-> n]

MCLine ==
  {Of("plain", 0), Of("blank", 0), Of("fence", 0), Of("marker", 0), Of("terminal", 0),
   Of("nested", 1), Of("nested", 2), Of("row", 0), Of("row", 1), Of("row", 2)}
============================================================================
