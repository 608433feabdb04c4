----------------------- MODULE MCResponsesCompression -----------------------
(* Four texts: one that Headroom shrinks, one whose tokens it reduces while *)
(* the bytes grow, one it leaves as it is, and one below the floor.         *)
EXTENDS ResponsesCompression

CONSTANTS log, table, prose, note

MCBytes ==
  [t \in Texts |-> CASE t = log -> 4 [] t = table -> 3 [] t = prose -> 2 [] OTHER -> 1]

MCCompress ==
  [t \in Texts |->
     CASE t = log -> [before |-> 9, after |-> 4, saved |-> 5, text |-> prose]
       [] t = table -> [before |-> 6, after |-> 5, saved |-> 1, text |-> log]
       [] t = prose -> [before |-> 4, after |-> 6, saved |-> 0, text |-> prose]
       [] OTHER -> [before |-> 1, after |-> 0, saved |-> 0, text |-> None]]
=============================================================================
