----------------------------- MODULE MCCcrCache -----------------------------
(* Two threads in one process and one in another; two bodies with one and   *)
(* the same original content, and one with another.                         *)
EXTENDS CcrCache, TLC

CONSTANTS p1, p2, t1, t2, t3, a1, a2, b1

MCHome == [t \in Threads |-> IF t = t3 THEN p2 ELSE p1]
MCContentOf == a1 :> "a" @@ a2 :> "a" @@ b1 :> "b"

Symmetric == Permutations({t1, t2}) \cup Permutations(Hashes)
=============================================================================
