---------------------------- MODULE PythonValues ----------------------------
(***************************************************************************)
(* None and dictionaries as the Python code uses them: a dictionary is a   *)
(* function from the keys it has, and None is a missing or false value.    *)
(***************************************************************************)
EXTENDS Integers, Sequences

CONSTANT None

\* d.get(key), for a d that may be no dictionary.
Get(d, key) == IF d # None /\ key \in DOMAIN d THEN d[key] ELSE None

\* The first of some values that is there: a or b or ...
Or(values) ==
  LET there == {i \in DOMAIN values : values[i] # None}
  IN IF there = {} THEN None ELSE values[CHOOSE i \in there : \A j \in there : i <= j]

Put(d, key, value) == [k \in DOMAIN d \cup {key} |-> IF k = key THEN value ELSE d[k]]

SetDefault(d, key, value) == IF key \in DOMAIN d THEN d ELSE Put(d, key, value)

Minus(a, b) == IF a = None \/ b = None THEN None ELSE a - b

=============================================================================
