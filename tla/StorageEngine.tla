--------------------------- MODULE StorageEngine ----------------------------
(***************************************************************************)
(* The contract of the trait StorageEngine (src/storage/traits.rs) that    *)
(* NkvCore builds on: a value for a given unique key, put and delete that  *)
(* happen entirely or not at all, and a process whose end costs nothing    *)
(* but the volatile keys.                                                  *)
(***************************************************************************)
EXTENDS Naturals, Sequences, Functions

CONSTANTS Keys, Values, Volatile

VARIABLE map  \* the stored values

Init == map = <<>>

Put(key, value) ==
  map' = [k \in DOMAIN map \cup {key} |-> IF k = key THEN value ELSE map[k]]

Delete(key) == map' = Restrict(map, DOMAIN map \ {key})

ProcessEnds == map' = Restrict(map, DOMAIN map \ Volatile)

Next ==
  \/ \E key \in Keys : Delete(key) \/ \E value \in Values : Put(key, value)
  \/ ProcessEnds

Spec == Init /\ [][Next]_map
=============================================================================
