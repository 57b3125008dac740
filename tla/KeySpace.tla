------------------------------ MODULE KeySpace ------------------------------
(***************************************************************************)
(* The key space of nkv: dotted keys and what a key, possibly with         *)
(* wildcards, selects in a trie.  A key is the non-empty sequence of the   *)
(* segments that `key.split('.')` yields.  These operators say what the    *)
(* methods of src/trie.rs compute in terms of the SET of keys that hold a  *)
(* value; TrieProofs proves that the node-by-node algorithms agree.         *)
(***************************************************************************)
EXTENDS Naturals, Sequences, Functions

CONSTANTS
  Wildcard,   \* the segment "*"
  Starred     \* every segment that contains the character '*', "*" included

ASSUME WildcardAssumption == Wildcard \in Starred

\* has_wildcard: the character '*' occurs anywhere in the key.
HasWildcard(key) == \E i \in 1..Len(key) : key[i] \in Starred

\* A segment of the key is exactly "*": the walks of get and get_mut stop there.
WalkStops(key) == \E i \in 1..Len(key) : key[i] = Wildcard

IsPrefixKey(p, key) == Len(p) <= Len(key) /\ \A i \in 1..Len(p) : p[i] = key[i]

\* Faulty variant: the walk stops one node short, so the parent is left out.
IsAncestorKeyNotParent(p, key) == IsPrefixKey(p, key) /\ Len(p) + 1 < Len(key)

IsAncestorKey(p, key) == IsPrefixKey(p, key) /\ Len(p) < Len(key)

(***************************************************************************)
(* get and get_mut follow the segments up to the first "*", and return the *)
(* whole subtree of the node reached there: the segments behind that "*"   *)
(* play no part.  Without "*" they return the one value at the key.        *)
(***************************************************************************)
Selects(key, d) ==
  IF WalkStops(key)
    THEN \A i \in 1..Len(key) :
           (\A j \in 1..i : key[j] # Wildcard) => i <= Len(d) /\ d[i] = key[i]
    ELSE d = key

Selected(S, key) == {d \in S : Selects(key, d)}

(***************************************************************************)
(* The nodes with a value that get_mut hands to its callback: every node   *)
(* it stands on before it looks at the next segment, so the ancestors of   *)
(* the key, and the node in front of a "*".                                *)
(***************************************************************************)
OnPath(S, key) == {d \in S : IsAncestorKey(d, key)}

(***************************************************************************)
(* remove matches segment by segment: a "*" inside the key stands for one  *)
(* segment, a final "*" for the node in front of it and all below it.      *)
(***************************************************************************)
Removes(key, d) ==
  LET n == Len(key)
      SameUpTo(m) == \A i \in 1..m : key[i] \in {Wildcard, d[i]}
  IN IF key[n] = Wildcard
       THEN Len(d) >= n - 1 /\ SameUpTo(n - 1)
       ELSE Len(d) = n /\ SameUpTo(n)

\* Faulty variant: removing a key removes the nodes below it as well.
KeptNotBelow(S, key) == {d \in S : ~Removes(key, d) /\ ~IsPrefixKey(key, d)}

Kept(S, key) == {d \in S : ~Removes(key, d)}

(***************************************************************************)
(* What insert and remove do to the contents f of a trie, a function from  *)
(* the keys that hold a value.                                             *)
(***************************************************************************)
Inserted(f, key, value) ==
  IF HasWildcard(key)
    THEN f
    ELSE [d \in DOMAIN f \cup {key} |-> IF d = key THEN value ELSE f[d]]

Removed(f, key) == Restrict(f, Kept(DOMAIN f, key))
=============================================================================
