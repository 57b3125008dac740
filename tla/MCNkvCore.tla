----------------------------- MODULE MCNkvCore ------------------------------
(***************************************************************************)
(* NkvCore for TLC: two clients, the keys a and a.b, and the patterns that *)
(* select everything, select a subtree, or have the wildcard inside.       *)
(***************************************************************************)
EXTENDS NkvCore, TLC

CONSTANTS a, b, star, astar, newline, u, v, x, empty

MCStarred == {star, astar}

MCUuids == {u, v}

MCOneUuid == {u}

MCValues == {x, empty}

MCOneValue == {empty}

MCDataKeys == {<<a>>, <<a, b>>}

MCKeys == MCDataKeys \cup {<<star>>, <<a, star>>, <<star, b>>}

\* Only the wildcard that the documentation describes, at the end of a key.
MCSubtreeKeys == MCDataKeys \cup {<<a, star>>}

\* Three levels, a wildcard inside a key, and a "*" inside a name.
MCDeepDataKeys == {<<a>>, <<a, b>>, <<a, b, b>>}

MCDeepKeys == MCDeepDataKeys \cup {<<a, star, b>>, <<astar>>}

\* A key with a line break: put refuses it, subscribe does not.
MCMalformed == {<<newline>>}

ClientSymmetry == Permutations(MCUuids)
=============================================================================
