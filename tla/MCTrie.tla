------------------------------- MODULE MCTrie -------------------------------
(***************************************************************************)
(* Trie on a key space of two names and depth three.                       *)
(***************************************************************************)
EXTENDS Trie

CONSTANTS a, b, star, bstar, x, y

MCStarred == {star, bstar}

MCDataKeys ==
  {<<a>>, <<b>>, <<a, a>>, <<a, b>>, <<b, b>>, <<a, a, b>>, <<a, b, b>>}

\* Every pattern of up to three segments over the names and "*".
MCPatterns ==
  {k \in UNION {[1..n -> {a, b, star}] : n \in 1..3} : \E i \in DOMAIN k : k[i] = star}
    \cup {<<bstar>>, <<a, bstar>>}

MCKeys == MCDataKeys \cup MCPatterns

MCSegments == {a, b, star, bstar}

MCValues == {x, y}
=============================================================================
