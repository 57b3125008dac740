-------------------------------- MODULE Trie --------------------------------
(***************************************************************************)
(* src/trie.rs node by node.  A node is named by the path that leads to    *)
(* it, the sequence of the segments under which the maps of children hold  *)
(* it and its ancestors; a trie is the function from its nodes to their    *)
(* values, NoValue for None.  The children of a node are the nodes one     *)
(* segment longer.  Each operation is compared with what KeySpace says     *)
(* that it does to the set of keys that hold a value.                      *)
(***************************************************************************)
EXTENDS KeySpace

CONSTANTS
  Segments, \* the strings between the dots of a key
  Keys,     \* the keys the operations are called with, wildcards included
  Values,   \* the values that are inserted
  NoValue   \* Option::None

ASSUME TrieAssumption == Keys \subseteq Seq(Segments) \ {<<>>} /\ NoValue \notin Values

VARIABLE root  \* Trie.root

NewNode == [at \in {<<>>} |-> NoValue]

Children(f, at) == {c \in DOMAIN f : Len(c) = Len(at) + 1 /\ IsPrefixKey(at, c)}

IsEmptyNode(f, at) == Children(f, at) = {} /\ f[at] = NoValue

\* A node and its descendants.
Below(S, at) == {p \in S : IsPrefixKey(at, p)}

\* Every key that holds a value.
PathsOf(f) == {p \in DOMAIN f : f[p] # NoValue}

\* TrieIter: the keys of the trie with their values.
Contents(f) == Restrict(f, PathsOf(f))

\* The node at which a walk stands after i segments of key.
Node(key, i) == SubSeq(key, 1, i)

-----------------------------------------------------------------------------
(* insert *)

\* Faulty variant: the child is always a new node.
EntryNew(f, at) ==
  [p \in (DOMAIN f \ Below(DOMAIN f, at)) \cup {at} |-> IF p = at THEN NoValue ELSE f[p]]

\* entry(part).or_insert_with(TrieNode::new)
Entry(f, at) == [p \in DOMAIN f \cup {at} |-> IF p \in DOMAIN f THEN f[p] ELSE NoValue]

InsertAt(f, key, value) ==
  LET walk[i \in 0..Len(key)] == IF i = 0 THEN f ELSE Entry(walk[i - 1], Node(key, i))
  IN [walk[Len(key)] EXCEPT ![key] = value]

(***************************************************************************)
(* get and get_mut return the values found; each value stands here for     *)
(* the key it was found at.                                                *)
(***************************************************************************)
\* Faulty variant: collect_values leaves out the value of the node itself.
CollectValuesBelow(f, at) == Below(PathsOf(f), at) \ {at}

CollectValues(f, at) == Below(PathsOf(f), at)

\* The loop is left after i segments: no more of them, a "*", or no such child.
Leaves(f, key, i) ==
  \/ i = Len(key)
  \/ key[i + 1] = Wildcard
  \/ Node(key, i + 1) \notin DOMAIN f

Passed(f, key) ==
  CHOOSE i \in 0..Len(key) : Leaves(f, key, i) /\ \A j \in 0..i-1 : ~Leaves(f, key, j)

Get(key) ==
  LET i == Passed(root, key)
      at == Node(key, i)
  IN IF i < Len(key)
       THEN IF key[i + 1] = Wildcard THEN CollectValues(root, at) ELSE {}
       ELSE IF HasWildcard(key) THEN CollectValues(root, at) ELSE PathsOf(root) \cap {at}

\* Faulty variant: op is called after the last step too, on the node of the key.
CapturedWithTarget(key) ==
  [j \in 1..Passed(root, key) + 1 |-> Node(key, j - 1)]

(***************************************************************************)
(* The nodes get_mut calls op on, in order: one before it looks at each    *)
(* segment, the one at which it leaves the loop included.                  *)
(***************************************************************************)
Captured(key) ==
  LET i == Passed(root, key)
  IN [j \in 1..(IF i < Len(key) THEN i + 1 ELSE i) |-> Node(key, j - 1)]

-----------------------------------------------------------------------------
(***************************************************************************)
(* delete_recursive.  The result of the call on a node: the nodes that it  *)
(* drops, the nodes whose value it clears, and the flag that it returns.   *)
(* A child is dropped only when the call on it returned true and it is     *)
(* empty then.                                                             *)
(***************************************************************************)
After(f, result) ==
  [p \in DOMAIN f \ result.gone |-> IF p \in result.cleared THEN NoValue ELSE f[p]]

\* Faulty variants: empty children stay; a child that was hit always goes.
PrunedNever(f, results) == {}

PrunedWhenHit(f, results) == {c \in DOMAIN results : results[c].hit}

Pruned(f, results) ==
  {c \in DOMAIN results : results[c].hit /\ IsEmptyNode(After(f, results[c]), c)}

\* The children that a call looks at, and what it makes of their results.
Matched(f, key, at) ==
  LET part == key[Len(at) + 1]
  IN {c \in Children(f, at) : part \in {Wildcard, c[Len(c)]}}

Joined(f, results) ==
  [gone    |-> (UNION {results[c].gone : c \in DOMAIN results})
                 \cup (UNION {Below(DOMAIN f, c) : c \in Pruned(f, results)}),
   cleared |-> UNION {results[c].cleared : c \in DOMAIN results},
   hit     |-> \E c \in DOMAIN results : results[c].hit]

DeleteRecursive(f, key) ==
  LET delete[at \in {p \in DOMAIN f : Len(p) <= Len(key)}] ==
        IF Len(at) = Len(key)
          THEN [gone |-> {}, cleared |-> {at}, hit |-> f[at] # NoValue]
        ELSE IF Len(at) + 1 = Len(key) /\ key[Len(key)] = Wildcard
          THEN [gone |-> Below(DOMAIN f, at) \ {at}, cleared |-> {at},
                hit |-> ~IsEmptyNode(f, at)]
        ELSE Joined(f, [c \in Matched(f, key, at) |-> delete[c]])
  IN delete[<<>>]

-----------------------------------------------------------------------------
Init == root = NewNode

AfterInsert(key, value) == IF HasWildcard(key) THEN root ELSE InsertAt(root, key, value)

Insert(key, value) == root' = AfterInsert(key, value)

Remove(key) == root' = After(root, DeleteRecursive(root, key))

Next == \E key \in Keys : Remove(key) \/ \E value \in Values : Insert(key, value)

Spec == Init /\ [][Next]_root

-----------------------------------------------------------------------------
(***************************************************************************)
(* The nodes are a tree: the root is one, and with a node every node on    *)
(* the way to it, whatever remove dropped.  No node's name has a '*', so   *)
(* the subtree that get collects for a key with a '*' in a longer segment  *)
(* (trie.rs:153) is never there to be collected.                           *)
(***************************************************************************)
TypeOK ==
  /\ root \in [DOMAIN root -> Values \cup {NoValue}]
  /\ <<>> \in DOMAIN root
  /\ \A p \in DOMAIN root :
       /\ p \in Seq(Segments)
       /\ ~HasWildcard(p)
       /\ \A i \in 0..Len(p) : Node(p, i) \in DOMAIN root

(***************************************************************************)
(* delete_recursive clears empty branches: no sequence of inserts and      *)
(* removes leaves a node without a value at or below it (the trie would    *)
(* grow without bound under put and delete of fresh keys).                 *)
(***************************************************************************)
NoDeadBranches == \A p \in DOMAIN root \ {<<>>} : Below(PathsOf(root), p) # {}

(***************************************************************************)
(* insert changes the value at its key and nothing else, whatever nodes    *)
(* are there already, and does nothing for a key with a wildcard.          *)
(***************************************************************************)
InsertAgrees ==
  \A key \in Keys, value \in Values :
    Contents(AfterInsert(key, value)) = Inserted(Contents(root), key, value)

(***************************************************************************)
(* remove takes away exactly the values that KeySpace says, for wildcards  *)
(* at any place: clearing empty branches costs no value of another key.    *)
(* It returns true exactly when it took one away.                          *)
(***************************************************************************)
RemoveAgrees ==
  \A key \in Keys :
    LET result == DeleteRecursive(root, key)
        left == After(root, result)
    IN /\ Contents(left) = Removed(Contents(root), key)
       /\ result.hit = (PathsOf(left) # PathsOf(root))

(***************************************************************************)
(* get returns exactly the keys that KeySpace selects, for every key and   *)
(* with wildcards at any place.                                            *)
(***************************************************************************)
GetAgrees == \A key \in Keys : Get(key) = Selected(PathsOf(root), key)

(***************************************************************************)
(* Among the nodes that get_mut hands the callback, those with a value are *)
(* exactly the ancestors of the key that hold one, each once, outermost    *)
(* first: the order in which put and delete notify them.                   *)
(***************************************************************************)
CapturedAgrees ==
  \A key \in Keys :
    LET c == Captured(key)
    IN /\ {c[j] : j \in DOMAIN c} \cap PathsOf(root) = OnPath(PathsOf(root), key)
       /\ \A i, j \in DOMAIN c : i < j => Len(c[i]) < Len(c[j])
=============================================================================
