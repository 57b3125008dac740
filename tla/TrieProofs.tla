----------------------------- MODULE TrieProofs -----------------------------
(***************************************************************************)
(* That the node-by-node algorithms of Trie compute what KeySpace says of  *)
(* them, for every set of keys and values: a trie that inserts and removes *)
(* have made is a tree without dead branches, and in such a tree each walk *)
(* ends at the nodes that the key selects.                                 *)
(***************************************************************************)
EXTENDS Trie, SequenceTheorems, WellFoundedInduction, TLAPS

\* TypeOK and NoDeadBranches, of any trie.
Tree(f) ==
  /\ f \in [DOMAIN f -> Values \cup {NoValue}]
  /\ <<>> \in DOMAIN f
  /\ \A p \in DOMAIN f :
       /\ p \in Seq(Segments)
       /\ ~HasWildcard(p)
       /\ \A i \in 0..Len(p) : Node(p, i) \in DOMAIN f

AllLive(f) == \A p \in DOMAIN f \ {<<>>} : \E q \in PathsOf(f) : IsPrefixKey(p, q)

-----------------------------------------------------------------------------
(* Numbers and paths. *)

\* A set of natural numbers has a least element.
LEMMA LeastNumber ==
  ASSUME NEW S \in SUBSET Nat, S # {}
  PROVE  \E n \in S : \A m \in S : n <= m
<1> DEFINE R == {ss \in Nat \X Nat : ss[1] < ss[2]}
<1>1. R = OpToRel(<, Nat)
  BY DEF OpToRel
<1>2. IsWellFoundedOn(R, Nat)
  BY <1>1, NatLessThanWellFounded
<1>3. PICK n \in S : \A m \in S : <<m, n>> \notin R
  <2> HIDE DEF R
  <2> QED
    BY <1>2, WFMin
<1>4. \A m \in S : ~(m < n)
  BY <1>3
<1> QED
  BY <1>3, <1>4

\* A set that holds 0 and every successor of its elements holds every number.
LEMMA ByInduction ==
  ASSUME NEW S \in SUBSET Nat, 0 \in S, \A n \in S : n + 1 \in S
  PROVE  S = Nat
<1>1. ASSUME Nat \ S # {} PROVE FALSE
  <2>1. PICK n \in Nat \ S : \A m \in Nat \ S : n <= m
    BY <1>1, LeastNumber
  <2>2. n # 0 /\ n - 1 \in Nat
    BY <2>1
  <2>3. n - 1 \in S
    BY <2>1, <2>2
  <2> QED
    BY <2>1, <2>2, <2>3
<1> QED
  BY <1>1

LEMMA KeyFacts ==
  ASSUME NEW key \in Keys
  PROVE  key \in Seq(Segments) /\ Len(key) \in Nat \ {0}
BY TrieAssumption, EmptySeq

\* The first i segments of a path.
LEMMA NodeFacts ==
  ASSUME NEW p \in Seq(Segments), NEW i \in 0..Len(p)
  PROVE  /\ Node(p, i) \in Seq(Segments)
         /\ Len(Node(p, i)) = i
         /\ \A j \in 1..i : Node(p, i)[j] = p[j]
         /\ IsPrefixKey(Node(p, i), p)
<1>1. /\ Len(p) \in Nat /\ i \in Int /\ 1 \in Int
      /\ \A j \in 1..i : p[j] \in Segments
  BY LenProperties
<1>2. /\ SubSeq(p, 1, i) \in Seq(Segments)
      /\ Len(SubSeq(p, 1, i)) = IF 1 <= i THEN i - 1 + 1 ELSE 0
      /\ \A j \in 1 .. i - 1 + 1 : SubSeq(p, 1, i)[j] = p[1 + j - 1]
  BY <1>1, SubSeqProperties
<1>3. /\ Node(p, i) \in Seq(Segments)
      /\ Len(Node(p, i)) = i
      /\ \A j \in 1..i : Node(p, i)[j] = p[j]
  BY <1>1, <1>2 DEF Node
<1> QED
  BY <1>1, <1>3 DEF IsPrefixKey

LEMMA NodeZero ==
  ASSUME NEW p
  PROVE  Node(p, 0) = <<>>
BY SubSeqEmpty DEF Node

\* A prefix is named by its length.
LEMMA PrefixIsNode ==
  ASSUME NEW p \in Seq(Segments), NEW q \in Seq(Segments), IsPrefixKey(p, q)
  PROVE  Len(p) \in 0..Len(q) /\ p = Node(q, Len(p))
<1>1. Len(p) \in 0..Len(q)
  BY LenProperties DEF IsPrefixKey
<1>2. /\ Node(q, Len(p)) \in Seq(Segments)
      /\ Len(Node(q, Len(p))) = Len(p)
      /\ \A j \in 1..Len(p) : Node(q, Len(p))[j] = p[j]
  BY <1>1, NodeFacts DEF IsPrefixKey
<1> QED
  BY <1>1, <1>2, SeqEqual

LEMMA PrefixSelf ==
  ASSUME NEW p \in Seq(Segments)
  PROVE  IsPrefixKey(p, p) /\ Node(p, Len(p)) = p
<1>1. IsPrefixKey(p, p)
  BY LenProperties DEF IsPrefixKey
<1> QED
  BY <1>1, PrefixIsNode

LEMMA PrefixEmpty ==
  ASSUME NEW p \in Seq(Segments)
  PROVE  IsPrefixKey(<<>>, p)
BY EmptySeq, LenProperties DEF IsPrefixKey

LEMMA PrefixTransitive ==
  ASSUME NEW p \in Seq(Segments), NEW q \in Seq(Segments), NEW r \in Seq(Segments),
         IsPrefixKey(p, q), IsPrefixKey(q, r)
  PROVE  IsPrefixKey(p, r)
BY LenProperties DEF IsPrefixKey

\* Two prefixes of one path are prefixes of one another.
LEMMA PrefixesNest ==
  ASSUME NEW p \in Seq(Segments), NEW q \in Seq(Segments), NEW r \in Seq(Segments),
         IsPrefixKey(p, r), IsPrefixKey(q, r), Len(p) <= Len(q)
  PROVE  IsPrefixKey(p, q)
BY LenProperties DEF IsPrefixKey

LEMMA PrefixSameLength ==
  ASSUME NEW p \in Seq(Segments), NEW q \in Seq(Segments),
         IsPrefixKey(p, q), Len(q) <= Len(p)
  PROVE  p = q
BY LenProperties, SeqEqual DEF IsPrefixKey

LEMMA NodesNest ==
  ASSUME NEW p \in Seq(Segments), NEW i \in 0..Len(p), NEW j \in 0..i
  PROVE  Node(Node(p, i), j) = Node(p, j)
<1>1. Len(p) \in Nat /\ j \in 0..Len(p)
  BY LenProperties
<1>2. Node(p, i) \in Seq(Segments) /\ Len(Node(p, i)) = i
  BY NodeFacts
<1>3. /\ Node(p, j) \in Seq(Segments) /\ Len(Node(p, j)) = j
      /\ \A k \in 1..j : Node(p, j)[k] = p[k]
  BY <1>1, NodeFacts
<1>4. \A k \in 1..i : Node(p, i)[k] = p[k]
  BY NodeFacts
<1>5. IsPrefixKey(Node(p, j), Node(p, i))
  BY <1>1, <1>2, <1>3, <1>4 DEF IsPrefixKey
<1> QED
  BY <1>2, <1>3, <1>5, PrefixIsNode

-----------------------------------------------------------------------------
(* insert *)

\* The walk of insert is what its recursive definition says.
LEMMA WalkRuns ==
  ASSUME NEW f, NEW key, NEW value, Len(key) \in Nat
  PROVE  \E walk :
           /\ walk[0] = f
           /\ \A i \in 1..Len(key) : walk[i] = Entry(walk[i - 1], Node(key, i))
           /\ InsertAt(f, key, value) = [walk[Len(key)] EXCEPT ![key] = value]
<1> DEFINE Def(w, i) == IF i = 0 THEN f ELSE Entry(w[i - 1], Node(key, i))
           T == {n \in Nat : \E w : w = [i \in 0..n |-> Def(w, i)]}
<1>1. 0 \in T
  <2>1. [i \in 0..0 |-> f] = [i \in 0..0 |-> Def([k \in 0..0 |-> f], i)]
    OBVIOUS
  <2> QED
    BY <2>1
<1>2. ASSUME NEW n \in T PROVE n + 1 \in T
  <2>1. PICK w : w = [i \in 0..n |-> Def(w, i)]
    OBVIOUS
  <2> DEFINE g == [i \in 0..n+1 |-> IF i = n + 1 THEN Entry(w[n], Node(key, n + 1)) ELSE w[i]]
  <2>2. n \in Nat
    OBVIOUS
  <2>3. ASSUME NEW i \in 0..n+1 PROVE g[i] = Def(g, i)
    <3>1. CASE i = 0
      <4>1. g[0] = w[0] /\ w[0] = f
        BY <2>1, <2>2
      <4> QED
        BY <3>1, <4>1
    <3>2. CASE i = n + 1
      <4>1. g[n + 1] = Entry(w[n], Node(key, n + 1)) /\ g[n] = w[n]
            /\ (n + 1) - 1 = n /\ n + 1 # 0
        BY <2>2
      <4> HIDE DEF g
      <4> QED
        BY <3>2, <4>1
    <3>3. CASE i \in 1..n
      <4>1. g[i] = w[i] /\ g[i - 1] = w[i - 1] /\ i # 0
        BY <2>2, <3>3
      <4>2. w[i] = Def(w, i)
        BY <2>1, <2>2, <3>3
      <4> HIDE DEF g
      <4> QED
        BY <4>1, <4>2
    <3> QED
      BY <2>2, <3>1, <3>2, <3>3
  <2>4. g = [i \in 0..n+1 |-> Def(g, i)]
    <3> DEFINE h == [i \in 0..n+1 |-> Def(g, i)]
    <3>1. \A i \in 0..n+1 : h[i] = Def(g, i)
      OBVIOUS
    <3> HIDE DEF Def
    <3>2. \A i \in 0..n+1 : g[i] = h[i]
      BY <2>3, <3>1
    <3> QED
      BY <3>2
  <2>5. \E w1 : w1 = [i \in 0..n+1 |-> Def(w1, i)]
    <3> HIDE DEF g, Def
    <3> QED
      BY <2>4
  <2> HIDE DEF Def
  <2> QED
    BY <2>2, <2>5
<1>3. \E w : w = [i \in 0..Len(key) |-> Def(w, i)]
  <2> HIDE DEF T
  <2>1. T = Nat
    <3>1. T \in SUBSET Nat
      BY DEF T
    <3> QED
      BY <1>1, <1>2, <3>1, ByInduction
  <2>2. Len(key) \in T
    BY <2>1
  <2> QED
    BY <2>2 DEF T
<1> DEFINE walk == CHOOSE w : w = [i \in 0..Len(key) |-> Def(w, i)]
<1>4. walk = [i \in 0..Len(key) |-> Def(walk, i)]
  <2> HIDE DEF Def
  <2> QED
    BY <1>3
<1>5. InsertAt(f, key, value) = [walk[Len(key)] EXCEPT ![key] = value]
  BY DEF InsertAt
<1> HIDE DEF walk
<1>6. walk[0] = f /\ \A i \in 1..Len(key) : walk[i] = Entry(walk[i - 1], Node(key, i))
  BY <1>4
<1> QED
  BY <1>5, <1>6

\* The nodes on the way to a key, its own included.
WayTo(key) == {Node(key, i) : i \in 0..Len(key)}

Planted(f, key, value) ==
  [p \in DOMAIN f \cup WayTo(key) |->
     IF p = key THEN value ELSE IF p \in DOMAIN f THEN f[p] ELSE NoValue]

(***************************************************************************)
(* Inserting at a key adds the nodes on the way that were not there,       *)
(* without a value, and keeps all the others with theirs.                  *)
(***************************************************************************)
LEMMA InsertAdds ==
  ASSUME NEW f, Tree(f), NEW key \in Seq(Segments), NEW value
  PROVE  InsertAt(f, key, value) = Planted(f, key, value)
<1>1. Len(key) \in Nat
  BY LenProperties
<1>2. PICK walk :
        /\ walk[0] = f
        /\ \A i \in 1..Len(key) : walk[i] = Entry(walk[i - 1], Node(key, i))
        /\ InsertAt(f, key, value) = [walk[Len(key)] EXCEPT ![key] = value]
  BY <1>1, WalkRuns
<1> DEFINE Added(i) == DOMAIN f \cup {Node(key, j) : j \in 0..i}
           Grown(i) == [p \in Added(i) |-> IF p \in DOMAIN f THEN f[p] ELSE NoValue]
           T == {i \in Nat : i <= Len(key) => walk[i] = Grown(i)}
<1>3. 0 \in T
  <2>1. Added(0) = DOMAIN f
    <3>1. {Node(key, j) : j \in 0..0} = {Node(key, 0)}
      OBVIOUS
    <3> QED
      BY <3>1, NodeZero DEF Tree
  <2>2. Grown(0) = f
    BY <2>1 DEF Tree
  <2> QED
    BY <1>2, <2>2
<1>4. ASSUME NEW i \in T PROVE i + 1 \in T
  <2> SUFFICES ASSUME i + 1 <= Len(key) PROVE walk[i + 1] = Grown(i + 1)
    OBVIOUS
  <2>1. i \in Nat /\ i + 1 \in 1..Len(key) /\ (i + 1) - 1 = i
    BY <1>1
  <2>2. walk[i] = Grown(i)
    BY <1>1, <2>1
  <2>3. walk[i + 1] = Entry(Grown(i), Node(key, i + 1))
    BY <1>2, <2>1, <2>2
  <2>4. Added(i + 1) = Added(i) \cup {Node(key, i + 1)}
    <3>1. 0..(i + 1) = 0..i \cup {i + 1}
      BY <2>1
    <3> QED
      BY <3>1
  <2>5. DOMAIN Grown(i) = Added(i) /\ DOMAIN f \subseteq Added(i)
    OBVIOUS
  <2>6. \A p \in Added(i) : Grown(i)[p] = IF p \in DOMAIN f THEN f[p] ELSE NoValue
    OBVIOUS
  <2> HIDE DEF Added
  <2>7. Entry(Grown(i), Node(key, i + 1))
          = [p \in Added(i + 1) |-> IF p \in Added(i) THEN Grown(i)[p] ELSE NoValue]
    BY <2>4, <2>5 DEF Entry
  <2> QED
    BY <2>3, <2>5, <2>6, <2>7
<1>5. walk[Len(key)] = Grown(Len(key))
  <2> HIDE DEF T
  <2>1. T = Nat
    <3>1. T \in SUBSET Nat
      BY DEF T
    <3> QED
      BY <1>3, <1>4, <3>1, ByInduction
  <2>2. Len(key) \in T
    BY <1>1, <2>1
  <2> HIDE DEF Grown
  <2> QED
    BY <1>1, <2>2 DEF T
<1>6. key \in Added(Len(key))
  BY <1>1, PrefixSelf
<1> HIDE DEF Added
<1>7. InsertAt(f, key, value) =
        [p \in Added(Len(key)) |->
           IF p = key THEN value ELSE IF p \in DOMAIN f THEN f[p] ELSE NoValue]
  BY <1>2, <1>5, <1>6
<1> QED
  BY <1>7 DEF Added, WayTo, Planted

LEMMA InsertKeepsTree ==
  ASSUME NEW f, Tree(f), AllLive(f), NEW key \in Keys, ~HasWildcard(key),
         NEW value \in Values
  PROVE  Tree(InsertAt(f, key, value)) /\ AllLive(InsertAt(f, key, value))
<1> DEFINE g == InsertAt(f, key, value)
           D == DOMAIN f \cup WayTo(key)
<1>1. key \in Seq(Segments) /\ Len(key) \in Nat /\ value # NoValue
  BY KeyFacts, TrieAssumption
<1>2. /\ DOMAIN g = D
      /\ \A p \in D : g[p] = IF p = key THEN value ELSE IF p \in DOMAIN f THEN f[p] ELSE NoValue
      /\ g \in [D -> Values \cup {NoValue}]
  <2>1. g = [p \in D |-> IF p = key THEN value ELSE IF p \in DOMAIN f THEN f[p] ELSE NoValue]
    <3>1. g = Planted(f, key, value)
      BY <1>1, InsertAdds
    <3> QED
      BY <3>1 DEF Planted
  <2>2. \A p \in D : (IF p = key THEN value ELSE IF p \in DOMAIN f THEN f[p] ELSE NoValue)
                       \in Values \cup {NoValue}
    BY DEF Tree
  <2> HIDE DEF g, D
  <2> QED
    BY <2>1, <2>2
<1>3. key \in D /\ g[key] = value
  BY <1>1, <1>2, PrefixSelf DEF WayTo
<1>4. ASSUME NEW i \in 0..Len(key)
      PROVE  /\ Node(key, i) \in Seq(Segments)
             /\ ~HasWildcard(Node(key, i))
             /\ \A j \in 0..Len(Node(key, i)) : Node(Node(key, i), j) \in D
  <2>1. /\ Node(key, i) \in Seq(Segments) /\ Len(Node(key, i)) = i
        /\ \A j \in 1..i : Node(key, i)[j] = key[j]
    BY <1>1, NodeFacts
  <2>2. \A j \in 0..i : Node(Node(key, i), j) = Node(key, j) /\ j \in 0..Len(key)
    BY <1>1, NodesNest
  <2>3. ~HasWildcard(Node(key, i))
    BY <1>1, <2>1 DEF HasWildcard
  <2>4. \A j \in 0..Len(key) : Node(key, j) \in D
    BY DEF WayTo
  <2> HIDE DEF D
  <2> QED
    BY <2>1, <2>2, <2>3, <2>4
<1> HIDE DEF g
<1>5. Tree(g)
  <2>1. ASSUME NEW p \in D
        PROVE  /\ p \in Seq(Segments)
               /\ ~HasWildcard(p)
               /\ \A i \in 0..Len(p) : Node(p, i) \in D
    <3>1. CASE p \in DOMAIN f
      BY <3>1 DEF Tree
    <3>2. CASE p \notin DOMAIN f
      <4>1. PICK i \in 0..Len(key) : p = Node(key, i)
        BY <3>2 DEF WayTo
      <4> QED
        BY <1>4, <4>1
    <3> QED
      BY <3>1, <3>2
  <2>2. <<>> \in D
    BY DEF Tree
  <2> HIDE DEF D
  <2> QED
    BY <1>2, <2>1, <2>2 DEF Tree
<1>6. AllLive(g)
  <2> SUFFICES ASSUME NEW p \in D \ {<<>>}
               PROVE  \E q \in PathsOf(g) : IsPrefixKey(p, q)
    BY <1>2 DEF AllLive
  <2>1. key \in PathsOf(g)
    BY <1>1, <1>2, <1>3 DEF PathsOf
  <2>2. CASE p \in DOMAIN f
    <3>1. PICK q \in PathsOf(f) : IsPrefixKey(p, q)
      BY <2>2 DEF AllLive
    <3>2. q \in PathsOf(g)
      BY <1>1, <1>2, <3>1 DEF PathsOf
    <3> QED
      BY <3>1, <3>2
  <2>3. CASE p \notin DOMAIN f
    <3>1. IsPrefixKey(p, key)
      BY <1>1, <2>3, NodeFacts DEF WayTo
    <3> QED
      BY <2>1, <3>1
  <2> QED
    BY <2>2, <2>3
<1> QED
  BY <1>5, <1>6 DEF g

LEMMA InsertStep ==
  ASSUME NEW key \in Keys, NEW value \in Values, Tree(root)
  PROVE  Contents(AfterInsert(key, value)) = Inserted(Contents(root), key, value)
<1>1. CASE HasWildcard(key)
  BY <1>1 DEF AfterInsert, Inserted
<1>2. CASE ~HasWildcard(key)
  <2> DEFINE g == InsertAt(root, key, value)
             D == DOMAIN root \cup WayTo(key)
  <2>1. key \in Seq(Segments) /\ Len(key) \in Nat /\ value # NoValue
    BY KeyFacts, TrieAssumption
  <2>2. /\ DOMAIN g = D
        /\ \A p \in D :
             g[p] = IF p = key THEN value ELSE IF p \in DOMAIN root THEN root[p] ELSE NoValue
    <3>1. g = Planted(root, key, value)
      BY <2>1, InsertAdds
    <3> QED
      BY <3>1 DEF Planted
  <2>3. key \in D
    BY <2>1, PrefixSelf DEF WayTo
  <2>4. DOMAIN Contents(root) = PathsOf(root)
    BY DEF Contents, Restrict
  <2> HIDE DEF g, D
  <2>5. DOMAIN root \subseteq D
    BY DEF D
  <2>6. PathsOf(g) = PathsOf(root) \cup {key}
    BY <2>1, <2>2, <2>3, <2>5 DEF PathsOf
  <2>7. \A p \in PathsOf(g) : g[p] = IF p = key THEN value ELSE Contents(root)[p]
    BY <2>2, <2>3, <2>6, <2>5 DEF PathsOf, Contents, Restrict
  <2>8. AfterInsert(key, value) = g
    BY <1>2 DEF AfterInsert, g
  <2> QED
    BY <1>2, <2>4, <2>6, <2>7, <2>8 DEF Inserted, Contents, Restrict
<1> QED
  BY <1>1, <1>2

-----------------------------------------------------------------------------
(* get and get_mut *)

(***************************************************************************)
(* Where the loop is left: all nodes up to there are nodes of the trie,    *)
(* and no segment up to there is a "*".                                    *)
(***************************************************************************)
LEMMA PassedFacts ==
  ASSUME NEW f, Tree(f), NEW key \in Keys
  PROVE  /\ Passed(f, key) \in 0..Len(key)
         /\ Leaves(f, key, Passed(f, key))
         /\ \A j \in 0..Passed(f, key) : Node(key, j) \in DOMAIN f
         /\ \A j \in 1..Passed(f, key) : key[j] # Wildcard
<1>1. key \in Seq(Segments) /\ Len(key) \in Nat
  BY KeyFacts
<1>2. \E i \in 0..Len(key) : Leaves(f, key, i) /\ \A j \in 0..i-1 : ~Leaves(f, key, j)
  <2> DEFINE S == {i \in 0..Len(key) : Leaves(f, key, i)}
  <2>1. Len(key) \in S
    BY <1>1 DEF Leaves
  <2>2. S \in SUBSET Nat
    BY <1>1
  <2>3. PICK i \in S : \A j \in S : i <= j
    <3> HIDE DEF S
    <3> QED
      BY <2>1, <2>2, LeastNumber
  <2>4. \A j \in 0..i-1 : ~Leaves(f, key, j)
    BY <1>1, <2>2, <2>3
  <2> QED
    BY <2>3, <2>4
<1> DEFINE i == Passed(f, key)
<1>3. i \in 0..Len(key) /\ Leaves(f, key, i) /\ \A j \in 0..i-1 : ~Leaves(f, key, j)
  BY <1>2 DEF Passed
<1> HIDE DEF i
<1>4. ASSUME NEW j \in 1..i PROVE Node(key, j) \in DOMAIN f /\ key[j] # Wildcard
  <2>1. j - 1 \in 0..i-1 /\ (j - 1) + 1 = j
    BY <1>1, <1>3
  <2> QED
    BY <1>3, <2>1 DEF Leaves
<1>5. Node(key, 0) \in DOMAIN f
  BY NodeZero DEF Tree
<1>6. \A j \in 0..i : Node(key, j) \in DOMAIN f
  BY <1>1, <1>3, <1>4, <1>5
<1> QED
  BY <1>3, <1>4, <1>6 DEF i

LEMMA GetStep ==
  ASSUME NEW key \in Keys, Tree(root)
  PROVE  Get(key) = Selected(PathsOf(root), key)
<1> DEFINE i == Passed(root, key)
           at == Node(key, i)
           S == PathsOf(root)
<1>1. key \in Seq(Segments) /\ Len(key) \in Nat
  BY KeyFacts
<1>2. /\ i \in 0..Len(key)
      /\ Leaves(root, key, i)
      /\ \A j \in 0..i : Node(key, j) \in DOMAIN root
      /\ \A j \in 1..i : key[j] # Wildcard
  BY PassedFacts
<1>3. Get(key) = IF i < Len(key)
                   THEN IF key[i + 1] = Wildcard THEN CollectValues(root, at) ELSE {}
                   ELSE IF HasWildcard(key) THEN CollectValues(root, at) ELSE S \cap {at}
  BY DEF Get
<1>4. \A d \in S : /\ d \in Seq(Segments) /\ Len(d) \in Nat
                   /\ \A j \in 0..Len(d) : Node(d, j) \in DOMAIN root
  BY LenProperties DEF PathsOf, Tree
<1> HIDE DEF i
<1>5. /\ at \in Seq(Segments) /\ Len(at) = i
      /\ \A j \in 1..i : at[j] = key[j]
  BY <1>1, <1>2, NodeFacts
<1> HIDE DEF at, S
<1>6. CASE i = Len(key)
  <2>1. at = key
    BY <1>1, <1>6, PrefixSelf DEF at
  <2>2. ~WalkStops(key)
    BY <1>2, <1>6 DEF WalkStops
  <2>3. at \in DOMAIN root
    BY <1>1, <1>2 DEF at
  <2>4. ~HasWildcard(key)
    BY <2>1, <2>3 DEF Tree
  <2> QED
    BY <1>1, <1>3, <1>6, <2>1, <2>2, <2>4 DEF Selected, Selects, S
<1>7. CASE i < Len(key) /\ key[i + 1] = Wildcard
  <2>1. WalkStops(key)
    BY <1>1, <1>2, <1>7 DEF WalkStops
  <2>2. ASSUME NEW d \in S PROVE IsPrefixKey(at, d) <=> Selects(key, d)
    <3>1. ASSUME NEW j \in 1..Len(key)
          PROVE  (\A k \in 1..j : key[k] # Wildcard) <=> j \in 1..i
      BY <1>1, <1>2, <1>7
    <3>2. Selects(key, d) <=> \A j \in 1..i : j <= Len(d) /\ d[j] = key[j]
      <4>1. 1..i \subseteq 1..Len(key)
        BY <1>1, <1>2
      <4> QED
        BY <2>1, <3>1, <4>1 DEF Selects
    <3>3. IsPrefixKey(at, d) <=> i <= Len(d) /\ \A j \in 1..i : key[j] = d[j]
      BY <1>5 DEF IsPrefixKey
    <3>4. (\A j \in 1..i : j <= Len(d)) <=> i <= Len(d)
      BY <1>2, <1>4
    <3> QED
      BY <3>2, <3>3, <3>4
  <2> QED
    BY <1>3, <1>7, <2>2 DEF Selected, CollectValues, Below, S
<1>8. CASE i < Len(key) /\ key[i + 1] # Wildcard
  <2>1. Node(key, i + 1) \notin DOMAIN root /\ i + 1 \in 1..Len(key)
    BY <1>1, <1>2, <1>8 DEF Leaves
  <2>2. ASSUME NEW d \in S, Selects(key, d) PROVE FALSE
    <3>1. \A j \in 1..i+1 : key[j] # Wildcard
      BY <1>2, <1>8
    <3>2. i + 1 <= Len(d) /\ \A j \in 1..i+1 : d[j] = key[j]
      <4>1. CASE WalkStops(key)
        <5>1. \A j \in 1..i+1 : j \in 1..Len(key) /\ \A k \in 1..j : key[k] # Wildcard
          BY <1>1, <1>2, <1>8, <3>1
        <5>2. \A j \in 1..i+1 : j <= Len(d) /\ d[j] = key[j]
          BY <2>2, <4>1, <5>1 DEF Selects
        <5>3. i + 1 \in 1..i+1
          BY <1>2
        <5> QED
          BY <5>2, <5>3
      <4>2. CASE ~WalkStops(key)
        BY <1>1, <1>8, <2>1, <2>2, <4>2 DEF Selects
      <4> QED
        BY <4>1, <4>2
    <3>3. /\ Node(key, i + 1) \in Seq(Segments) /\ Len(Node(key, i + 1)) = i + 1
          /\ \A j \in 1..i+1 : Node(key, i + 1)[j] = key[j]
      BY <1>1, <1>2, <2>1, NodeFacts
    <3>4. IsPrefixKey(Node(key, i + 1), d)
      BY <3>2, <3>3 DEF IsPrefixKey
    <3>5. Node(key, i + 1) = Node(d, i + 1) /\ i + 1 \in 0..Len(d)
      BY <1>4, <3>3, <3>4, PrefixIsNode
    <3> QED
      BY <1>4, <2>1, <3>5
  <2> QED
    BY <1>3, <1>8, <2>2 DEF Selected, S
<1> QED
  BY <1>1, <1>2, <1>6, <1>7, <1>8

LEMMA CapturedStep ==
  ASSUME NEW key \in Keys, Tree(root)
  PROVE  /\ {Captured(key)[j] : j \in DOMAIN Captured(key)} \cap PathsOf(root)
              = OnPath(PathsOf(root), key)
         /\ \A i, j \in DOMAIN Captured(key) :
              i < j => Len(Captured(key)[i]) < Len(Captured(key)[j])
<1> DEFINE i == Passed(root, key)
           n == IF i < Len(key) THEN i + 1 ELSE i
           c == Captured(key)
<1>1. key \in Seq(Segments) /\ Len(key) \in Nat
  BY KeyFacts
<1>2. /\ i \in 0..Len(key)
      /\ Leaves(root, key, i)
  BY PassedFacts
<1>3. c = [j \in 1..n |-> Node(key, j - 1)]
  BY DEF Captured
<1> HIDE DEF c, i
<1>4. n \in 0..Len(key)
  BY <1>1, <1>2
<1>5. DOMAIN c = 1..n /\ \A j \in 1..n : c[j] = Node(key, j - 1)
  BY <1>3
<1>6. ASSUME NEW j \in 1..n
      PROVE  j - 1 \in 0..Len(key) /\ Len(c[j]) = j - 1 /\ IsPrefixKey(c[j], key) /\ j - 1 < Len(key)
  <2>1. j - 1 \in 0..Len(key) /\ j - 1 < Len(key)
    BY <1>1, <1>4
  <2> QED
    BY <1>1, <1>5, <2>1, NodeFacts
<1>7. ASSUME NEW d \in PathsOf(root), IsAncestorKey(d, key)
      PROVE  \E j \in 1..n : d = c[j]
  <2>1. /\ d \in DOMAIN root /\ d \in Seq(Segments) /\ Len(d) \in Nat /\ ~HasWildcard(d)
        /\ \A j \in 0..Len(d) : Node(d, j) \in DOMAIN root
    BY LenProperties DEF PathsOf, Tree
  <2>2. IsPrefixKey(d, key) /\ Len(d) < Len(key)
    BY <1>7 DEF IsAncestorKey
  <2>3. Len(d) \in 0..Len(key) /\ d = Node(key, Len(d))
    BY <1>1, <2>1, <2>2, PrefixIsNode
  <2>4. Len(d) <= i
    <3> SUFFICES ASSUME i < Len(d) PROVE FALSE
      BY <1>2, <2>1
    <3>1. i + 1 \in 1..Len(d) /\ i # Len(key) /\ i + 1 \in 0..Len(d)
      BY <1>2, <2>1, <2>2
    <3>2. key[i + 1] # Wildcard
      <4>1. d[i + 1] = key[i + 1]
        BY <2>2, <3>1 DEF IsPrefixKey
      <4>2. d[i + 1] \notin Starred
        BY <2>1, <3>1 DEF HasWildcard
      <4> QED
        BY <4>1, <4>2, WildcardAssumption
    <3>3. Node(key, i + 1) = Node(d, i + 1)
      BY <1>1, <2>3, <3>1, NodesNest
    <3>4. Node(key, i + 1) \in DOMAIN root
      BY <2>1, <3>1, <3>3
    <3> QED
      BY <1>2, <3>1, <3>2, <3>4 DEF Leaves
  <2>5. Len(d) + 1 \in 1..n /\ (Len(d) + 1) - 1 = Len(d)
    BY <1>1, <1>2, <2>1, <2>2, <2>4
  <2> QED
    BY <1>5, <2>3, <2>5
<1> HIDE DEF n
<1>8. {c[j] : j \in DOMAIN c} \cap PathsOf(root) = OnPath(PathsOf(root), key)
  <2>1. \A j \in DOMAIN c : IsAncestorKey(c[j], key)
    BY <1>5, <1>6 DEF IsAncestorKey
  <2> QED
    BY <1>5, <1>7, <2>1 DEF OnPath
<1>9. \A k, j \in DOMAIN c : k < j => Len(c[k]) < Len(c[j])
  BY <1>4, <1>5, <1>6
<1> QED
  BY <1>8, <1>9 DEF c

-----------------------------------------------------------------------------
(* remove *)

\* What a call of delete_recursive returns, from what it gets of its children.
Outcome(f, key, at, below) ==
  IF Len(at) = Len(key)
    THEN [gone |-> {}, cleared |-> {at}, hit |-> f[at] # NoValue]
  ELSE IF Len(at) + 1 = Len(key) /\ key[Len(key)] = Wildcard
    THEN [gone |-> Below(DOMAIN f, at) \ {at}, cleared |-> {at},
          hit |-> ~IsEmptyNode(f, at)]
  ELSE Joined(f, [c \in Matched(f, key, at) |-> below[c]])

\* The nodes on which it is called at most n levels above the last segment.
Deep(f, key, n) == {p \in DOMAIN f : Len(p) <= Len(key) /\ Len(key) <= Len(p) + n}

LEMMA MatchedFacts ==
  ASSUME NEW f, Tree(f), NEW key, NEW at \in DOMAIN f, NEW c \in Matched(f, key, at)
  PROVE  /\ c \in DOMAIN f /\ c \in Children(f, at)
         /\ Len(at) \in Nat /\ Len(c) = Len(at) + 1
         /\ IsPrefixKey(at, c)
         /\ key[Len(at) + 1] \in {Wildcard, c[Len(c)]}
<1>1. Len(at) \in Nat
  BY LenProperties DEF Tree
<1> QED
  BY <1>1 DEF Matched, Children

\* The recursion of delete_recursive is what its definition says.
LEMMA DeleteRuns ==
  ASSUME NEW f, Tree(f), NEW key \in Keys
  PROVE  \E delete :
           /\ \A at \in Deep(f, key, Len(key)) : delete[at] = Outcome(f, key, at, delete)
           /\ DeleteRecursive(f, key) = delete[<<>>]
<1> DEFINE D == {p \in DOMAIN f : Len(p) <= Len(key)}
           T == {n \in Nat : \E w : w = [at \in Deep(f, key, n) |-> Outcome(f, key, at, w)]}
<1>1. Len(key) \in Nat /\ \A p \in DOMAIN f : Len(p) \in Nat
  BY KeyFacts, LenProperties DEF Tree
<1>2. 0 \in T
  <2> DEFINE g == [at \in Deep(f, key, 0) |->
                     [gone |-> {}, cleared |-> {at}, hit |-> f[at] # NoValue]]
             h == [at \in Deep(f, key, 0) |-> Outcome(f, key, at, g)]
  <2>1. ASSUME NEW at \in Deep(f, key, 0) PROVE g[at] = h[at]
    <3>1. Len(at) = Len(key)
      BY <1>1 DEF Deep
    <3>2. Outcome(f, key, at, g) = [gone |-> {}, cleared |-> {at}, hit |-> f[at] # NoValue]
      <4> HIDE DEF g
      <4> QED
        BY <3>1 DEF Outcome
    <3> QED
      BY <3>2
  <2>2. g = h
    BY <2>1
  <2>3. \E w : w = [at \in Deep(f, key, 0) |-> Outcome(f, key, at, w)]
    <3> HIDE DEF g
    <3> QED
      BY <2>2
  <2> QED
    BY <2>3
<1>3. ASSUME NEW n \in T PROVE n + 1 \in T
  <2>1. PICK w : w = [at \in Deep(f, key, n) |-> Outcome(f, key, at, w)]
    OBVIOUS
  <2>2. n \in Nat
    OBVIOUS
  <2> DEFINE g == [at \in Deep(f, key, n + 1) |-> Outcome(f, key, at, w)]
             h == [at \in Deep(f, key, n + 1) |-> Outcome(f, key, at, g)]
  <2>3. ASSUME NEW c \in Deep(f, key, n) PROVE g[c] = w[c]
    <3>1. c \in Deep(f, key, n + 1)
      BY <1>1, <2>2 DEF Deep
    <3>2. w[c] = Outcome(f, key, c, w)
      BY <2>1
    <3> QED
      BY <3>1, <3>2
  <2>4. ASSUME NEW at \in Deep(f, key, n + 1)
        PROVE  Outcome(f, key, at, w) = Outcome(f, key, at, g)
    <3> HIDE DEF g
    <3>1. CASE Len(at) = Len(key)
      BY <3>1 DEF Outcome
    <3>2. CASE Len(at) # Len(key)
      <4>1. ASSUME NEW c \in Matched(f, key, at) PROVE g[c] = w[c]
        <5>1. at \in DOMAIN f /\ Len(at) < Len(key) /\ Len(key) <= Len(at) + (n + 1)
          BY <1>1, <3>2 DEF Deep
        <5>2. c \in DOMAIN f /\ Len(at) \in Nat /\ Len(c) = Len(at) + 1
          BY <5>1, MatchedFacts
        <5>3. c \in Deep(f, key, n)
          BY <1>1, <2>2, <5>1, <5>2 DEF Deep
        <5> QED
          BY <2>3, <5>3
      <4>2. [c \in Matched(f, key, at) |-> w[c]] = [c \in Matched(f, key, at) |-> g[c]]
        BY <4>1
      <4> QED
        BY <3>2, <4>2 DEF Outcome
    <3> QED
      BY <3>1, <3>2
  <2>5. g = h
    <3>1. \A at \in Deep(f, key, n + 1) : g[at] = Outcome(f, key, at, w)
      OBVIOUS
    <3>2. \A at \in Deep(f, key, n + 1) : g[at] = Outcome(f, key, at, g)
      BY <2>4, <3>1
    <3>3. \A at \in Deep(f, key, n + 1) : h[at] = Outcome(f, key, at, g)
      OBVIOUS
    <3> QED
      BY <3>2, <3>3
  <2>6. \E w1 : w1 = [at \in Deep(f, key, n + 1) |-> Outcome(f, key, at, w1)]
    <3> HIDE DEF g
    <3> QED
      BY <2>5
  <2> QED
    BY <2>2, <2>6
<1>4. Deep(f, key, Len(key)) = D
  BY <1>1 DEF Deep
<1>5. \E w : w = [at \in D |-> Outcome(f, key, at, w)]
  <2> HIDE DEF T
  <2>1. T = Nat
    <3>1. T \in SUBSET Nat
      BY DEF T
    <3> QED
      BY <1>2, <1>3, <3>1, ByInduction
  <2>2. Len(key) \in T
    BY <1>1, <2>1
  <2> HIDE DEF D
  <2> QED
    BY <1>4, <2>2 DEF T
<1> DEFINE delete == CHOOSE w : w = [at \in D |-> Outcome(f, key, at, w)]
<1>6. delete = [at \in D |-> Outcome(f, key, at, delete)]
  <2> HIDE DEF D
  <2> QED
    BY <1>5
<1>7. DeleteRecursive(f, key) = delete[<<>>]
  BY DEF DeleteRecursive, Outcome
<1> HIDE DEF delete, D
<1>8. \A at \in D : delete[at] = Outcome(f, key, at, delete)
  BY <1>6
<1> QED
  BY <1>4, <1>7, <1>8

-----------------------------------------------------------------------------
\* A key with a value is taken by the segments of key after the first n.
Hits(key, n, d) ==
  IF key[Len(key)] = Wildcard
    THEN Len(d) >= Len(key) - 1 /\ \A i \in n+1..Len(key)-1 : key[i] \in {Wildcard, d[i]}
    ELSE Len(d) = Len(key) /\ \A i \in n+1..Len(key) : key[i] \in {Wildcard, d[i]}

Taken(r) == r.gone \cup r.cleared

(***************************************************************************)
(* The result r of the call on the node at: it concerns nodes below at     *)
(* alone and drops them with all below them; among the keys with a value   *)
(* it takes those that the rest of key hits, and says whether it took any; *)
(* and what it leaves below at has a value, or one below it.               *)
(***************************************************************************)
Gives(f, key, at, r) ==
  /\ r.gone \subseteq Below(DOMAIN f, at) \ {at}
  /\ r.cleared \subseteq Below(DOMAIN f, at)
  /\ \A q \in r.gone : Below(DOMAIN f, q) \subseteq r.gone
  /\ \A d \in Below(PathsOf(f), at) : d \in Taken(r) <=> Hits(key, Len(at), d)
  /\ r.hit \in BOOLEAN
  /\ r.hit <=> \E d \in PathsOf(f) : d \in Taken(r)
  /\ \A p \in Below(DOMAIN f, at) \ r.gone :
       p # at => \E q \in PathsOf(f) : IsPrefixKey(p, q) /\ q \notin Taken(r)

LEMMA TreeFacts ==
  ASSUME NEW f, Tree(f), NEW p \in DOMAIN f
  PROVE  /\ p \in Seq(Segments) /\ Len(p) \in Nat
         /\ IsPrefixKey(p, p)
         /\ \A i \in 0..Len(p) : Node(p, i) \in DOMAIN f
BY LenProperties, PrefixSelf DEF Tree

LEMMA BelowFacts ==
  ASSUME NEW f, Tree(f), NEW p \in DOMAIN f, NEW q \in DOMAIN f, NEW d \in DOMAIN f,
         IsPrefixKey(p, q), IsPrefixKey(q, d)
  PROVE  IsPrefixKey(p, d)
BY TreeFacts, PrefixTransitive

\* The child through which the way to a node below at goes.
LEMMA ChildOnWay ==
  ASSUME NEW f, Tree(f), NEW at \in DOMAIN f, NEW d \in DOMAIN f,
         IsPrefixKey(at, d), at # d
  PROVE  \E c \in Children(f, at) :
           IsPrefixKey(c, d) /\ Len(at) + 1 <= Len(d) /\ c[Len(c)] = d[Len(at) + 1]
<1>1. /\ at \in Seq(Segments) /\ Len(at) \in Nat /\ d \in Seq(Segments) /\ Len(d) \in Nat
      /\ \A i \in 0..Len(d) : Node(d, i) \in DOMAIN f
  BY TreeFacts
<1>2. Len(at) < Len(d)
  BY <1>1, PrefixSameLength
<1> DEFINE n == Len(at) + 1
           c == Node(d, n)
<1>3. n \in 0..Len(d) /\ n \in 1..n
  BY <1>1, <1>2
<1>4. /\ c \in DOMAIN f /\ c \in Seq(Segments) /\ Len(c) = n
      /\ \A j \in 1..n : c[j] = d[j]
      /\ IsPrefixKey(c, d)
  BY <1>1, <1>3, NodeFacts
<1> HIDE DEF c
<1>5. IsPrefixKey(at, c)
  BY <1>1, <1>3, <1>4, PrefixesNest
<1> QED
  BY <1>2, <1>3, <1>4, <1>5 DEF Children

LEMMA ChildFacts ==
  ASSUME NEW f, Tree(f), NEW at \in DOMAIN f, NEW c \in Children(f, at)
  PROVE  c \in DOMAIN f /\ IsPrefixKey(at, c) /\ Len(c) = Len(at) + 1 /\ c # at /\ c # <<>>
<1>1. Len(at) \in Nat
  BY TreeFacts
<1>2. c \in DOMAIN f /\ IsPrefixKey(at, c) /\ Len(c) = Len(at) + 1
  BY DEF Children
<1> QED
  BY <1>1, <1>2, EmptySeq

\* The subtrees of two children have no node in common.
LEMMA ChildrenApart ==
  ASSUME NEW f, Tree(f), NEW at \in DOMAIN f, NEW b \in Children(f, at),
         NEW c \in Children(f, at), NEW d \in DOMAIN f, IsPrefixKey(b, d), IsPrefixKey(c, d)
  PROVE  b = c
<1>1. /\ b \in DOMAIN f /\ c \in DOMAIN f /\ Len(b) = Len(c)
  BY ChildFacts
<1>2. /\ b \in Seq(Segments) /\ c \in Seq(Segments) /\ d \in Seq(Segments) /\ Len(b) \in Nat
  BY <1>1, TreeFacts
<1>3. IsPrefixKey(b, c)
  BY <1>1, <1>2, PrefixesNest
<1> QED
  BY <1>1, <1>2, <1>3, PrefixSameLength

\* A child that is empty after its call loses nothing that was not taken.
LEMMA PrunedChild ==
  ASSUME NEW f, Tree(f), NEW key, NEW c \in DOMAIN f, NEW r, Gives(f, key, c, r),
         IsEmptyNode(After(f, r), c)
  PROVE  /\ \A d \in Below(DOMAIN f, c) : d \in r.gone \cup {c}
         /\ \A d \in Below(PathsOf(f), c) : d \in Taken(r)
<1>1. /\ r.gone \subseteq Below(DOMAIN f, c) \ {c}
      /\ \A q \in r.gone : Below(DOMAIN f, q) \subseteq r.gone
  BY DEF Gives
<1>2. DOMAIN After(f, r) = DOMAIN f \ r.gone
  BY DEF After
<1>3. ASSUME NEW d \in Below(DOMAIN f, c), d # c PROVE d \in r.gone
  <2>1. d \in DOMAIN f /\ IsPrefixKey(c, d)
    BY DEF Below
  <2>2. PICK b \in Children(f, c) : IsPrefixKey(b, d)
    BY <1>3, <2>1, ChildOnWay
  <2>3. b \notin Children(After(f, r), c)
    BY DEF IsEmptyNode
  <2>4. b \in r.gone
    BY <1>2, <2>2, <2>3 DEF Children
  <2> QED
    BY <1>1, <2>1, <2>2, <2>4 DEF Below
<1>4. ASSUME f[c] # NoValue PROVE c \in r.cleared
  <2>1. c \in DOMAIN f \ r.gone
    BY <1>1
  <2>2. After(f, r)[c] = IF c \in r.cleared THEN NoValue ELSE f[c]
    BY <2>1 DEF After
  <2>3. After(f, r)[c] = NoValue
    BY DEF IsEmptyNode
  <2> QED
    BY <1>4, <2>2, <2>3
<1> QED
  BY <1>3, <1>4 DEF Below, PathsOf, Taken

\* The call on the node of the key clears its value.
LEMMA LastGives ==
  ASSUME NEW f, Tree(f), AllLive(f), NEW key \in Keys, NEW at \in DOMAIN f,
         Len(at) = Len(key), key[Len(key)] # Wildcard
  PROVE  Gives(f, key, at, [gone |-> {}, cleared |-> {at}, hit |-> f[at] # NoValue])
<1> DEFINE r == [gone |-> {}, cleared |-> {at}, hit |-> f[at] # NoValue]
<1>1. /\ at \in Seq(Segments) /\ Len(at) \in Nat /\ IsPrefixKey(at, at)
  BY TreeFacts
<1>2. r.gone = {} /\ r.cleared = {at} /\ Taken(r) = {at} /\ r.hit = (f[at] # NoValue)
  BY DEF Taken
<1> HIDE DEF r
<1>3. ASSUME NEW d \in Below(PathsOf(f), at) PROVE d = at <=> Hits(key, Len(at), d)
  <2>1. d \in DOMAIN f /\ IsPrefixKey(at, d)
    BY DEF Below, PathsOf
  <2>2. d \in Seq(Segments)
    BY <2>1, TreeFacts
  <2>3. Hits(key, Len(at), d) <=> Len(d) = Len(at)
    <3>1. \A i \in Len(at)+1..Len(key) : key[i] \in {Wildcard, d[i]}
      BY <1>1
    <3> QED
      BY <3>1 DEF Hits
  <2> QED
    BY <1>1, <2>1, <2>2, <2>3, PrefixSameLength
<1>4. ASSUME NEW p \in Below(DOMAIN f, at), p # at
      PROVE  \E q \in PathsOf(f) : IsPrefixKey(p, q) /\ q \notin Taken(r)
  <2>1. p \in DOMAIN f /\ p \in Seq(Segments) /\ IsPrefixKey(at, p)
    BY TreeFacts DEF Below
  <2>2. p # <<>>
    BY <1>1, <1>4, <2>1, PrefixSameLength, EmptySeq
  <2>3. PICK q \in PathsOf(f) : IsPrefixKey(p, q)
    BY <2>1, <2>2 DEF AllLive
  <2>4. q # at
    <3> SUFFICES ASSUME q = at PROVE FALSE
      OBVIOUS
    <3>1. Len(p) <= Len(at) /\ Len(p) \in Nat
      BY <2>1, <2>3, TreeFacts DEF IsPrefixKey
    <3>2. at = p
      BY <1>1, <2>1, <3>1, PrefixSameLength
    <3> QED
      BY <1>4, <3>2
  <2> QED
    BY <1>2, <2>3, <2>4
<1>5. at \in Below(DOMAIN f, at)
  BY <1>1 DEF Below
<1>6. r.hit \in BOOLEAN /\ (r.hit <=> \E d \in PathsOf(f) : d \in Taken(r))
  BY <1>2 DEF PathsOf
<1> QED
  BY <1>2, <1>3, <1>4, <1>5, <1>6 DEF Gives, r

\* The call in front of a final "*" drops all below its node, and the value there.
LEMMA LastWildcardGives ==
  ASSUME NEW f, Tree(f), AllLive(f), NEW key \in Keys, NEW at \in DOMAIN f,
         Len(at) + 1 = Len(key), key[Len(key)] = Wildcard
  PROVE  Gives(f, key, at, [gone |-> Below(DOMAIN f, at) \ {at}, cleared |-> {at},
                            hit |-> ~IsEmptyNode(f, at)])
<1> DEFINE r == [gone |-> Below(DOMAIN f, at) \ {at}, cleared |-> {at},
                 hit |-> ~IsEmptyNode(f, at)]
<1>1. /\ at \in Seq(Segments) /\ Len(at) \in Nat /\ IsPrefixKey(at, at)
  BY TreeFacts
<1>2. at \in Below(DOMAIN f, at)
  BY <1>1 DEF Below
<1>3. /\ r.gone = Below(DOMAIN f, at) \ {at} /\ r.cleared = {at}
      /\ Taken(r) = Below(DOMAIN f, at) /\ r.hit = ~IsEmptyNode(f, at)
  BY <1>2 DEF Taken
<1> HIDE DEF r
<1>4. ASSUME NEW q \in r.gone, NEW d \in Below(DOMAIN f, q) PROVE d \in r.gone
  <2>1. q \in DOMAIN f /\ IsPrefixKey(at, q) /\ q # at /\ d \in DOMAIN f /\ IsPrefixKey(q, d)
    BY <1>3 DEF Below
  <2>2. IsPrefixKey(at, d)
    BY <2>1, BelowFacts
  <2>3. d # at
    <3> SUFFICES ASSUME d = at PROVE FALSE
      OBVIOUS
    <3>1. q \in Seq(Segments) /\ Len(q) <= Len(at)
      BY <2>1, TreeFacts DEF IsPrefixKey
    <3> QED
      BY <1>1, <2>1, <3>1, PrefixSameLength
  <2> QED
    BY <1>3, <2>1, <2>2, <2>3 DEF Below
<1>5. ASSUME NEW d \in Below(PathsOf(f), at) PROVE d \in Taken(r) /\ Hits(key, Len(at), d)
  <2>1. d \in DOMAIN f /\ IsPrefixKey(at, d)
    BY DEF Below, PathsOf
  <2>2. Len(d) \in Nat /\ Len(at) <= Len(d)
    BY <2>1, TreeFacts DEF IsPrefixKey
  <2>3. Len(key) - 1 = Len(at) /\ \A i \in Len(at)+1..Len(key)-1 : FALSE
    BY <1>1
  <2> QED
    BY <1>3, <2>1, <2>2, <2>3 DEF Hits, Below
<1>6. ~IsEmptyNode(f, at) <=> \E d \in PathsOf(f) : d \in Taken(r)
  <2>1. ASSUME f[at] # NoValue PROVE \E d \in PathsOf(f) : d \in Taken(r)
    BY <1>2, <1>3, <2>1 DEF PathsOf
  <2>2. ASSUME NEW c \in Children(f, at) PROVE \E d \in PathsOf(f) : d \in Taken(r)
    <3>1. c \in DOMAIN f /\ IsPrefixKey(at, c) /\ c # <<>>
      BY ChildFacts
    <3>2. PICK d \in PathsOf(f) : IsPrefixKey(c, d)
      BY <3>1 DEF AllLive
    <3>3. d \in DOMAIN f
      BY DEF PathsOf
    <3>4. IsPrefixKey(at, d)
      BY <3>1, <3>2, <3>3, BelowFacts
    <3> QED
      BY <1>3, <3>3, <3>4 DEF Below
  <2>3. ASSUME NEW d \in PathsOf(f), d \in Taken(r) PROVE ~IsEmptyNode(f, at)
    <3>1. d \in DOMAIN f /\ f[d] # NoValue /\ IsPrefixKey(at, d)
      BY <1>3, <2>3 DEF Below, PathsOf
    <3>2. CASE d = at
      BY <3>1, <3>2 DEF IsEmptyNode
    <3>3. CASE d # at
      <4>1. PICK c \in Children(f, at) : TRUE
        BY <3>1, <3>3, ChildOnWay
      <4> QED
        BY <4>1 DEF IsEmptyNode
    <3> QED
      BY <3>2, <3>3
  <2> QED
    BY <2>1, <2>2, <2>3 DEF IsEmptyNode
<1>7. r.hit \in BOOLEAN /\ (r.hit <=> \E d \in PathsOf(f) : d \in Taken(r))
  BY <1>3, <1>6 DEF IsEmptyNode
<1> QED
  BY <1>2, <1>3, <1>4, <1>5, <1>7 DEF Gives, r

(***************************************************************************)
(* The call in between joins what the calls on the children gave.          *)
(***************************************************************************)
LEMMA JoinedGives ==
  ASSUME NEW f, Tree(f), AllLive(f), NEW key \in Keys, NEW at \in DOMAIN f,
         Len(at) < Len(key), ~(Len(at) + 1 = Len(key) /\ key[Len(key)] = Wildcard),
         NEW results, DOMAIN results = Matched(f, key, at),
         \A c \in Matched(f, key, at) : Gives(f, key, c, results[c])
  PROVE  Gives(f, key, at, Joined(f, results))
<1> DEFINE r == Joined(f, results)
           M == Matched(f, key, at)
           W == Pruned(f, results)
<1>1. /\ at \in Seq(Segments) /\ Len(at) \in Nat /\ Len(key) \in Nat \ {0}
  BY TreeFacts, KeyFacts
<1>2. W \subseteq M /\ \A c \in W : IsEmptyNode(After(f, results[c]), c)
  BY DEF Pruned
<1>3. /\ \A d : d \in r.gone <=> \/ \E c \in M : d \in results[c].gone
                                \/ \E c \in W : d \in Below(DOMAIN f, c)
      /\ \A d : d \in r.cleared <=> \E c \in M : d \in results[c].cleared
      /\ r.hit = \E c \in M : results[c].hit
  <2>1. /\ r.gone = (UNION {results[c].gone : c \in M}) \cup (UNION {Below(DOMAIN f, c) : c \in W})
        /\ r.cleared = UNION {results[c].cleared : c \in M}
        /\ r.hit = \E c \in M : results[c].hit
    BY DEF Joined
  <2> HIDE DEF r, W, M
  <2>2. \A d : d \in UNION {results[c].gone : c \in M} <=> \E c \in M : d \in results[c].gone
    BY Zenon
  <2>3. \A d : d \in UNION {Below(DOMAIN f, c) : c \in W} <=> \E c \in W : d \in Below(DOMAIN f, c)
    BY Zenon
  <2>4. \A d : d \in UNION {results[c].cleared : c \in M} <=> \E c \in M : d \in results[c].cleared
    BY Zenon
  <2>5. \A d : d \in r.gone <=> \/ d \in UNION {results[c].gone : c \in M}
                              \/ d \in UNION {Below(DOMAIN f, c) : c \in W}
    BY <2>1, Zenon
  <2>6. \A d : d \in r.gone <=> \/ \E c \in M : d \in results[c].gone
                              \/ \E c \in W : d \in Below(DOMAIN f, c)
    BY ONLY <2>2, <2>3, <2>5, Zenon
  <2>7. \A d : d \in r.cleared <=> \E c \in M : d \in results[c].cleared
    BY ONLY <2>1, <2>4, Zenon
  <2> QED
    BY <2>1, <2>6, <2>7
<1> HIDE DEF r, W
<1>4. ASSUME NEW c \in M
      PROVE  /\ c \in DOMAIN f /\ c \in Children(f, at)
             /\ Len(c) = Len(at) + 1 /\ IsPrefixKey(at, c) /\ c # at /\ c # <<>>
             /\ key[Len(at) + 1] \in {Wildcard, c[Len(c)]}
             /\ Gives(f, key, c, results[c])
  BY MatchedFacts, ChildFacts
<1> HIDE DEF M
\* What is below a child is below the node, and is not the node.
<1>5. ASSUME NEW c \in M, NEW d \in Below(DOMAIN f, c)
      PROVE  d \in Below(DOMAIN f, at) \ {at}
  <2>1. d \in DOMAIN f /\ IsPrefixKey(c, d)
    BY DEF Below
  <2>2. IsPrefixKey(at, d)
    BY <1>4, <2>1, BelowFacts
  <2>3. Len(c) <= Len(d)
    BY <2>1 DEF IsPrefixKey
  <2> QED
    BY <1>1, <1>4, <2>1, <2>2, <2>3 DEF Below
<1>6. ASSUME NEW c \in M
      PROVE  /\ results[c].gone \subseteq Below(DOMAIN f, c)
             /\ results[c].cleared \subseteq Below(DOMAIN f, c)
             /\ Taken(results[c]) \subseteq Below(DOMAIN f, c)
  BY <1>4 DEF Gives, Taken
\* The nodes taken, and the values taken, by way of a child.
<1>7. ASSUME NEW d \in Taken(r) PROVE \E c \in M : d \in Below(DOMAIN f, c)
  BY <1>2, <1>3, <1>6 DEF Taken
<1>8. ASSUME NEW d \in PathsOf(f)
      PROVE  d \in Taken(r) <=> \E c \in M : d \in Taken(results[c])
  <2>1. ASSUME NEW c \in M, d \in Taken(results[c]) PROVE d \in Taken(r)
    BY <1>3, <2>1 DEF Taken
  <2>2. ASSUME NEW c \in W, d \in Below(DOMAIN f, c) PROVE d \in Taken(results[c])
    <3>1. /\ c \in DOMAIN f /\ Gives(f, key, c, results[c])
          /\ IsEmptyNode(After(f, results[c]), c)
      BY <1>2, <1>4
    <3>2. \A e \in Below(PathsOf(f), c) : e \in Taken(results[c])
      BY <3>1, PrunedChild
    <3> QED
      BY <2>2, <3>2 DEF Below
  <2> QED
    BY <1>2, <1>3, <2>1, <2>2 DEF Taken
<1>9. r.gone \subseteq Below(DOMAIN f, at) \ {at} /\ r.cleared \subseteq Below(DOMAIN f, at)
  BY <1>5, <1>7 DEF Taken
<1>10. ASSUME NEW q \in r.gone PROVE Below(DOMAIN f, q) \subseteq r.gone
  <2>1. CASE \E c \in M : q \in results[c].gone
    <3>1. PICK c \in M : q \in results[c].gone
      BY <2>1
    <3>2. Below(DOMAIN f, q) \subseteq results[c].gone
      BY <1>4, <3>1 DEF Gives
    <3> QED
      BY <1>3, <3>2
  <2>2. CASE \E c \in W : q \in Below(DOMAIN f, c)
    <3>1. PICK c \in W : q \in Below(DOMAIN f, c)
      BY <2>2
    <3>2. c \in DOMAIN f /\ q \in DOMAIN f /\ IsPrefixKey(c, q)
      BY <1>2, <1>4, <3>1 DEF Below
    <3>3. Below(DOMAIN f, q) \subseteq Below(DOMAIN f, c)
      BY <3>2, BelowFacts DEF Below
    <3> QED
      BY <1>3, <3>3
  <2> QED
    BY <1>3, <2>1, <2>2
<1>11. ASSUME NEW d \in Below(PathsOf(f), at)
       PROVE  d \in Taken(r) <=> Hits(key, Len(at), d)
  <2>1. d \in PathsOf(f) /\ d \in DOMAIN f /\ IsPrefixKey(at, d) /\ Len(d) \in Nat
    BY TreeFacts DEF Below, PathsOf
  \* The segment that the child matches is all that the two differ in.
  <2>2. ASSUME NEW c \in M, IsPrefixKey(c, d)
        PROVE  Hits(key, Len(c), d) <=> Hits(key, Len(at), d)
    <3> DEFINE n == Len(at)
    <3>1. c[n + 1] = d[n + 1] /\ Len(c) = n + 1
      BY <1>1, <1>4, <2>2 DEF IsPrefixKey
    <3>2. key[n + 1] \in {Wildcard, d[n + 1]}
      BY <1>4, <3>1
    <3>3. ASSUME NEW m \in Nat, n + 1 <= m
          PROVE  (\A i \in n+1+1..m : key[i] \in {Wildcard, d[i]})
                   <=> (\A i \in n+1..m : key[i] \in {Wildcard, d[i]})
      <4>1. n+1..m = {n + 1} \cup (n+1+1..m)
        BY <1>1, <3>3
      <4> QED
        BY <3>2, <4>1
    <3>4. CASE key[Len(key)] = Wildcard
      <4>1. Len(key) - 1 \in Nat /\ n + 1 <= Len(key) - 1
        BY <1>1, <3>4
      <4> QED
        BY <3>1, <3>3, <3>4, <4>1 DEF Hits
    <3>5. CASE key[Len(key)] # Wildcard
      <4>1. Len(key) \in Nat /\ n + 1 <= Len(key)
        BY <1>1
      <4> QED
        BY <3>1, <3>3, <3>5, <4>1 DEF Hits
    <3> QED
      BY <3>4, <3>5
  <2>3. ASSUME NEW c \in M, d \in Taken(results[c]) PROVE Hits(key, Len(at), d)
    <3>1. IsPrefixKey(c, d)
      BY <1>6, <2>3 DEF Below
    <3>2. d \in Below(PathsOf(f), c)
      BY <2>1, <3>1 DEF Below
    <3>3. Hits(key, Len(c), d)
      BY <1>4, <2>3, <3>2 DEF Gives
    <3> QED
      BY <2>2, <3>1, <3>3
  <2>4. ASSUME Hits(key, Len(at), d) PROVE \E c \in M : d \in Taken(results[c])
    <3>1. at # d
      BY <1>1, <2>1, <2>4 DEF Hits
    <3>2. PICK c \in Children(f, at) :
            IsPrefixKey(c, d) /\ Len(at) + 1 <= Len(d) /\ c[Len(c)] = d[Len(at) + 1]
      BY <2>1, <3>1, ChildOnWay
    <3>3. key[Len(at) + 1] \in {Wildcard, d[Len(at) + 1]}
      <4>1. CASE key[Len(key)] = Wildcard
        <5>1. Len(at) + 1 \in Len(at)+1..Len(key)-1
          BY <1>1, <4>1
        <5> QED
          BY <2>4, <4>1, <5>1 DEF Hits
      <4>2. CASE key[Len(key)] # Wildcard
        <5>1. Len(at) + 1 \in Len(at)+1..Len(key)
          BY <1>1
        <5> QED
          BY <2>4, <4>2, <5>1 DEF Hits
      <4> QED
        BY <4>1, <4>2
    <3>4. c \in M
      BY <3>2, <3>3 DEF M, Matched
    <3>5. Hits(key, Len(c), d)
      BY <2>2, <2>4, <3>2, <3>4
    <3>6. d \in Below(PathsOf(f), c)
      BY <2>1, <3>2 DEF Below
    <3> QED
      BY <1>4, <3>4, <3>5, <3>6 DEF Gives
  <2> QED
    BY <1>8, <2>1, <2>3, <2>4
<1>12. r.hit \in BOOLEAN /\ (r.hit <=> \E d \in PathsOf(f) : d \in Taken(r))
  <2>1. \A c \in M : results[c].hit <=> \E d \in PathsOf(f) : d \in Taken(results[c])
    BY <1>4 DEF Gives
  <2> QED
    BY <1>3, <1>8, <2>1
<1>13. ASSUME NEW p \in Below(DOMAIN f, at) \ r.gone, p # at
       PROVE  \E q \in PathsOf(f) : IsPrefixKey(p, q) /\ q \notin Taken(r)
  <2>1. p \in DOMAIN f /\ IsPrefixKey(at, p) /\ p \notin r.gone
    BY DEF Below
  <2>2. PICK c \in Children(f, at) :
          IsPrefixKey(c, p) /\ Len(at) + 1 <= Len(p) /\ c[Len(c)] = p[Len(at) + 1]
    BY <1>13, <2>1, ChildOnWay
  <2>3. c \in DOMAIN f /\ c # <<>> /\ IsPrefixKey(c, c)
    BY ChildFacts, TreeFacts
  \* What is taken below c is taken by the call on c.
  <2>4. ASSUME NEW q \in PathsOf(f), IsPrefixKey(p, q), q \in Taken(r)
        PROVE  c \in M /\ q \in Taken(results[c])
    <3>1. q \in DOMAIN f
      BY DEF PathsOf
    <3>2. IsPrefixKey(c, q)
      BY <2>1, <2>2, <2>3, <2>4, <3>1, BelowFacts
    <3>3. PICK b \in M : q \in Taken(results[b])
      BY <1>8, <2>4
    <3>4. b \in Children(f, at) /\ IsPrefixKey(b, q)
      BY <1>4, <1>6, <3>3 DEF Below
    <3>5. b = c
      BY <3>1, <3>2, <3>4, ChildrenApart
    <3> QED
      BY <3>3, <3>5
  <2>5. p # <<>>
    <3>1. Len(p) # 0
      BY <1>1, <2>1, <2>2, TreeFacts
    <3> QED
      BY <3>1, EmptySeq
  <2>6. PICK q \in PathsOf(f) : IsPrefixKey(p, q)
    BY <2>1, <2>5 DEF AllLive
  <2>7. CASE c \notin M
    BY <2>4, <2>6, <2>7
  <2>8. CASE c \in M
    <3>1. p \in Below(DOMAIN f, c) /\ p \notin results[c].gone /\ c \notin W
      BY <1>3, <2>1, <2>2, <2>8 DEF Below
    <3>2. Gives(f, key, c, results[c])
      BY <1>4, <2>8
    <3>3. ASSUME NEW e \in Below(DOMAIN f, c) \ results[c].gone, e # c, IsPrefixKey(p, e)
          PROVE  \E d \in PathsOf(f) : IsPrefixKey(p, d) /\ d \notin Taken(r)
      <4>1. PICK d \in PathsOf(f) : IsPrefixKey(e, d) /\ d \notin Taken(results[c])
        BY <3>2, <3>3 DEF Gives
      <4>2. d \in DOMAIN f /\ e \in DOMAIN f
        BY DEF PathsOf, Below
      <4>3. IsPrefixKey(p, d)
        BY <2>1, <3>3, <4>1, <4>2, BelowFacts
      <4> QED
        BY <2>4, <4>1, <4>3
    <3>4. CASE p # c
      <4>1. IsPrefixKey(p, p)
        BY <2>1, TreeFacts
      <4> QED
        BY <3>1, <3>3, <3>4, <4>1
    <3>5. CASE p = c /\ ~results[c].hit
      <4>1. q \notin Taken(results[c])
        BY <3>2, <3>5 DEF Gives
      <4> QED
        BY <2>4, <2>6, <4>1
    <3>6. CASE p = c /\ results[c].hit
      <4> DEFINE left == After(f, results[c])
      <4>1. ~IsEmptyNode(left, c)
        BY <2>8, <3>1, <3>6 DEF W, Pruned, M
      <4>2. DOMAIN left = DOMAIN f \ results[c].gone
        BY DEF After
      <4>3. CASE left[c] # NoValue
        <5>1. c \in DOMAIN f \ results[c].gone
          BY <2>3, <3>1, <3>6
        <5>2. left[c] = IF c \in results[c].cleared THEN NoValue ELSE f[c]
          BY <5>1 DEF After
        <5>3. f[c] # NoValue /\ c \notin results[c].cleared
          BY <4>3, <5>2
        <5>4. c \in PathsOf(f) /\ c \notin Taken(results[c])
          BY <5>1, <5>3 DEF PathsOf, Taken
        <5> QED
          BY <2>3, <2>4, <3>6, <5>4
      <4>4. CASE Children(left, c) # {}
        <5>1. PICK e \in Children(left, c) : TRUE
          BY <4>4
        <5>2. e \in Children(f, c) /\ e \notin results[c].gone
          BY <4>2, <5>1 DEF Children
        <5>3. e \in DOMAIN f /\ IsPrefixKey(c, e) /\ e # c
          BY <2>3, <5>2, ChildFacts
        <5> QED
          BY <3>3, <3>6, <5>2, <5>3 DEF Below
      <4> QED
        BY <4>1, <4>3, <4>4 DEF IsEmptyNode
    <3> QED
      BY <3>4, <3>5, <3>6
  <2> QED
    BY <2>7, <2>8
<1> QED
  BY <1>9, <1>10, <1>11, <1>12, <1>13 DEF Gives, r

(***************************************************************************)
(* The call on the root takes what the whole key hits: by induction on the *)
(* number of segments that are left.                                       *)
(***************************************************************************)
LEMMA DeleteGives ==
  ASSUME NEW f, Tree(f), AllLive(f), NEW key \in Keys
  PROVE  Gives(f, key, <<>>, DeleteRecursive(f, key))
<1> DEFINE l == Len(key)
<1>1. l \in Nat \ {0} /\ \A p \in DOMAIN f : Len(p) \in Nat
  BY KeyFacts, TreeFacts
<1>2. PICK delete :
        /\ \A at \in Deep(f, key, l) : delete[at] = Outcome(f, key, at, delete)
        /\ DeleteRecursive(f, key) = delete[<<>>]
  BY DeleteRuns
\* The nodes on which it is called with n segments left.
<1> DEFINE At(n) == {p \in DOMAIN f : Len(p) + n = l /\ (n = 0 => key[l] # Wildcard)}
           T == {n \in Nat : \A at \in At(n) : Gives(f, key, at, delete[at])}
<1>3. ASSUME NEW n \in Nat, NEW at \in At(n)
      PROVE  at \in DOMAIN f /\ Len(at) \in Nat /\ Len(at) + n = l
             /\ delete[at] = Outcome(f, key, at, delete)
  <2>1. at \in Deep(f, key, l)
    BY <1>1 DEF Deep
  <2> QED
    BY <1>1, <1>2, <2>1
<1>4. 0 \in T
  <2> SUFFICES ASSUME NEW at \in At(0) PROVE Gives(f, key, at, delete[at])
    OBVIOUS
  <2>1. at \in DOMAIN f /\ Len(at) = l /\ key[l] # Wildcard
    BY <1>1
  <2>2. delete[at] = [gone |-> {}, cleared |-> {at}, hit |-> f[at] # NoValue]
    BY <1>3, <2>1 DEF Outcome
  <2> QED
    BY <2>1, <2>2, LastGives
<1>5. ASSUME NEW n \in T PROVE n + 1 \in T
  <2> SUFFICES ASSUME NEW at \in At(n + 1) PROVE Gives(f, key, at, delete[at])
    OBVIOUS
  <2>1. n \in Nat /\ n + 1 \in Nat
    OBVIOUS
  <2>2. /\ at \in DOMAIN f /\ Len(at) \in Nat /\ Len(at) + (n + 1) = l
        /\ delete[at] = Outcome(f, key, at, delete)
    BY <1>3, <2>1
  <2>3. CASE Len(at) + 1 = l /\ key[l] = Wildcard
    <3>1. delete[at] = [gone |-> Below(DOMAIN f, at) \ {at}, cleared |-> {at},
                        hit |-> ~IsEmptyNode(f, at)]
      BY <2>2, <2>3 DEF Outcome
    <3> QED
      BY <2>2, <2>3, <3>1, LastWildcardGives
  <2>4. CASE ~(Len(at) + 1 = l /\ key[l] = Wildcard)
    <3> DEFINE results == [c \in Matched(f, key, at) |-> delete[c]]
    <3>1. delete[at] = Joined(f, results)
      <4>1. Len(at) # Len(key)
        BY <1>1, <2>1, <2>2
      <4> QED
        BY <2>2, <2>4, <4>1 DEF Outcome
    <3>2. DOMAIN results = Matched(f, key, at)
      OBVIOUS
    <3>3. ASSUME NEW c \in Matched(f, key, at) PROVE Gives(f, key, c, results[c])
      <4>1. c \in DOMAIN f /\ Len(c) = Len(at) + 1
        BY <2>2, MatchedFacts
      <4>2. c \in At(n)
        BY <1>1, <2>1, <2>2, <2>4, <4>1
      <4>3. Gives(f, key, c, delete[c])
        BY <4>2
      <4> QED
        BY <4>3
    <3>4. Len(at) < Len(key)
      BY <1>1, <2>1, <2>2
    <3> HIDE DEF results
    <3> QED
      BY <2>2, <2>4, <3>1, <3>2, <3>3, <3>4, JoinedGives
  <2> QED
    BY <2>3, <2>4
<1>6. T = Nat
  <2>1. T \in SUBSET Nat
    OBVIOUS
  <2> HIDE DEF T
  <2> QED
    BY <1>4, <1>5, <2>1, ByInduction
<1>7. <<>> \in At(l)
  BY <1>1, EmptySeq DEF Tree
<1>8. Gives(f, key, <<>>, delete[<<>>])
  <2>1. l \in T
    BY <1>1, <1>6
  <2> HIDE DEF At
  <2> QED
    BY <1>7, <2>1
<1> QED
  BY <1>2, <1>8

LEMMA RemoveKeepsTree ==
  ASSUME NEW f, Tree(f), AllLive(f), NEW key \in Keys
  PROVE  LET g == After(f, DeleteRecursive(f, key)) IN Tree(g) /\ AllLive(g)
<1> DEFINE r == DeleteRecursive(f, key)
           g == After(f, r)
<1>1. /\ r.gone \subseteq Below(DOMAIN f, <<>>) \ {<<>>}
      /\ \A q \in r.gone : Below(DOMAIN f, q) \subseteq r.gone
      /\ \A p \in Below(DOMAIN f, <<>>) \ r.gone :
           p # <<>> => \E q \in PathsOf(f) : IsPrefixKey(p, q) /\ q \notin Taken(r)
  <2>1. Gives(f, key, <<>>, r)
    BY DeleteGives
  <2> HIDE DEF r
  <2> QED
    BY <2>1 DEF Gives
<1> HIDE DEF r
<1>2. /\ DOMAIN g = DOMAIN f \ r.gone
      /\ \A p \in DOMAIN g : g[p] = IF p \in r.cleared THEN NoValue ELSE f[p]
      /\ g \in [DOMAIN g -> Values \cup {NoValue}]
  <2>1. \A p \in DOMAIN f : f[p] \in Values \cup {NoValue}
    BY DEF Tree
  <2> QED
    BY <2>1 DEF After
<1> HIDE DEF g
<1>3. \A p \in DOMAIN f : p \in Below(DOMAIN f, <<>>)
  BY TreeFacts, PrefixEmpty DEF Below
<1>4. <<>> \in DOMAIN g
  BY <1>1, <1>2 DEF Tree
<1>5. ASSUME NEW p \in DOMAIN g, NEW i \in 0..Len(p) PROVE Node(p, i) \in DOMAIN g
  <2>1. p \in DOMAIN f /\ p \in Seq(Segments) /\ p \notin r.gone /\ Node(p, i) \in DOMAIN f
    BY <1>2 DEF Tree
  <2>2. IsPrefixKey(Node(p, i), p)
    BY <2>1, NodeFacts
  <2>3. p \in Below(DOMAIN f, Node(p, i))
    BY <2>1, <2>2 DEF Below
  <2> QED
    BY <1>1, <1>2, <2>1, <2>3
<1>6. Tree(g)
  <2>1. \A p \in DOMAIN g : p \in Seq(Segments) /\ ~HasWildcard(p)
    BY <1>2 DEF Tree
  <2> QED
    BY <1>2, <1>4, <1>5, <2>1 DEF Tree
<1>7. AllLive(g)
  <2> SUFFICES ASSUME NEW p \in DOMAIN g \ {<<>>}
               PROVE  \E q \in PathsOf(g) : IsPrefixKey(p, q)
    BY DEF AllLive
  <2>1. PICK q \in PathsOf(f) : IsPrefixKey(p, q) /\ q \notin Taken(r)
    BY <1>1, <1>2, <1>3
  <2>2. q \in PathsOf(g)
    BY <1>2, <2>1 DEF PathsOf, Taken
  <2> QED
    BY <2>1, <2>2
<1> QED
  BY <1>6, <1>7 DEF g, r

LEMMA RemoveStep ==
  ASSUME NEW key \in Keys, Tree(root), AllLive(root)
  PROVE  LET result == DeleteRecursive(root, key)
             left == After(root, result)
         IN /\ Contents(left) = Removed(Contents(root), key)
            /\ result.hit = (PathsOf(left) # PathsOf(root))
<1> DEFINE r == DeleteRecursive(root, key)
           left == After(root, r)
<1>1. /\ \A d \in Below(PathsOf(root), <<>>) : d \in Taken(r) <=> Hits(key, Len(<<>>), d)
      /\ r.hit \in BOOLEAN
      /\ r.hit <=> \E d \in PathsOf(root) : d \in Taken(r)
  <2>1. Gives(root, key, <<>>, r)
    BY DeleteGives
  <2> HIDE DEF r
  <2> QED
    BY <2>1 DEF Gives
<1> HIDE DEF r
<1>2. /\ DOMAIN left = DOMAIN root \ r.gone
      /\ \A p \in DOMAIN left : left[p] = IF p \in r.cleared THEN NoValue ELSE root[p]
  BY DEF After
<1> HIDE DEF left
\* Hits from the root on is what KeySpace calls Removes.
<1>3. ASSUME NEW d PROVE Hits(key, Len(<<>>), d) <=> Removes(key, d)
  <2>1. Len(<<>>) + 1 = 1
    BY EmptySeq
  <2> QED
    BY <2>1 DEF Hits, Removes
<1>4. \A d \in PathsOf(root) : d \in Taken(r) <=> Removes(key, d)
  <2>1. \A d \in PathsOf(root) : d \in Below(PathsOf(root), <<>>)
    BY TreeFacts, PrefixEmpty DEF Below, PathsOf
  <2> QED
    BY <1>1, <1>3, <2>1
<1>5. PathsOf(left) = PathsOf(root) \ Taken(r)
  BY <1>2 DEF PathsOf, Taken
<1>6. PathsOf(left) = Kept(PathsOf(root), key)
  BY <1>4, <1>5 DEF Kept
<1>7. \A d \in PathsOf(left) : d \in PathsOf(root) /\ left[d] = root[d]
  BY <1>2, <1>5 DEF PathsOf
<1>8. Contents(left) = Removed(Contents(root), key)
  <2>1. DOMAIN Contents(root) = PathsOf(root)
        /\ \A d \in PathsOf(root) : Contents(root)[d] = root[d]
    BY DEF Contents, Restrict
  <2>2. Contents(left) = [d \in PathsOf(left) |-> left[d]]
    BY DEF Contents, Restrict
  <2>3. Removed(Contents(root), key) = [d \in PathsOf(left) |-> Contents(root)[d]]
    BY <1>6, <2>1 DEF Removed, Restrict
  <2> QED
    BY <1>7, <2>1, <2>2, <2>3
<1>9. r.hit = (PathsOf(left) # PathsOf(root))
  <2>1. r.hit <=> PathsOf(left) # PathsOf(root)
    BY <1>1, <1>5
  <2> QED
    BY <1>1, <2>1
<1> QED
  BY <1>8, <1>9 DEF left, r

-----------------------------------------------------------------------------
(* The theorems. *)

\* A trie that inserts and removes have made is a tree without dead branches.
Inv == Tree(root) /\ AllLive(root)

LEMMA InvHolds == Spec => []Inv
<1>1. Init => Inv
  <2> SUFFICES ASSUME Init PROVE Inv
    OBVIOUS
  <2>1. DOMAIN root = {<<>>} /\ root[<<>>] = NoValue /\ root \in [{<<>>} -> Values \cup {NoValue}]
    BY DEF Init, NewNode
  <2>2. <<>> \in Seq(Segments) /\ Len(<<>>) = 0
    BY EmptySeq
  <2>3. ~HasWildcard(<<>>)
    BY <2>2 DEF HasWildcard
  <2>4. \A i \in 0..Len(<<>>) : Node(<<>>, i) = <<>>
    BY <2>2, NodeZero
  <2> QED
    BY <2>1, <2>2, <2>3, <2>4 DEF Inv, Tree, AllLive
<1>2. Inv /\ [Next]_root => Inv'
  <2> SUFFICES ASSUME Inv, [Next]_root PROVE Inv'
    OBVIOUS
  <2>1. ASSUME NEW key \in Keys, Remove(key) PROVE Inv'
    <3>1. root' = After(root, DeleteRecursive(root, key))
      BY <2>1 DEF Remove
    <3>2. Tree(After(root, DeleteRecursive(root, key))) /\ AllLive(After(root, DeleteRecursive(root, key)))
      BY RemoveKeepsTree DEF Inv
    <3>3. Tree(root') /\ AllLive(root')
      BY <3>1, <3>2
    <3> QED
      BY <3>3 DEF Inv, Tree, AllLive
  <2>2. ASSUME NEW key \in Keys, NEW value \in Values, Insert(key, value) PROVE Inv'
    <3>1. root' = AfterInsert(key, value)
      BY <2>2 DEF Insert
    <3>2. CASE HasWildcard(key)
      BY <3>1, <3>2 DEF AfterInsert, Inv, Tree, AllLive
    <3>3. CASE ~HasWildcard(key)
      <4>1. root' = InsertAt(root, key, value)
        BY <3>1, <3>3 DEF AfterInsert
      <4>2. Tree(InsertAt(root, key, value)) /\ AllLive(InsertAt(root, key, value))
        BY <3>3, InsertKeepsTree DEF Inv
      <4>3. Tree(root') /\ AllLive(root')
        BY <4>1, <4>2
      <4> QED
        BY <4>3 DEF Inv, Tree, AllLive
    <3> QED
      BY <3>2, <3>3
  <2>3. CASE UNCHANGED root
    BY <2>3 DEF Inv, Tree, AllLive
  <2> QED
    BY <2>1, <2>2, <2>3 DEF Next
<1> QED
  BY <1>1, <1>2, PTL DEF Spec

(***************************************************************************)
(* The nodes of the trie are a tree, whatever was inserted and removed.    *)
(***************************************************************************)
THEOREM TypeCorrect == Spec => []TypeOK
<1>1. Inv => TypeOK
  BY DEF Inv, Tree, TypeOK
<1> QED
  BY <1>1, InvHolds, PTL

(***************************************************************************)
(* No sequence of inserts and removes leaves a node without a value at or  *)
(* below it: delete_recursive clears every branch that it empties.         *)
(***************************************************************************)
THEOREM BranchesAreAlive == Spec => []NoDeadBranches
<1>1. Inv => NoDeadBranches
  BY DEF Inv, AllLive, NoDeadBranches, Below
<1> QED
  BY <1>1, InvHolds, PTL

(***************************************************************************)
(* insert changes the value at its key and nothing else.                   *)
(***************************************************************************)
THEOREM InsertIsAsSpecified == Spec => []InsertAgrees
<1>1. Inv => InsertAgrees
  BY InsertStep DEF Inv, InsertAgrees
<1> QED
  BY <1>1, InvHolds, PTL

(***************************************************************************)
(* remove takes away exactly the values whose keys it matches segment by   *)
(* segment, and says whether there were any.                               *)
(***************************************************************************)
THEOREM RemoveIsAsSpecified == Spec => []RemoveAgrees
<1>1. Inv => RemoveAgrees
  BY RemoveStep DEF Inv, RemoveAgrees
<1> QED
  BY <1>1, InvHolds, PTL

(***************************************************************************)
(* get finds exactly the values that the segments up to the first "*"      *)
(* select.                                                                 *)
(***************************************************************************)
THEOREM GetIsAsSpecified == Spec => []GetAgrees
<1>1. Inv => GetAgrees
  BY GetStep DEF Inv, GetAgrees
<1> QED
  BY <1>1, InvHolds, PTL

(***************************************************************************)
(* get_mut hands its callback exactly the ancestors of the key, outermost  *)
(* first.                                                                  *)
(***************************************************************************)
THEOREM CapturedIsAsSpecified == Spec => []CapturedAgrees
<1>1. Inv => CapturedAgrees
  BY CapturedStep DEF Inv, CapturedAgrees
<1> QED
  BY <1>1, InvHolds, PTL

(***************************************************************************)
(* The map that NkvCore has in place of each of its tries, with the two    *)
(* operators of KeySpace by which it changes it.                           *)
(***************************************************************************)
contents == Contents(root)

MapInit == contents = Contents(NewNode) /\ DOMAIN contents = {}

MapNext ==
  \E key \in Keys :
    \/ contents' = Removed(contents, key)
    \/ \E value \in Values : contents' = Inserted(contents, key, value)

MapSpec == MapInit /\ [][MapNext]_contents

(***************************************************************************)
(* Step by step the trie is that map: insert and remove of trie.rs may     *)
(* add and clear nodes as they like, nobody who looks at the keys and      *)
(* values alone can tell.                                                  *)
(***************************************************************************)
THEOREM TrieImplementsMap == Spec => MapSpec
<1>1. Init => MapInit
  <2> SUFFICES ASSUME Init PROVE MapInit
    OBVIOUS
  <2>1. root = NewNode /\ PathsOf(NewNode) = {}
    BY DEF Init, PathsOf, NewNode
  <2>2. DOMAIN Contents(NewNode) = {}
    BY <2>1 DEF Contents, Restrict
  <2> QED
    BY <2>1, <2>2 DEF MapInit, contents
<1>2. Inv /\ [Next]_root => [MapNext]_contents
  <2> SUFFICES ASSUME Inv, [Next]_root PROVE [MapNext]_contents
    OBVIOUS
  <2>1. ASSUME NEW key \in Keys, Remove(key) PROVE MapNext
    <3>1. root' = After(root, DeleteRecursive(root, key))
      BY <2>1 DEF Remove
    <3>2. Contents(After(root, DeleteRecursive(root, key))) = Removed(Contents(root), key)
      BY RemoveStep DEF Inv
    <3>3. contents' = Removed(contents, key)
      BY <3>1, <3>2 DEF contents
    <3> QED
      BY <3>3 DEF MapNext
  <2>2. ASSUME NEW key \in Keys, NEW value \in Values, Insert(key, value) PROVE MapNext
    <3>1. root' = AfterInsert(key, value)
      BY <2>2 DEF Insert
    <3>2. Contents(AfterInsert(key, value)) = Inserted(Contents(root), key, value)
      BY InsertStep DEF Inv
    <3>3. contents' = Inserted(contents, key, value)
      BY <3>1, <3>2 DEF contents
    <3> QED
      BY <3>3 DEF MapNext
  <2>3. CASE UNCHANGED root
    BY <2>3 DEF contents
  <2> QED
    BY <2>1, <2>2, <2>3 DEF Next
<1> QED
  BY <1>1, <1>2, InvHolds, PTL DEF Spec, MapSpec
=============================================================================
