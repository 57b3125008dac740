--------------------------- MODULE StorageProofs ----------------------------
(***************************************************************************)
(* That Storage implements StorageEngine, for all keys no two of which     *)
(* share a file, and that keys() lists what is stored, for all keys that   *)
(* the path of their file gives back.                                      *)
(***************************************************************************)
EXTENDS Storage, TLAPS

\* No two keys on disk have the same path: the keys without empty segments inside.
NoAliases == \A k, l \in Keys : ~InMemory(k) /\ ~InMemory(l) /\ KeyToPath(k) = KeyToPath(l) => k = l

(***************************************************************************)
(* What a put that is under way has behind it: RouterStorage's choice and, *)
(* from mkdir on, the complete temporary file.                             *)
(***************************************************************************)
PutUnderWay ==
  /\ op.pc \in {"write", "mkdir", "rename"} =>
       op.key \in Keys /\ ~InMemory(op.key) /\ op.value \in Values
  /\ op.pc \in {"mkdir", "rename"} => temp = op.value

\* Restrict is the same operator inside the instance.
LEMMA SameRestrict ==
  ASSUME NEW f, NEW S
  PROVE  Engine!Restrict(f, S) = Restrict(f, S)
BY DEF Engine!Restrict, Restrict

\* The next-state relation keeps PutUnderWay: only CreateTemp starts a put.
LEMMA PutUnderWayInvariant == Spec => []PutUnderWay
<1>1. Init => PutUnderWay
  BY DEF Init, PutUnderWay, At
<1>2. ASSUME PutUnderWay, [Next]_vars PROVE PutUnderWay'
  <2> USE <1>2 DEF PutUnderWay
  <2>1. ASSUME NEW key \in Keys, NEW value \in Values, CreateTemp(key, value) PROVE PutUnderWay'
    BY <2>1 DEF CreateTemp, InMemory
  <2>2. ASSUME NEW key \in Keys, NEW value \in Values, MemoryPut(key, value) PROVE PutUnderWay'
    BY <2>2 DEF MemoryPut, InMemory
  <2>3. ASSUME NEW key \in Keys, MemoryDelete(key) \/ FileDelete(key) PROVE PutUnderWay'
    BY <2>3 DEF MemoryDelete, FileDelete, InMemory
  <2>4. CASE WriteAll \/ CreateDirs
    BY <2>4 DEF WriteAll, CreateDirs, Goes, InMemory
  <2>5. CASE Rename \/ PutFails \/ ProcessEnds \/ New
    BY <2>5 DEF Rename, PutFails, ProcessEnds, New, At
  <2>6. CASE UNCHANGED vars
    BY <2>6 DEF vars, InMemory
  <2> QED
    BY <2>1, <2>2, <2>3, <2>4, <2>5, <2>6 DEF Next
<1> QED
  BY <1>1, <1>2, PTL DEF Spec

(***************************************************************************)
(* A step that leaves the memory and the files alone leaves what is stored *)
(* alone, whatever it does to the temporary file.                          *)
(***************************************************************************)
LEMMA SameStored ==
  ASSUME mem' = mem, digest' = digest
  PROVE  Stored' = Stored
BY DEF Stored, Holds, Read, InMemory

(***************************************************************************)
(* Storage keeps the contract of StorageEngine: a put is one abstract step,*)
(* the rename, and nothing that fails or ends before the rename is seen.   *)
(***************************************************************************)
THEOREM StorageImplementsEngine ==
  ASSUME NoAliases
  PROVE  Spec => ImplementsEngine
<1>1. Init => Engine!Init
  BY DEF Init, Engine!Init, Stored, Holds
<1>2. ASSUME PutUnderWay, [Next]_vars PROVE [Engine!Next]_Stored
  <2> USE <1>2
  <2>1. ASSUME NEW key \in Keys, NEW value \in Values, MemoryPut(key, value)
        PROVE  Engine!Put(key, value)
    BY <2>1 DEF MemoryPut, Engine!Put, Stored, Holds, Read, InMemory, With
  <2>2. ASSUME NEW key \in Keys, MemoryDelete(key) PROVE Engine!Delete(key)
    BY <2>2, SameRestrict DEF MemoryDelete, Engine!Delete, Stored, Holds, Read, InMemory, Without, Restrict
  <2>3. ASSUME NEW key \in Keys, FileDelete(key) PROVE Engine!Delete(key)
    BY <2>3, SameRestrict, NoAliases
    DEF FileDelete, Engine!Delete, Stored, Holds, Read, InMemory, Without, Restrict, NoAliases
  <2>4. CASE Rename
    <3>1. op.key \in Keys /\ ~InMemory(op.key) /\ op.value \in Values /\ temp = op.value
      BY <2>4 DEF Rename, PutUnderWay
    <3>2. Engine!Put(op.key, op.value)
      BY <2>4, <3>1, NoAliases DEF Rename, Engine!Put, Stored, Holds, Read, InMemory, With, NoAliases
    <3> QED
      BY <3>1, <3>2 DEF Engine!Next
  <2>5. CASE ProcessEnds
    <3>1. Engine!ProcessEnds
      BY <2>5, SameRestrict DEF ProcessEnds, Engine!ProcessEnds, Stored, Holds, Read, InMemory, Restrict
    <3> QED
      BY <3>1 DEF Engine!Next
  <2>6. ASSUME NEW key \in Keys, NEW value \in Values, CreateTemp(key, value) PROVE Stored' = Stored
    BY <2>6, SameStored DEF CreateTemp
  <2>7. CASE WriteAll \/ CreateDirs \/ PutFails \/ New \/ UNCHANGED vars
    BY <2>7, SameStored DEF WriteAll, CreateDirs, PutFails, New, vars
  <2> QED
    BY <2>1, <2>2, <2>3, <2>4, <2>5, <2>6, <2>7 DEF Next, Engine!Next
<1> QED
  BY <1>1, <1>2, PutUnderWayInvariant, PTL DEF Spec, ImplementsEngine, Engine!Spec

-----------------------------------------------------------------------------
(***************************************************************************)
(* The path of a key on disk gives the key back: again the keys without    *)
(* empty segments inside.  Two such keys share no file.                    *)
(***************************************************************************)
PathsNameKeys == \A key \in Keys : ~InMemory(key) => PathToKey(KeyToPath(key)) = key

\* The memory and the files hold keys of the side on which the router looks for them.
Routed ==
  /\ DOMAIN mem \subseteq {key \in Keys : InMemory(key)}
  /\ DOMAIN digest \subseteq {KeyToPath(key) : key \in {k \in Keys : ~InMemory(k)}}

\* PathsNameKeys is more than NoAliases: conversions that can be undone are injective.
LEMMA NamedPathsAreNoAliases ==
  ASSUME PathsNameKeys
  PROVE  NoAliases
BY DEF PathsNameKeys, NoAliases

\* The domain of a function with one more key, and with one less.
LEMMA WithWithout ==
  ASSUME NEW f, NEW k, NEW v
  PROVE  DOMAIN With(f, k, v) = DOMAIN f \cup {k} /\ DOMAIN Without(f, k) = DOMAIN f \ {k}
BY DEF With, Without, Restrict

\* No call stores a key on the wrong side, and a put renames to the path of its own key.
LEMMA RoutedInvariant == Spec => []Routed
<1>1. Init => Routed
  <2> SUFFICES ASSUME Init PROVE Routed
    OBVIOUS
  <2>1. DOMAIN mem = {} /\ DOMAIN digest = {}
    BY DEF Init
  <2> QED
    BY <2>1 DEF Routed
<1>2. ASSUME PutUnderWay, Routed, [Next]_vars PROVE Routed'
  <2> USE <1>2
  <2>1. ASSUME NEW key \in Keys, NEW value \in Values, MemoryPut(key, value) PROVE Routed'
    <3>1. DOMAIN mem' = DOMAIN mem \cup {key} /\ digest' = digest /\ InMemory(key)
      BY <2>1, WithWithout DEF MemoryPut
    <3> QED
      BY <3>1 DEF Routed, InMemory
  <2>2. ASSUME NEW key \in Keys, MemoryDelete(key) PROVE Routed'
    <3>1. DOMAIN mem' = DOMAIN mem \ {key} /\ digest' = digest
      BY <2>2, WithWithout DEF MemoryDelete
    <3> QED
      BY <3>1 DEF Routed, InMemory
  <2>3. ASSUME NEW key \in Keys, FileDelete(key) PROVE Routed'
    <3>1. DOMAIN digest' = DOMAIN digest \ {KeyToPath(key)} /\ mem' = mem
      BY <2>3, WithWithout DEF FileDelete
    <3> QED
      BY <3>1 DEF Routed, InMemory
  <2>4. CASE Rename
    <3>1. op.key \in Keys /\ ~InMemory(op.key)
      BY <2>4 DEF Rename, PutUnderWay
    <3>2. DOMAIN digest' = DOMAIN digest \cup {KeyToPath(op.key)} /\ mem' = mem
      BY <2>4, WithWithout DEF Rename
    <3> QED
      BY <3>1, <3>2 DEF Routed, InMemory
  <2>5. CASE ProcessEnds
    <3>1. DOMAIN mem' = {} /\ digest' = digest
      BY <2>5 DEF ProcessEnds
    <3> QED
      BY <3>1 DEF Routed, InMemory
  <2>6. ASSUME NEW key \in Keys, NEW value \in Values, CreateTemp(key, value) PROVE Routed'
    BY <2>6 DEF CreateTemp, Routed, InMemory
  <2>7. CASE WriteAll \/ CreateDirs \/ PutFails \/ New \/ UNCHANGED vars
    BY <2>7 DEF WriteAll, CreateDirs, PutFails, New, vars, Routed, InMemory
  <2> QED
    BY <2>1, <2>2, <2>3, <2>4, <2>5, <2>6, <2>7 DEF Next
<1> QED
  BY <1>1, <1>2, PutUnderWayInvariant, PTL DEF Spec

(***************************************************************************)
(* keys(), from which NkvCore::new rebuilds its trie after a restart,      *)
(* lists exactly the keys for which get finds a value: at any moment of a  *)
(* put, after a put that failed and after the end of the process.          *)
(***************************************************************************)
THEOREM KeysOfTheStorage ==
  ASSUME PathsNameKeys
  PROVE  Spec => []KeysAreListed
<1>1. ASSUME Routed PROVE KeysAreListed
  <2>1. ASSUME NEW key \in ListedKeys PROVE key \in Keys /\ Holds(key)
    <3>1. CASE key \in DOMAIN mem
      BY <1>1, <3>1 DEF Routed, Holds
    <3>2. ASSUME NEW path \in DOMAIN digest, key = PathToKey(path)
          PROVE  key \in Keys /\ Holds(key)
      <4>1. PICK k \in Keys : ~InMemory(k) /\ path = KeyToPath(k)
        BY <1>1 DEF Routed
      <4>2. key = k
        BY <3>2, <4>1, PathsNameKeys DEF PathsNameKeys
      <4> QED
        BY <4>1, <4>2 DEF Holds
    <3> QED
      BY <2>1, <3>1, <3>2 DEF ListedKeys
  <2>2. ASSUME NEW key \in Keys, Holds(key) PROVE key \in ListedKeys
    <3>1. CASE InMemory(key)
      BY <2>2, <3>1 DEF Holds, ListedKeys
    <3>2. CASE ~InMemory(key)
      <4>1. KeyToPath(key) \in DOMAIN digest /\ PathToKey(KeyToPath(key)) = key
        BY <2>2, <3>2, PathsNameKeys DEF Holds, PathsNameKeys
      <4> QED
        BY <4>1 DEF ListedKeys
    <3> QED
      BY <3>1, <3>2
  <2> QED
    BY <2>1, <2>2 DEF KeysAreListed
<1> QED
  BY <1>1, RoutedInvariant, PTL

=============================================================================
