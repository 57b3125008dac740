------------------------------ MODULE Storage -------------------------------
(***************************************************************************)
(* src/storage: RouterStorage, which sends a key to MemoryStorage or to    *)
(* FileStorage, and both of them.  NkvCore makes the calls one after       *)
(* another.  A put to a file is a sequence of system calls (atomic_write); *)
(* each may fail, and the process may end between any two of them.         *)
(*                                                                         *)
(* A key is the sequence of the segments between its dots.                 *)
(***************************************************************************)
EXTENDS Naturals, Sequences, Functions

CONSTANTS
  Keys,             \* the keys the methods are called with
  Values,           \* the values that are put
  EmptySegment,     \* the segment between two consecutive dots
  RuntimePrefixed,  \* every segment that starts with "runtime"
  Partial,          \* the content of a file that is not written to its end
  NoFile            \* no temporary file

ASSUME StorageAssumption == Partial \notin Values

VARIABLES
  mem,      \* MemoryStorage.storage: key -> value
  digest,   \* the files below digest/: path -> content
  temp,     \* the content of the put's temporary file, NoFile if there is none
  op        \* the process: [pc, key, value], see below

vars == <<mem, digest, temp, op>>

(***************************************************************************)
(* pc is "idle" between the calls, "write", "mkdir" and "rename" when that *)
(* is the next system call of a put, "down" when no process runs.          *)
(***************************************************************************)
At(pc) == [pc |-> pc, key |-> <<>>, value |-> NoFile]

\* The put goes on to its next system call.
Goes(pc) == op' = [pc |-> pc, key |-> op.key, value |-> op.value]

-----------------------------------------------------------------------------
(***************************************************************************)
(* key_to_path turns dots into slashes, and the file system reads several  *)
(* slashes as one; path_to_key turns single slashes back into dots.        *)
(***************************************************************************)
KeyToPath(key) ==
  SelectSeq(SubSeq(key, 1, Len(key) - 1), LAMBDA s : s # EmptySegment) \o <<key[Len(key)]>>

\* Faulty variant: the key is made from the name of the file alone.
PathToKeyName(path) == <<path[Len(path)]>>

PathToKey(path) == path

\* key.starts_with("runtime"): no dot in the prefix, so the first segment decides.
InMemory(key) == key[1] \in RuntimePrefixed

\* RouterStorage::keys
ListedKeys == DOMAIN mem \cup {PathToKey(path) : path \in DOMAIN digest}

\* The keys for which get finds a value, and that value.
Holds(key) == IF InMemory(key) THEN key \in DOMAIN mem ELSE KeyToPath(key) \in DOMAIN digest

Read(key) == IF InMemory(key) THEN mem[key] ELSE digest[KeyToPath(key)]

With(f, k, v) == [x \in DOMAIN f \cup {k} |-> IF x = k THEN v ELSE f[x]]

Without(f, k) == Restrict(f, DOMAIN f \ {k})

-----------------------------------------------------------------------------
\* FileStorage::new on an empty root directory.
Init == mem = <<>> /\ digest = <<>> /\ temp = NoFile /\ op = At("idle")

MemoryPut(key, value) ==
  /\ op.pc = "idle" /\ InMemory(key)
  /\ mem' = With(mem, key, value)
  /\ UNCHANGED <<digest, temp, op>>

MemoryDelete(key) ==
  /\ op.pc = "idle" /\ InMemory(key)
  /\ mem' = Without(mem, key)
  /\ UNCHANGED <<digest, temp, op>>

(***************************************************************************)
(* atomic_write: a temporary file in the root directory (not in ingest/),  *)
(* its content, the directories, the rename.                               *)
(***************************************************************************)
CreateTemp(key, value) ==
  /\ op.pc = "idle" /\ ~InMemory(key)
  /\ temp' = Partial
  /\ op' = [pc |-> "write", key |-> key, value |-> value]
  /\ UNCHANGED <<mem, digest>>

WriteAll ==
  /\ op.pc = "write"
  /\ temp' = op.value
  /\ Goes("mkdir")
  /\ UNCHANGED <<mem, digest>>

CreateDirs ==
  /\ op.pc = "mkdir"
  /\ Goes("rename")
  /\ UNCHANGED <<mem, digest, temp>>

Rename ==
  /\ op.pc = "rename"
  /\ digest' = With(digest, KeyToPath(op.key), temp)
  /\ temp' = NoFile
  /\ op' = At("idle")
  /\ UNCHANGED mem

\* Faulty variant: write_all fails on the file itself, which is then incomplete.
PutFailsInPlace ==
  /\ op.pc \in {"write", "mkdir", "rename"}
  /\ digest' = With(digest, KeyToPath(op.key), temp)
  /\ temp' = NoFile
  /\ op' = At("idle")
  /\ UNCHANGED mem

\* An error of any of these calls; dropping tmp_file removes the file.
PutFails ==
  /\ op.pc \in {"write", "mkdir", "rename"}
  /\ temp' = NoFile
  /\ op' = At("idle")
  /\ UNCHANGED <<mem, digest>>

FileDelete(key) ==
  /\ op.pc = "idle" /\ ~InMemory(key)
  /\ digest' = Without(digest, KeyToPath(key))
  /\ UNCHANGED <<mem, temp, op>>

-----------------------------------------------------------------------------
\* The process ends at any moment.  Its temporary file stays, and no process
\* looks at it again: the next put makes one of a new name.
ProcessEnds ==
  /\ op.pc # "down"
  /\ mem' = <<>>
  /\ temp' = NoFile
  /\ op' = At("down")
  /\ UNCHANGED digest

\* FileStorage::new empties ingest/, where no file ever is, and keeps digest/.
New ==
  /\ op.pc = "down"
  /\ op' = At("idle")
  /\ UNCHANGED <<mem, digest, temp>>

Next ==
  \/ \E key \in Keys :
       \/ MemoryDelete(key) \/ FileDelete(key)
       \/ \E value \in Values : MemoryPut(key, value) \/ CreateTemp(key, value)
  \/ WriteAll \/ CreateDirs \/ Rename \/ PutFails
  \/ ProcessEnds \/ New

Spec == Init /\ [][Next]_vars

-----------------------------------------------------------------------------
(***************************************************************************)
(* "allow saving files atomically, so there will be no corrupted files     *)
(* saved" (file_storage.rs:16): with any call of atomic_write failing and  *)
(* the process ending anywhere in it, a reader sees each put entirely or   *)
(* not at all, and a file outlives the process.                            *)
(***************************************************************************)
Stored == [key \in {k \in Keys : Holds(k)} |-> Read(key)]

Engine == INSTANCE StorageEngine WITH map <- Stored, Volatile <- {k \in Keys : InMemory(k)}

ImplementsEngine == Engine!Spec

(***************************************************************************)
(* keys() lists exactly the keys that get finds: "when restoring from file *)
(* system we need a way to tell nkv what are the keys available"           *)
(* (traits.rs:9-10), which are the keys under which values were stored.    *)
(***************************************************************************)
KeysAreListed == ListedKeys = {k \in Keys : Holds(k)}
=============================================================================
