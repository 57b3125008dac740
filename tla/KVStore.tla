------------------------------ MODULE KVStore -------------------------------
(***************************************************************************)
(* What NkvCore promises its callers about the data alone: a map from keys *)
(* to values that put, get and delete act on atomically, in which an       *)
(* operation that answers with an error may have done part of its work.    *)
(***************************************************************************)
EXTENDS KeySpace

CONSTANTS Keys, Values, Empty, Durable

VARIABLES
  db,      \* the stored values
  answer   \* what the last call returned: [op, key, ok, data]

vars == <<db, answer>>

StoreOps == {"put", "get", "delete", "restart"}

Init == db = <<>> /\ answer.op \notin StoreOps

\* An acknowledged put stores the value; a failed one stores it or does nothing.
Put(key, value) ==
  /\ answer'.op = "put" /\ answer'.key = key
  /\ \/ db' = Inserted(db, key, value)
     \/ ~answer'.ok /\ UNCHANGED db

(***************************************************************************)
(* An acknowledged delete removes every key that its key selects; a failed *)
(* one some of them, and no other key.                                     *)
(***************************************************************************)
Delete(key) ==
  /\ answer'.op = "delete" /\ answer'.key = key
  /\ \E gone \in SUBSET Selected(DOMAIN db, key) :
       /\ db' = Restrict(db, DOMAIN db \ gone)
       /\ answer'.ok => gone = Selected(DOMAIN db, key)

(***************************************************************************)
(* get returns every selected key with its value.  It may add selected     *)
(* keys that hold nothing, with the empty value.                           *)
(***************************************************************************)
Get(key) ==
  LET found == {<<d, db[d]>> : d \in Selected(DOMAIN db, key)}
  IN /\ answer'.op = "get" /\ answer'.key = key
     /\ found \subseteq answer'.data
     /\ answer'.data \ found \subseteq
          {<<d, Empty>> : d \in Selected(Keys, key) \ DOMAIN db}
     /\ UNCHANGED db

\* A new process on the same storage: what is kept only in memory is gone.
Restart ==
  /\ answer'.op = "restart"
  /\ db' = Restrict(db, DOMAIN db \cap Durable)

\* Subscriptions and tracing never touch the data.
Other == answer'.op \notin StoreOps /\ UNCHANGED db

Next ==
  \/ \E key \in Keys :
       Get(key) \/ Delete(key) \/ \E value \in Values : Put(key, value)
  \/ Restart
  \/ Other

Spec == Init /\ [][Next]_vars
=============================================================================
