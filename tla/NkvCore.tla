------------------------------ MODULE NkvCore -------------------------------
(***************************************************************************)
(* src/nkv.rs: the core that owns the storage, the trie of stored keys     *)
(* (objects) and the trie of subscriptions (notifiers).  Every method of   *)
(* NkvCore runs to completion under &mut self, so a method is one action.  *)
(* The two tries are represented by their contents (TrieProofs proves that *)
(* the nodes implement them).                                              *)
(*                                                                         *)
(* A subscription is an unbounded channel.  Its messages matter by what    *)
(* the receiver knows after reading all of them, so a channel is a record  *)
(*   alive   the receiver has not been dropped,                            *)
(*   told    the keys whose last message was an Update, with that value,   *)
(*   closed  a Close for the node it is subscribed at was sent.            *)
(* A Close for a key withdraws every key that it selects.  Hello carries   *)
(* nothing and is sent exactly when the channel is made.                   *)
(***************************************************************************)
EXTENDS KeySpace

CONSTANTS
  Keys,       \* the keys the methods are called with, wildcards included
  Malformed,  \* the keys is_key_correct refuses
  Uuids,      \* the clients that subscribe
  Values,     \* the values that are put
  Empty,      \* the empty byte string, which storage.get returns for no value
  Durable,    \* the keys whose storage engine outlives the process
  Drops,      \* BOOLEAN: receivers may be dropped while subscribed
  IOErrors    \* BOOLEAN: storage.put and storage.delete may fail

Segments == UNION {Range(key) : key \in Keys}

ASSUME KeysAssumption == Keys \subseteq Seq(Segments) \ {<<>>}
ASSUME EmptyAssumption == Empty \in Values
ASSUME FaultsAssumption == Drops \in BOOLEAN /\ IOErrors \in BOOLEAN

VARIABLES
  notifiers,  \* contents of the trie of Notifications: node -> subscribed uuids
  objects,    \* contents of the trie of storage keys
  storage,    \* the StorageEngine: key -> value
  chans,      \* the latest channel made for a node and a uuid
  reply       \* what the last method returned

vars == <<notifiers, objects, storage, chans, reply>>

DataKeys == {key \in Keys : ~HasWildcard(key)}

Slots == DataKeys \X Uuids

Channel == [alive : BOOLEAN, told : UNION {[S -> Values] : S \in SUBSET DataKeys}, closed : BOOLEAN]

Reply(op, key, ok, data) == reply' = [op |-> op, key |-> key, ok |-> ok, data |-> data]

-----------------------------------------------------------------------------
(* StorageEngine (traits.rs), as both engines implement it. *)

\* An absent key reads as the empty byte string.
StorageGet(key) == IF key \in DOMAIN storage THEN storage[key] ELSE Empty

StoragePut(key, value) ==
  storage' = [k \in DOMAIN storage \cup {key} |-> IF k = key THEN value ELSE storage[k]]

StorageDelete(S) == storage' = Restrict(storage, DOMAIN storage \ S)

-----------------------------------------------------------------------------
(* Notification: the channels of a node and the sends to them. *)

\* The channels registered at the nodes in S of the trie n.
ChansAt(n, S) == UNION {{<<d, u>> : u \in n[d]} : d \in S}

Live(C) == {c \in C : chans[c].alive}

AllLive(C) == \A c \in C : chans[c].alive

(***************************************************************************)
(* A loop that sends to the channels C of one node visits them in HashMap  *)
(* order and returns at the first dropped receiver: it has then reached    *)
(* any of the live ones.                                                   *)
(***************************************************************************)
Reached(C) == IF AllLive(C) THEN {C} ELSE SUBSET Live(C)

(***************************************************************************)
(* The loops of put and delete over the ancestors of the key go outermost  *)
(* first and return at the first node with a dropped receiver.             *)
(***************************************************************************)
PathReached(n, A) ==
  {C \in SUBSET Live(ChansAt(n, A)) :
     \A d \in A :
       LET mine == ChansAt(n, {d})
           above == ChansAt(n, {e \in A : Len(e) < Len(d)})
       IN IF AllLive(above)
            THEN C \cap mine \in Reached(mine)
            ELSE C \cap mine = {}}

\* Channel record c after an Update and after a Close, c being at node d.
Updated(c, key, value) ==
  [c EXCEPT !.told = [k \in DOMAIN @ \cup {key} |-> IF k = key THEN value ELSE @[k]]]

\* The Close of the own node is the last message; what was told before is history.
Closed(c, d, key) ==
  IF Selects(key, d)
    THEN [c EXCEPT !.told = <<>>, !.closed = TRUE]
    ELSE [c EXCEPT !.told = Restrict(@, {k \in DOMAIN @ : ~Selects(key, k)})]

SendUpdate(C, key, value) ==
  chans' = [c \in DOMAIN chans |-> IF c \in C THEN Updated(chans[c], key, value) ELSE chans[c]]

SendClose(C, key) ==
  chans' = [c \in DOMAIN chans |-> IF c \in C THEN Closed(chans[c], c[1], key) ELSE chans[c]]

\* unsubscribe_all drains the subscriptions of a node, even when it fails.
\* Faulty variant: Close is sent but the subscriptions stay.
DrainedNot(S) == notifiers

Drained(S) == [d \in DOMAIN notifiers |-> IF d \in S THEN {} ELSE notifiers[d]]

(***************************************************************************)
(* A walk over the nodes or keys S (collect_values) meets a parent before  *)
(* its children and siblings in HashMap order; done were met before last.  *)
(***************************************************************************)
MetBefore(S, done, last) ==
  /\ last \in S
  /\ done \subseteq S \ {last}
  /\ \A d \in done \cup {last}, e \in S : IsAncestorKey(e, d) => e \in done

-----------------------------------------------------------------------------
(* The methods. *)

\* NkvCore::new on an empty storage.
Init ==
  /\ notifiers = <<>>
  /\ objects = {}
  /\ storage = <<>>
  /\ chans = <<>>
  /\ reply = [op |-> "new", key |-> <<>>, ok |-> TRUE, data |-> {}]

\* put refuses wildcards and malformed keys before it touches anything.
\* Faulty variant: the test for wildcards is missing.
PutRejectedMalformed(key) == key \in Malformed

PutRejected(key) == HasWildcard(key) \/ key \in Malformed

PutRefused(key) ==
  /\ PutRejected(key)
  /\ Reply("put", key, FALSE, {})
  /\ UNCHANGED <<notifiers, objects, storage, chans>>

\* Faulty variant: the subscribers are told before the value is stored.
PutNotStoredTold(key) ==
  /\ IOErrors
  /\ ~PutRejected(key)
  /\ objects' = objects \cup {key}
  /\ \E value \in Values :
       SendUpdate(ChansAt(notifiers, Selected(DOMAIN notifiers, key)), key, value)
  /\ Reply("put", key, FALSE, {})
  /\ UNCHANGED <<notifiers, storage>>

\* The key enters objects before storage.put is tried.
PutNotStored(key) ==
  /\ IOErrors
  /\ ~PutRejected(key)
  /\ objects' = objects \cup {key}
  /\ Reply("put", key, FALSE, {})
  /\ UNCHANGED <<notifiers, storage, chans>>

(***************************************************************************)
(* The value is stored, then the node of the key is notified (a failure is *)
(* only logged), then its ancestors (a failure is returned).               *)
(***************************************************************************)
PutStored(key, value) ==
  LET exact == ChansAt(notifiers, Selected(DOMAIN notifiers, key))
      path == OnPath(DOMAIN notifiers, key)
  IN /\ ~PutRejected(key)
     /\ objects' = objects \cup {key}
     /\ StoragePut(key, value)
     /\ \E C \in Reached(exact), P \in PathReached(notifiers, path) :
          SendUpdate(C \cup P, key, value)
     /\ Reply("put", key, AllLive(ChansAt(notifiers, path)), {})
     /\ UNCHANGED notifiers

Put(key, value) == PutRefused(key) \/ PutNotStored(key) \/ PutStored(key, value)

\* Faulty variant: get ignores wildcards.
FoundExact(key) == {<<d, StorageGet(d)>> : d \in objects \cap {key}}

Found(key) == {<<d, StorageGet(d)>> : d \in Selected(objects, key)}

Get(key) ==
  /\ Reply("get", key, TRUE, Found(key))
  /\ UNCHANGED <<notifiers, objects, storage, chans>>

(***************************************************************************)
(* delete, first part: unsubscribe_all on every selected node, until one   *)
(* has a dropped receiver.                                                 *)
(***************************************************************************)
DeleteUnsubscribeFails(key) ==
  LET matched == Selected(DOMAIN notifiers, key)
  IN /\ \E done \in SUBSET matched, last \in matched :
          /\ MetBefore(matched, done, last)
          /\ AllLive(ChansAt(notifiers, done))
          /\ ~AllLive(ChansAt(notifiers, {last}))
          /\ notifiers' = Drained(done \cup {last})
          /\ \E C \in Reached(ChansAt(notifiers, {last})) :
               SendClose(ChansAt(notifiers, done) \cup C, key)
     /\ Reply("delete", key, FALSE, {})
     /\ UNCHANGED <<objects, storage>>

(***************************************************************************)
(* delete, second part: Close to the nodes on the path.  With a wildcard   *)
(* the node in front of it is on the path too, but it is drained by now.   *)
(***************************************************************************)
DeleteClosesSent(key, drained, path) ==
  LET matched == ChansAt(notifiers, Selected(DOMAIN notifiers, key))
  IN /\ AllLive(matched)
     /\ \E P \in PathReached(drained, path) : SendClose(matched \cup P, key)

DeletePathFails(key) ==
  LET drained == Drained(Selected(DOMAIN notifiers, key))
      path == OnPath(DOMAIN notifiers, key)
  IN /\ DeleteClosesSent(key, drained, path)
     /\ ~AllLive(ChansAt(drained, path))
     /\ notifiers' = drained
     /\ Reply("delete", key, FALSE, {})
     /\ UNCHANGED <<objects, storage>>

(***************************************************************************)
(* delete, third part: storage.delete on every selected object, until one  *)
(* fails: one that the storage does not hold always does.  Both tries are  *)
(* left as they are.                                                       *)
(***************************************************************************)
DeleteStorageFails(key) ==
  LET drained == Drained(Selected(DOMAIN notifiers, key))
      path == OnPath(DOMAIN notifiers, key)
      objs == Selected(objects, key)
  IN /\ DeleteClosesSent(key, drained, path)
     /\ AllLive(ChansAt(drained, path))
     /\ \E done \in SUBSET objs, last \in objs :
          /\ MetBefore(objs, done, last)
          /\ done \subseteq DOMAIN storage
          /\ IOErrors \/ last \notin DOMAIN storage
          /\ StorageDelete(done)
     /\ notifiers' = drained
     /\ Reply("delete", key, FALSE, {})
     /\ UNCHANGED objects

\* Faulty variant: the storage is cleared with remove's idea of the key and
\* objects with get's.
DeleteDoneSwapped(key) ==
  LET drained == Drained(Selected(DOMAIN notifiers, key))
      path == OnPath(DOMAIN notifiers, key)
  IN /\ DeleteClosesSent(key, drained, path)
     /\ AllLive(ChansAt(drained, path))
     /\ StorageDelete(objects \ Kept(objects, key))
     /\ notifiers' = Removed(drained, key)
     /\ objects' = objects \ Selected(objects, key)
     /\ Reply("delete", key, TRUE, {})

DeleteDone(key) ==
  LET drained == Drained(Selected(DOMAIN notifiers, key))
      path == OnPath(DOMAIN notifiers, key)
      objs == Selected(objects, key)
  IN /\ DeleteClosesSent(key, drained, path)
     /\ AllLive(ChansAt(drained, path))
     /\ objs \subseteq DOMAIN storage
     /\ StorageDelete(objs)
     /\ notifiers' = Removed(drained, key)
     /\ objects' = Kept(objects, key)
     /\ Reply("delete", key, TRUE, {})

Delete(key) ==
  \/ DeleteUnsubscribeFails(key)
  \/ DeletePathFails(key)
  \/ DeleteStorageFails(key)
  \/ DeleteDone(key)

-----------------------------------------------------------------------------
\* A fresh channel: Hello, then the values that get returns for the key.
NewChannel(key) ==
  [alive |-> TRUE,
   told |-> [d \in Selected(objects, key) |-> StorageGet(d)],
   closed |-> FALSE]

Registered(n, d, uuid) == [e \in DOMAIN n \cup {d} |->
                             IF e # d THEN n[e]
                             ELSE IF d \in DOMAIN n THEN n[d] \cup {uuid} ELSE {uuid}]

Joined(key, d, uuid) ==
  /\ notifiers' = Registered(notifiers, d, uuid)
  /\ chans' = [c \in DOMAIN chans \cup {<<d, uuid>>} |->
                 IF c = <<d, uuid>> THEN NewChannel(key) ELSE chans[c]]
  /\ Reply("subscribe", key, TRUE, {})

(***************************************************************************)
(* subscribe joins the one node that the key selects, or makes it.  With a *)
(* wildcard, the new node is refused by the trie and that goes unnoticed:  *)
(* the caller holds a channel that nobody sends to.  Two selected nodes,   *)
(* or a uuid that is subscribed already, are errors.                       *)
(***************************************************************************)
SubscribeNew(key, uuid) ==
  /\ Selected(DOMAIN notifiers, key) = {}
  /\ ~HasWildcard(key)
  /\ Joined(key, key, uuid)
  /\ UNCHANGED <<objects, storage>>

SubscribeDetached(key, uuid) ==
  /\ Selected(DOMAIN notifiers, key) = {}
  /\ HasWildcard(key)
  /\ Reply("subscribe", key, TRUE, {})
  /\ UNCHANGED <<notifiers, objects, storage, chans>>

SubscribeJoin(key, d, uuid) ==
  /\ Selected(DOMAIN notifiers, key) = {d}
  /\ uuid \notin notifiers[d]
  /\ Joined(key, d, uuid)
  /\ UNCHANGED <<objects, storage>>

SubscribeRefused(key, uuid) ==
  LET matched == Selected(DOMAIN notifiers, key)
  IN /\ matched # {}
     /\ \A d \in matched : matched = {d} => uuid \in notifiers[d]
     /\ Reply("subscribe", key, FALSE, {})
     /\ UNCHANGED <<notifiers, objects, storage, chans>>

Subscribe(key, uuid) ==
  \/ SubscribeNew(key, uuid)
  \/ SubscribeDetached(key, uuid)
  \/ \E d \in DOMAIN notifiers : SubscribeJoin(key, d, uuid)
  \/ SubscribeRefused(key, uuid)

(***************************************************************************)
(* unsubscribe needs exactly one selected node; a uuid that is not         *)
(* subscribed there is no error.  The uuid is removed before Close is      *)
(* sent, so also when the receiver is gone.                                *)
(***************************************************************************)
UnsubscribeFrom(key, d, uuid) ==
  LET mine == ChansAt(notifiers, {d}) \cap {<<d, uuid>>}
  IN /\ Selected(DOMAIN notifiers, key) = {d}
     /\ notifiers' = [notifiers EXCEPT ![d] = @ \ {uuid}]
     /\ SendClose(Live(mine), key)
     /\ Reply("unsubscribe", key, AllLive(mine), {})
     /\ UNCHANGED <<objects, storage>>

UnsubscribeNotFound(key) ==
  LET matched == Selected(DOMAIN notifiers, key)
  IN /\ \A d \in matched : matched # {d}
     /\ Reply("unsubscribe", key, FALSE, {})
     /\ UNCHANGED <<notifiers, objects, storage, chans>>

Unsubscribe(key, uuid) ==
  \/ \E d \in DOMAIN notifiers : UnsubscribeFrom(key, d, uuid)
  \/ UnsubscribeNotFound(key)

Traced(key) ==
  UNION {notifiers[d] : d \in Selected(DOMAIN notifiers, key) \cup OnPath(DOMAIN notifiers, key)}

Trace(key) ==
  /\ Reply("trace", key, TRUE, Traced(key))
  /\ UNCHANGED <<notifiers, objects, storage, chans>>

-----------------------------------------------------------------------------
(* The environment. *)

\* The holder of a subscription drops its receiver.
DropReceiver(d, uuid) ==
  /\ Drops
  /\ d \in DOMAIN notifiers /\ uuid \in notifiers[d]
  /\ chans[<<d, uuid>>].alive
  /\ chans' = [chans EXCEPT ![<<d, uuid>>] = [@ EXCEPT !.alive = FALSE, !.told = <<>>]]
  /\ Reply("drop", d, TRUE, {})
  /\ UNCHANGED <<notifiers, objects, storage>>

(***************************************************************************)
(* The process ends, and NkvCore::new runs on the storage it left: objects *)
(* is rebuilt from storage.keys(), every channel is gone.                  *)
(***************************************************************************)
Restart ==
  /\ storage' = Restrict(storage, DOMAIN storage \cap Durable)
  /\ objects' = DOMAIN storage'
  /\ notifiers' = <<>>
  /\ chans' = <<>>
  /\ Reply("restart", <<>>, TRUE, {})

Next ==
  \/ \E key \in Keys :
       \/ \E value \in Values : Put(key, value)
       \/ Get(key)
       \/ Delete(key)
       \/ Trace(key)
       \/ \E uuid \in Uuids :
            Subscribe(key, uuid) \/ Unsubscribe(key, uuid) \/ DropReceiver(key, uuid)
  \/ Restart

Spec == Init /\ [][Next]_vars

-----------------------------------------------------------------------------
(* Properties. *)

IsRegistered(c) == c[1] \in DOMAIN notifiers /\ c[2] \in notifiers[c[1]]

Subscribers == {c \in DOMAIN chans : IsRegistered(c)}

\* The shapes of the two tries, the storage, the channels and the reply.
TypeOK ==
  /\ DOMAIN notifiers \subseteq DataKeys
  /\ notifiers \in [DOMAIN notifiers -> SUBSET Uuids]
  /\ objects \subseteq DataKeys
  /\ DOMAIN storage \subseteq DataKeys
  /\ storage \in [DOMAIN storage -> Values]
  /\ DOMAIN chans \subseteq Slots
  /\ chans \in [DOMAIN chans -> Channel]
  /\ reply.ok \in BOOLEAN

(***************************************************************************)
(* Every stored key is in objects: nothing can be stored and yet be out of *)
(* reach of get and delete.  put inserts into objects first, and delete    *)
(* removes from the storage with get's idea of the key and from objects    *)
(* with remove's, in that order, with errors in between.                   *)
(***************************************************************************)
StorageIndexed == DOMAIN storage \subseteq objects

(***************************************************************************)
(* A receiver that got the Close of its own node is not subscribed any     *)
(* more: whichever of delete, its failures and unsubscribe sent it.        *)
(***************************************************************************)
CloseEndsSubscription == \A c \in Subscribers : ~chans[c].closed

(***************************************************************************)
(* As long as nobody drops a receiver, no subscription ends without a      *)
(* Close to its receiver: delete drains the nodes it selects before it     *)
(* removes them, and remove drops no other node.                           *)
(***************************************************************************)
NoSilentUnsubscribe ==
  \A c \in DOMAIN chans : chans[c].closed \/ IsRegistered(c)

(***************************************************************************)
(* "nkv clients recieve latest state": a subscriber that has read its      *)
(* channel knows, of every key at or below its node that it was told of,   *)
(* the value that a get returns now, and it was told of its own key if     *)
(* that is stored: through failed puts, failed deletes, deletes with       *)
(* wildcards and resubscription, as long as nobody drops a receiver.       *)
(***************************************************************************)
SubscriberSeesLatest ==
  \A c \in Subscribers :
    LET d == c[1]
        told == chans[c].told
    IN /\ \A k \in DOMAIN told : IsPrefixKey(d, k) => told[k] = StorageGet(k)
       /\ d \in DOMAIN storage => d \in DOMAIN told

(***************************************************************************)
(* "whole path will be notified" (docs/KEYSPACE.md): a put that answers Ok *)
(* has reached every subscriber on the path of its key that still listens. *)
(***************************************************************************)
AckedPutReachesPath ==
  reply.op = "put" /\ reply.ok =>
    \A c \in Subscribers :
      chans[c].alive /\ IsPrefixKey(c[1], reply.key)
        => reply.key \in DOMAIN chans[c].told /\ chans[c].told[reply.key] = storage[reply.key]

(***************************************************************************)
(* A delete that answers Ok leaves no stored key and no subscription that  *)
(* its key selects, and no subscriber above that still believes in one.    *)
(***************************************************************************)
AckedDeleteIsComplete ==
  reply.op = "delete" /\ reply.ok =>
    /\ Selected(DOMAIN storage, reply.key) = {}
    /\ \A d \in Selected(DOMAIN notifiers, reply.key) : notifiers[d] = {}
    /\ \A c \in Subscribers :
         \A k \in Selected(DOMAIN chans[c].told, reply.key) : ~IsPrefixKey(c[1], k)

\* As far as the data goes, NkvCore is the map that KVStore describes.
Store == INSTANCE KVStore WITH db <- storage, answer <- reply

ImplementsKVStore == Store!Spec
=============================================================================
