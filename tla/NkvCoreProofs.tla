--------------------------- MODULE NkvCoreProofs ----------------------------
(***************************************************************************)
(* Proofs about NkvCore, for every set of keys, clients and values and     *)
(* with every fault switched on or off.                                    *)
(***************************************************************************)
EXTENDS NkvCore, TLAPS

(***************************************************************************)
(* A key that remove drops from a trie is one that get selects: the walk   *)
(* of remove matches every segment up to the first "*" like get does, and  *)
(* all of them when there is none.                                         *)
(***************************************************************************)
LEMMA RemovesSelected ==
  ASSUME NEW key \in Keys, NEW d \in Keys, Removes(key, d)
  PROVE  Selects(key, d)
<1> DEFINE n == Len(key)
<1>1. /\ key \in Seq(Segments) /\ d \in Seq(Segments)
      /\ n \in Nat \ {0} /\ Len(d) \in Nat
  BY KeysAssumption
<1>2. CASE WalkStops(key)
  <2> SUFFICES ASSUME NEW i \in 1..n, \A j \in 1..i : key[j] # Wildcard
               PROVE  i <= Len(d) /\ d[i] = key[i]
    BY <1>2 DEF Selects
  <2>1. key[i] # Wildcard
    BY <1>1
  <2>2. CASE key[n] = Wildcard
    <3>1. i \in 1..(n - 1)
      BY <1>1, <2>1, <2>2
    <3>2. Len(d) >= n - 1 /\ key[i] \in {Wildcard, d[i]}
      BY <2>2, <3>1 DEF Removes
    <3> QED
      BY <1>1, <2>1, <3>1, <3>2
  <2>3. CASE key[n] # Wildcard
    <3>1. Len(d) = n /\ key[i] \in {Wildcard, d[i]}
      BY <2>3 DEF Removes
    <3> QED
      BY <1>1, <2>1, <3>1
  <2> QED
    BY <2>2, <2>3
<1>3. CASE ~WalkStops(key)
  <2>1. \A i \in 1..n : key[i] # Wildcard
    BY <1>3 DEF WalkStops
  <2>2. Len(d) = n /\ \A i \in 1..n : key[i] \in {Wildcard, d[i]}
    BY <1>1, <2>1 DEF Removes
  <2>3. d = key
    BY <1>1, <2>1, <2>2
  <2> QED
    BY <1>3, <2>3 DEF Selects
<1> QED
  BY <1>2, <1>3

-----------------------------------------------------------------------------
(* What the sends do to the channels. *)

\* An Update makes a channel record into a channel record.
LEMMA UpdatedType ==
  ASSUME NEW c \in Channel, NEW key \in DataKeys, NEW value \in Values
  PROVE  Updated(c, key, value) \in Channel
<1> DEFINE T == UNION {[S -> Values] : S \in SUBSET DataKeys}
           told == [k \in DOMAIN c.told \cup {key} |-> IF k = key THEN value ELSE c.told[k]]
<1>1. c.told \in T
  BY DEF Channel
<1>2. PICK S \in SUBSET DataKeys : c.told \in [S -> Values]
  BY <1>1
<1>3. told \in [S \cup {key} -> Values] /\ S \cup {key} \in SUBSET DataKeys
  BY <1>2
<1>4. told \in T
  BY <1>3
<1> QED
  BY <1>4 DEF Updated, Channel

\* So does a Close, of the own node or of another.
LEMMA ClosedType ==
  ASSUME NEW c \in Channel, NEW d, NEW key
  PROVE  Closed(c, d, key) \in Channel
<1> DEFINE T == UNION {[S -> Values] : S \in SUBSET DataKeys}
           told == Restrict(c.told, {k \in DOMAIN c.told : ~Selects(key, k)})
<1>1. c.told \in T
  BY DEF Channel
<1>2. PICK S \in SUBSET DataKeys : c.told \in [S -> Values]
  BY <1>1
<1>3. told \in [{k \in S : ~Selects(key, k)} -> Values]
  BY <1>2 DEF Restrict
<1>4. told \in T
  BY <1>3
<1>5. <<>> \in T
  <2>1. <<>> \in [{} -> Values]
    OBVIOUS
  <2> QED
    BY <2>1
<1> QED
  BY <1>4, <1>5 DEF Closed, Channel

ChansOK == DOMAIN chans \subseteq Slots /\ chans \in [DOMAIN chans -> Channel]

\* send_update keeps the channels well formed and makes none.
LEMMA SendUpdateType ==
  ASSUME ChansOK, NEW C, NEW key \in DataKeys, NEW value \in Values, SendUpdate(C, key, value)
  PROVE  ChansOK' /\ DOMAIN chans' = DOMAIN chans
BY UpdatedType DEF ChansOK, SendUpdate

\* So does send_close.
LEMMA SendCloseType ==
  ASSUME ChansOK, NEW C, NEW key, SendClose(C, key)
  PROVE  ChansOK' /\ DOMAIN chans' = DOMAIN chans
BY ClosedType DEF ChansOK, SendClose

\* The channel that subscribe makes holds values of the storage, or the empty one.
LEMMA NewChannelType ==
  ASSUME objects \subseteq DataKeys, storage \in [DOMAIN storage -> Values], NEW key
  PROVE  NewChannel(key) \in Channel
<1> DEFINE told == [d \in Selected(objects, key) |-> StorageGet(d)]
<1>1. Selected(objects, key) \in SUBSET DataKeys
  BY DEF Selected
<1>2. \A d \in Selected(objects, key) : StorageGet(d) \in Values
  BY EmptyAssumption DEF StorageGet
<1>3. told \in [Selected(objects, key) -> Values]
  BY <1>2
<1> QED
  BY <1>1, <1>3 DEF NewChannel, Channel

\* Draining nodes keeps the shape of the trie of subscriptions.
LEMMA DrainedType ==
  ASSUME NEW S, notifiers \in [DOMAIN notifiers -> SUBSET Uuids]
  PROVE  Drained(S) \in [DOMAIN notifiers -> SUBSET Uuids]
BY DEF Drained

\* Every step keeps the shapes.
LEMMA TypeStep ==
  ASSUME TypeOK, [Next]_vars
  PROVE  TypeOK'
<1> USE DEF TypeOK, DataKeys
<1>0. ChansOK
  BY DEF ChansOK
<1>1. ASSUME NEW key \in Keys, PutRefused(key) PROVE TypeOK'
  BY <1>1 DEF PutRefused, Reply
<1>2. ASSUME NEW key \in Keys, PutNotStored(key) PROVE TypeOK'
  BY <1>2 DEF PutNotStored, PutRejected, Reply
<1>3. ASSUME NEW key \in Keys, NEW value \in Values, PutStored(key, value) PROVE TypeOK'
  <2>1. key \in DataKeys
    BY <1>3 DEF PutStored, PutRejected
  <2>2. PICK C : SendUpdate(C, key, value)
    BY <1>3 DEF PutStored
  <2>3. ChansOK'
    BY <1>0, <2>1, <2>2, SendUpdateType
  <2>4. DOMAIN storage' \subseteq DataKeys /\ storage' \in [DOMAIN storage' -> Values]
    BY <1>3, <2>1 DEF PutStored, StoragePut
  <2>5. reply'.ok \in BOOLEAN
    BY <1>3 DEF PutStored, Reply, AllLive
  <2> QED
    BY <1>3, <2>1, <2>3, <2>4, <2>5 DEF PutStored, ChansOK
<1>4. ASSUME NEW key \in Keys, Get(key) PROVE TypeOK'
  BY <1>4 DEF Get, Reply
<1>5. ASSUME NEW key \in Keys, DeleteUnsubscribeFails(key) PROVE TypeOK'
  <2>1. PICK S, C : notifiers' = Drained(S) /\ SendClose(C, key)
    BY <1>5 DEF DeleteUnsubscribeFails
  <2>2. ChansOK'
    BY <1>0, <2>1, SendCloseType
  <2> QED
    BY <1>5, <2>1, <2>2, DrainedType DEF DeleteUnsubscribeFails, Reply, ChansOK
<1>6. ASSUME NEW key \in Keys, DeletePathFails(key) PROVE TypeOK'
  <2>1. PICK C : SendClose(C, key)
    BY <1>6 DEF DeletePathFails, DeleteClosesSent
  <2>2. ChansOK'
    BY <1>0, <2>1, SendCloseType
  <2> QED
    BY <1>6, <2>2, DrainedType DEF DeletePathFails, Reply, ChansOK
<1>7. ASSUME NEW key \in Keys, DeleteStorageFails(key) PROVE TypeOK'
  <2>1. PICK C : SendClose(C, key)
    BY <1>7 DEF DeleteStorageFails, DeleteClosesSent
  <2>2. ChansOK'
    BY <1>0, <2>1, SendCloseType
  <2>3. PICK S : storage' = Restrict(storage, DOMAIN storage \ S)
    BY <1>7 DEF DeleteStorageFails, StorageDelete
  <2> QED
    BY <1>7, <2>2, <2>3, DrainedType DEF DeleteStorageFails, Reply, ChansOK, Restrict
<1>8. ASSUME NEW key \in Keys, DeleteDone(key) PROVE TypeOK'
  <2>1. PICK C : SendClose(C, key)
    BY <1>8 DEF DeleteDone, DeleteClosesSent
  <2>2. ChansOK'
    BY <1>0, <2>1, SendCloseType
  <2>3. PICK S : storage' = Restrict(storage, DOMAIN storage \ S)
    BY <1>8 DEF DeleteDone, StorageDelete
  <2>4. notifiers' = Removed(Drained(Selected(DOMAIN notifiers, key)), key)
    BY <1>8 DEF DeleteDone
  <2>5. /\ DOMAIN notifiers' \subseteq DataKeys
        /\ notifiers' \in [DOMAIN notifiers' -> SUBSET Uuids]
    BY <2>4, DrainedType DEF Removed, Kept, Restrict
  <2>6. objects' \subseteq DataKeys
    BY <1>8 DEF DeleteDone, Kept
  <2> QED
    BY <1>8, <2>2, <2>3, <2>5, <2>6 DEF DeleteDone, Reply, ChansOK, Restrict
<1>9. ASSUME NEW key \in Keys, NEW d \in DataKeys, NEW uuid \in Uuids, Joined(key, d, uuid),
             UNCHANGED <<objects, storage>>
      PROVE TypeOK'
  <2>1. NewChannel(key) \in Channel
    BY NewChannelType
  <2>2. ChansOK'
    BY <1>9, <1>0, <2>1 DEF Joined, ChansOK, Slots
  <2>3. /\ DOMAIN notifiers' \subseteq DataKeys
        /\ notifiers' \in [DOMAIN notifiers' -> SUBSET Uuids]
    BY <1>9 DEF Joined, Registered
  <2> QED
    BY <1>9, <2>2, <2>3 DEF Joined, Reply, ChansOK
<1>10. ASSUME NEW key \in Keys, NEW uuid \in Uuids, Subscribe(key, uuid) PROVE TypeOK'
  <2>1. CASE SubscribeNew(key, uuid)
    BY <1>9, <2>1 DEF SubscribeNew
  <2>2. CASE SubscribeDetached(key, uuid)
    BY <2>2 DEF SubscribeDetached, Reply
  <2>3. ASSUME NEW d \in DOMAIN notifiers, SubscribeJoin(key, d, uuid) PROVE TypeOK'
    BY <1>9, <2>3 DEF SubscribeJoin
  <2>4. CASE SubscribeRefused(key, uuid)
    BY <2>4 DEF SubscribeRefused, Reply
  <2> QED
    BY <1>10, <2>1, <2>2, <2>3, <2>4 DEF Subscribe
<1>11. ASSUME NEW key \in Keys, NEW uuid \in Uuids, Unsubscribe(key, uuid) PROVE TypeOK'
  <2>1. ASSUME NEW d \in DOMAIN notifiers, UnsubscribeFrom(key, d, uuid) PROVE TypeOK'
    <3>1. ChansOK'
      BY <1>0, <2>1, SendCloseType DEF UnsubscribeFrom
    <3>2. /\ DOMAIN notifiers' = DOMAIN notifiers
          /\ notifiers' \in [DOMAIN notifiers -> SUBSET Uuids]
      BY <2>1 DEF UnsubscribeFrom
    <3> QED
      BY <2>1, <3>1, <3>2 DEF UnsubscribeFrom, Reply, AllLive, ChansOK
  <2>2. CASE UnsubscribeNotFound(key)
    BY <2>2 DEF UnsubscribeNotFound, Reply
  <2> QED
    BY <1>11, <2>1, <2>2 DEF Unsubscribe
<1>12. ASSUME NEW key \in Keys, Trace(key) PROVE TypeOK'
  BY <1>12 DEF Trace, Reply
<1>13. ASSUME NEW key \in Keys, NEW uuid \in Uuids, DropReceiver(key, uuid) PROVE TypeOK'
  <2> DEFINE c == <<key, uuid>>
  <2>2. <<>> \in [{} -> Values]
    OBVIOUS
  <2>3. \A ch \in Channel : [ch EXCEPT !.alive = FALSE, !.told = <<>>] \in Channel
    BY <2>2 DEF Channel
  <2>4. chans' = [chans EXCEPT ![c] = [chans[c] EXCEPT !.alive = FALSE, !.told = <<>>]]
    BY <1>13 DEF DropReceiver
  <2>5. ChansOK'
    BY <1>0, <2>3, <2>4 DEF ChansOK
  <2> QED
    BY <1>13, <2>5 DEF DropReceiver, Reply, ChansOK
<1>14. ASSUME Restart PROVE TypeOK'
  BY <1>14 DEF Restart, Reply, Restrict
<1>15. ASSUME UNCHANGED vars PROVE TypeOK'
  BY <1>15 DEF vars
<1> QED
  BY <1>1, <1>2, <1>3, <1>4, <1>5, <1>6, <1>7, <1>8, <1>10, <1>11, <1>12, <1>13,
     <1>14, <1>15 DEF Next, Put, Delete

-----------------------------------------------------------------------------
\* Every behaviour of NkvCore keeps the shapes of its tries, storage and channels.
THEOREM TypeCorrect == Spec => []TypeOK
<1>1. Init => TypeOK
  BY DEF Init, TypeOK
<1>2. TypeOK /\ [Next]_vars => TypeOK'
  BY TypeStep
<1> QED
  BY <1>1, <1>2, PTL DEF Spec

\* Every step keeps the stored keys in objects.
LEMMA IndexStep ==
  ASSUME TypeOK, StorageIndexed, [Next]_vars
  PROVE  StorageIndexed'
<1> USE DEF StorageIndexed
<1>1. ASSUME NEW key \in Keys, NEW value \in Values, Put(key, value) PROVE StorageIndexed'
  BY <1>1 DEF Put, PutRefused, PutNotStored, PutStored, StoragePut
<1>2. ASSUME NEW key \in Keys, DeleteStorageFails(key) PROVE StorageIndexed'
  BY <1>2 DEF DeleteStorageFails, StorageDelete, Restrict
<1>3. ASSUME NEW key \in Keys, DeleteDone(key) PROVE StorageIndexed'
  <2>1. DOMAIN storage' = DOMAIN storage \ Selected(objects, key)
    BY <1>3 DEF DeleteDone, StorageDelete, Restrict
  <2>2. objects' = {d \in objects : ~Removes(key, d)}
    BY <1>3 DEF DeleteDone, Kept
  <2>3. \A d \in objects : Removes(key, d) => d \in Selected(objects, key)
    BY RemovesSelected DEF TypeOK, DataKeys, Selected
  <2> QED
    BY <2>1, <2>2, <2>3
<1>4. ASSUME NEW key \in Keys, Delete(key) PROVE StorageIndexed'
  BY <1>4, <1>2, <1>3 DEF Delete, DeleteUnsubscribeFails, DeletePathFails
<1>5. ASSUME NEW key \in Keys, NEW uuid \in Uuids, Subscribe(key, uuid) PROVE StorageIndexed'
  BY <1>5 DEF Subscribe, SubscribeNew, SubscribeDetached, SubscribeJoin, SubscribeRefused
<1>6. ASSUME NEW key \in Keys, NEW uuid \in Uuids, Unsubscribe(key, uuid) PROVE StorageIndexed'
  BY <1>6 DEF Unsubscribe, UnsubscribeFrom, UnsubscribeNotFound
<1>7. ASSUME Restart PROVE StorageIndexed'
  BY <1>7 DEF Restart
<1> QED
  BY <1>1, <1>4, <1>5, <1>6, <1>7 DEF Next, Get, Trace, DropReceiver, vars

-----------------------------------------------------------------------------
(***************************************************************************)
(* No stored key is ever out of reach of get and delete, whatever fails.   *)
(* The only step that shrinks objects is a delete that went through, and   *)
(* RemovesSelected says that it has deleted from the storage all it drops. *)
(***************************************************************************)
THEOREM StorageIsIndexed == Spec => []StorageIndexed
<1>1. Init => StorageIndexed
  BY DEF Init, StorageIndexed
<1>2. TypeOK /\ StorageIndexed /\ [Next]_vars => StorageIndexed'
  BY IndexStep
<1> QED
  BY <1>1, <1>2, TypeCorrect, PTL DEF Spec

-----------------------------------------------------------------------------
(***************************************************************************)
(* A Close goes to channels of selected nodes, which are drained in the    *)
(* same step, and to channels still registered on the path, whose nodes    *)
(* are then not selected: the node in front of a wildcard is both, and is  *)
(* drained first.                                                          *)
(***************************************************************************)
LEMMA SendCloseKeepsOpen ==
  ASSUME NEW C, NEW key, SendClose(C, key), NEW c \in DOMAIN chans,
         ~chans[c].closed, c \in C => ~Selects(key, c[1]), chans \in [DOMAIN chans -> Channel]
  PROVE  ~chans'[c].closed
BY DEF SendClose, Closed, Channel

\* An Update closes no channel.
LEMMA SendUpdateKeepsOpen ==
  ASSUME NEW C, NEW key, NEW value, SendUpdate(C, key, value), NEW c \in DOMAIN chans,
         ~chans[c].closed, chans \in [DOMAIN chans -> Channel]
  PROVE  ~chans'[c].closed
BY DEF SendUpdate, Updated, Channel

\* The inductive form of CloseEndsSubscription: every registered uuid has a
\* channel, and that channel has not been closed.
Open == \A d \in DOMAIN notifiers : \A u \in notifiers[d] :
          <<d, u>> \in DOMAIN chans /\ ~chans[<<d, u>>].closed

(***************************************************************************)
(* A Close to nodes that are drained, or that the key does not select,     *)
(* leaves the remaining subscriptions open.                                *)
(***************************************************************************)
LEMMA DrainedStaysOpen ==
  ASSUME TypeOK, Open, NEW key, NEW S, NEW n, NEW C, SendClose(C, key), n = Drained(S),
         \A d \in DOMAIN notifiers \ S : \A u \in notifiers[d] :
           <<d, u>> \in C => ~Selects(key, d)
  PROVE  \A d \in DOMAIN n : \A u \in n[d] :
           <<d, u>> \in DOMAIN chans' /\ ~chans'[<<d, u>>].closed
<1> SUFFICES ASSUME NEW d \in DOMAIN n, NEW u \in n[d]
             PROVE  <<d, u>> \in DOMAIN chans' /\ ~chans'[<<d, u>>].closed
  OBVIOUS
<1>1. d \in DOMAIN notifiers \ S /\ u \in notifiers[d]
  BY DEF Drained
<1>2. <<d, u>> \in DOMAIN chans /\ ~chans[<<d, u>>].closed
  BY <1>1 DEF Open
<1>3. DOMAIN chans' = DOMAIN chans
  BY DEF SendClose
<1>4. <<d, u>> \in C => ~Selects(key, <<d, u>>[1])
  BY <1>1
<1> QED
  BY <1>2, <1>3, <1>4, SendCloseKeepsOpen DEF TypeOK

\* The Close messages of delete close no channel of a node outside its key.
LEMMA ClosesSentOpen ==
  ASSUME TypeOK, Open, NEW key,
         DeleteClosesSent(key, Drained(Selected(DOMAIN notifiers, key)), OnPath(DOMAIN notifiers, key))
  PROVE  \A d \in DOMAIN notifiers \ Selected(DOMAIN notifiers, key) : \A u \in notifiers[d] :
           <<d, u>> \in DOMAIN chans' /\ ~chans'[<<d, u>>].closed
<1> DEFINE S == Selected(DOMAIN notifiers, key)
           M == ChansAt(notifiers, S)
<1>1. PICK P : SendClose(M \cup P, key)
  BY DEF DeleteClosesSent
<1>2. \A d \in DOMAIN notifiers \ S : ~Selects(key, d)
  BY DEF Selected
<1>3. \A d \in DOMAIN Drained(S) : \A u \in Drained(S)[d] :
        <<d, u>> \in DOMAIN chans' /\ ~chans'[<<d, u>>].closed
  BY <1>1, <1>2, DrainedStaysOpen
<1> QED
  BY <1>3 DEF Drained

\* Every step leaves the registered channels open.
LEMMA OpenStep ==
  ASSUME TypeOK, TypeOK', Open, [Next]_vars
  PROVE  Open'
<1>1. ASSUME NEW key \in Keys, NEW value \in Values, PutStored(key, value) PROVE Open'
  <2>1. PICK C : SendUpdate(C, key, value)
    BY <1>1 DEF PutStored
  <2>2. notifiers' = notifiers /\ DOMAIN chans' = DOMAIN chans
    BY <1>1, <2>1 DEF PutStored, SendUpdate
  <2> QED
    BY <2>1, <2>2, SendUpdateKeepsOpen DEF Open, TypeOK
<1>2. ASSUME NEW key \in Keys, DeleteUnsubscribeFails(key) PROVE Open'
  <2> DEFINE matched == Selected(DOMAIN notifiers, key)
  <2>1. PICK done \in SUBSET matched, last \in matched :
          /\ notifiers' = Drained(done \cup {last})
          /\ \E C \in Reached(ChansAt(notifiers, {last})) :
               SendClose(ChansAt(notifiers, done) \cup C, key)
    BY <1>2 DEF DeleteUnsubscribeFails
  <2>2. PICK C \in Reached(ChansAt(notifiers, {last})) :
          SendClose(ChansAt(notifiers, done) \cup C, key)
    BY <2>1
  <2>3. C \subseteq ChansAt(notifiers, {last})
    BY DEF Reached, Live
  <2>4. \A d \in DOMAIN notifiers \ (done \cup {last}) : \A u \in notifiers[d] :
          <<d, u>> \notin ChansAt(notifiers, done) \cup C
    BY <2>3 DEF ChansAt
  <2> QED
    BY <2>1, <2>2, <2>4, DrainedStaysOpen DEF Open
<1>3. ASSUME NEW key \in Keys, DeletePathFails(key) \/ DeleteStorageFails(key) PROVE Open'
  <2>1. notifiers' = Drained(Selected(DOMAIN notifiers, key))
    BY <1>3 DEF DeletePathFails, DeleteStorageFails
  <2> QED
    BY <1>3, <2>1, ClosesSentOpen DEF DeletePathFails, DeleteStorageFails, Open, Drained
<1>4. ASSUME NEW key \in Keys, DeleteDone(key) PROVE Open'
  <2>1. notifiers' = Removed(Drained(Selected(DOMAIN notifiers, key)), key)
    BY <1>4 DEF DeleteDone
  <2>2. \A d \in DOMAIN notifiers' : \A u \in notifiers'[d] :
          d \in DOMAIN notifiers \ Selected(DOMAIN notifiers, key) /\ u \in notifiers[d]
    BY <2>1 DEF Removed, Kept, Restrict, Drained
  <2> QED
    BY <1>4, <2>2, ClosesSentOpen DEF DeleteDone, Open
<1>5. ASSUME NEW key \in Keys, NEW d, NEW uuid \in Uuids, Joined(key, d, uuid) PROVE Open'
  BY <1>5 DEF Joined, Registered, NewChannel, Open
<1>6. ASSUME NEW key \in Keys, NEW uuid \in Uuids, Subscribe(key, uuid) PROVE Open'
  BY <1>6, <1>5 DEF Subscribe, SubscribeNew, SubscribeDetached, SubscribeJoin, SubscribeRefused, Open
<1>7. ASSUME NEW key \in Keys, NEW d \in DOMAIN notifiers, NEW uuid \in Uuids,
             UnsubscribeFrom(key, d, uuid)
      PROVE Open'
  <2>1. PICK C \in SUBSET {<<d, uuid>>} : SendClose(C, key)
    BY <1>7 DEF UnsubscribeFrom, Live
  <2>2. notifiers' = [notifiers EXCEPT ![d] = @ \ {uuid}] /\ DOMAIN chans' = DOMAIN chans
    BY <1>7, <2>1 DEF UnsubscribeFrom, SendClose
  <2> SUFFICES ASSUME NEW e \in DOMAIN notifiers', NEW u \in notifiers'[e]
               PROVE  <<e, u>> \in DOMAIN chans' /\ ~chans'[<<e, u>>].closed
    BY DEF Open
  <2>3. e \in DOMAIN notifiers /\ u \in notifiers[e] /\ <<e, u>> # <<d, uuid>>
    BY <2>2 DEF TypeOK
  <2>4. <<e, u>> \in DOMAIN chans /\ ~chans[<<e, u>>].closed /\ <<e, u>> \notin C
    BY <2>1, <2>3 DEF Open
  <2> QED
    BY <2>1, <2>2, <2>4, SendCloseKeepsOpen DEF TypeOK
<1>8. ASSUME NEW key \in Keys, NEW uuid \in Uuids, DropReceiver(key, uuid) PROVE Open'
  <2>1. \A ch \in Channel : [ch EXCEPT !.alive = FALSE, !.told = <<>>].closed = ch.closed
    BY DEF Channel
  <2> QED
    BY <1>8, <2>1 DEF DropReceiver, Open, TypeOK
<1>9. ASSUME Restart PROVE Open'
  BY <1>9 DEF Restart, Open
<1>10. ASSUME UNCHANGED <<notifiers, chans>> PROVE Open'
  BY <1>10 DEF Open
<1> QED
  BY <1>1, <1>2, <1>3, <1>4, <1>6, <1>7, <1>8, <1>9, <1>10
  DEF Next, Put, PutRefused, PutNotStored, Get, Delete, Trace, Unsubscribe, UnsubscribeNotFound, vars

\* Whatever fails, a registered uuid has a channel that was not closed.
THEOREM StaysOpen == Spec => []Open
<1>1. Init => Open
  BY DEF Init, Open
<1>2. TypeOK /\ TypeOK' /\ Open /\ [Next]_vars => Open'
  BY OpenStep
<1> QED
  BY <1>1, <1>2, TypeCorrect, PTL DEF Spec

(***************************************************************************)
(* A receiver that was sent the Close of its own node is not subscribed.   *)
(***************************************************************************)
THEOREM CloseEnds == Spec => []CloseEndsSubscription
<1>1. TypeOK /\ Open => CloseEndsSubscription
  BY DEF TypeOK, Slots, Open, CloseEndsSubscription, Subscribers, IsRegistered
<1> QED
  BY <1>1, TypeCorrect, StaysOpen, PTL

-----------------------------------------------------------------------------
\* subscribe answers as itself and leaves the data alone.
LEMMA SubscribeReplies ==
  ASSUME NEW key \in Keys, NEW uuid \in Uuids, Subscribe(key, uuid)
  PROVE  reply'.op = "subscribe" /\ storage' = storage /\ objects' = objects
<1>1. CASE SubscribeNew(key, uuid)
  BY <1>1 DEF SubscribeNew, Joined, Reply
<1>2. CASE SubscribeDetached(key, uuid) \/ SubscribeRefused(key, uuid)
  BY <1>2 DEF SubscribeDetached, SubscribeRefused, Reply
<1>3. ASSUME NEW d \in DOMAIN notifiers, SubscribeJoin(key, d, uuid)
      PROVE  reply'.op = "subscribe" /\ storage' = storage /\ objects' = objects
  BY <1>3 DEF SubscribeJoin, Joined, Reply
<1> QED
  BY <1>1, <1>2, <1>3 DEF Subscribe

\* So does unsubscribe.
LEMMA UnsubscribeReplies ==
  ASSUME NEW key \in Keys, NEW uuid \in Uuids, Unsubscribe(key, uuid)
  PROVE  reply'.op = "unsubscribe" /\ storage' = storage /\ objects' = objects
<1>1. CASE UnsubscribeNotFound(key)
  BY <1>1 DEF UnsubscribeNotFound, Reply
<1>2. ASSUME NEW d \in DOMAIN notifiers, UnsubscribeFrom(key, d, uuid)
      PROVE  reply'.op = "unsubscribe" /\ storage' = storage /\ objects' = objects
  BY <1>2 DEF UnsubscribeFrom, Reply
<1> QED
  BY <1>1, <1>2 DEF Unsubscribe

(***************************************************************************)
(* KVStore reads the key space through its own copy of KeySpace, with the  *)
(* same constants.                                                         *)
(***************************************************************************)
LEMMA SameSelected ==
  ASSUME NEW S, NEW key
  PROVE  Store!Selected(S, key) = Selected(S, key)
BY DEF Store!Selected, Store!Selects, Store!WalkStops, Selected, Selects, WalkStops

\* The same for Restrict.
LEMMA SameRestrict ==
  ASSUME NEW f, NEW S
  PROVE  Store!Restrict(f, S) = Restrict(f, S)
BY DEF Store!Restrict, Restrict

\* The same for Inserted.
LEMMA SameInserted ==
  ASSUME NEW f, NEW key, NEW value
  PROVE  Store!Inserted(f, key, value) = Inserted(f, key, value)
BY DEF Store!Inserted, Store!HasWildcard, Inserted, HasWildcard

\* put is the put of the map.
LEMMA StorePut ==
  ASSUME NEW key \in Keys, NEW value \in Values, Put(key, value)
  PROVE  Store!Put(key, value)
<1>1. CASE PutRefused(key) \/ PutNotStored(key)
  BY <1>1 DEF PutRefused, PutNotStored, Reply, Store!Put
<1>2. CASE PutStored(key, value)
  <2>1. storage' = Inserted(storage, key, value)
    BY <1>2 DEF PutStored, PutRejected, StoragePut, Inserted
  <2> QED
    BY <1>2, <2>1, SameInserted DEF PutStored, Reply, Store!Put
<1> QED
  BY <1>1, <1>2 DEF Put

\* get is the get of the map: objects tells it of every stored key.
LEMMA StoreGet ==
  ASSUME TypeOK, StorageIndexed, NEW key \in Keys, Get(key)
  PROVE  Store!Get(key)
<1> DEFINE found == {<<d, storage[d]>> : d \in Selected(DOMAIN storage, key)}
           phantom == {<<d, Empty>> : d \in Selected(Keys, key) \ DOMAIN storage}
<1>1. reply'.data = {<<d, StorageGet(d)>> : d \in Selected(objects, key)}
  BY DEF Get, Reply, Found
<1>2. found \subseteq reply'.data
  BY <1>1 DEF StorageIndexed, Selected, StorageGet
<1>3. \A d \in Selected(objects, key) : <<d, StorageGet(d)>> \in found \cup phantom
  BY DEF TypeOK, DataKeys, Selected, StorageGet
<1>4. reply'.data \ found \subseteq phantom
  BY <1>1, <1>3
<1> QED
  BY <1>2, <1>4, SameSelected DEF Get, Reply, Store!Get

\* delete is the delete of the map: it goes through when it deletes all it selects.
LEMMA StoreDelete ==
  ASSUME TypeOK, StorageIndexed, NEW key \in Keys, Delete(key)
  PROVE  Store!Delete(key)
<1>1. CASE DeleteUnsubscribeFails(key) \/ DeletePathFails(key)
  <2>1. storage' = Restrict(storage, DOMAIN storage \ {})
    BY <1>1 DEF DeleteUnsubscribeFails, DeletePathFails, Restrict, TypeOK
  <2>2. reply'.op = "delete" /\ reply'.key = key /\ ~reply'.ok
    BY <1>1 DEF DeleteUnsubscribeFails, DeletePathFails, Reply
  <2>3. {} \in SUBSET Store!Selected(DOMAIN storage, key)
    OBVIOUS
  <2> QED
    BY <2>1, <2>2, <2>3, SameRestrict DEF Store!Delete
<1>2. CASE DeleteStorageFails(key)
  <2>1. PICK done \in SUBSET Selected(objects, key) :
          done \subseteq DOMAIN storage /\ storage' = Restrict(storage, DOMAIN storage \ done)
    BY <1>2 DEF DeleteStorageFails, StorageDelete
  <2>2. done \in SUBSET Selected(DOMAIN storage, key)
    BY <2>1 DEF Selected
  <2> QED
    BY <1>2, <2>1, <2>2, SameSelected, SameRestrict DEF DeleteStorageFails, Reply, Store!Delete
<1>3. CASE DeleteDone(key)
  <2>1. Selected(objects, key) = Selected(DOMAIN storage, key)
    BY <1>3 DEF DeleteDone, Selected, StorageIndexed
  <2>2. storage' = Restrict(storage, DOMAIN storage \ Selected(DOMAIN storage, key))
    BY <1>3, <2>1 DEF DeleteDone, StorageDelete
  <2> QED
    BY <1>3, <2>2, SameSelected, SameRestrict DEF DeleteDone, Reply, Store!Delete
<1> QED
  BY <1>1, <1>2, <1>3 DEF Delete

\* The methods about subscriptions are not about the map.
LEMMA StoreOther ==
  ASSUME NEW key \in Keys, NEW uuid \in Uuids,
         Subscribe(key, uuid) \/ Unsubscribe(key, uuid) \/ DropReceiver(key, uuid) \/ Trace(key)
  PROVE  Store!Other
<1>1. CASE Subscribe(key, uuid)
  BY <1>1, SubscribeReplies DEF Store!Other, Store!StoreOps
<1>2. CASE Unsubscribe(key, uuid)
  BY <1>2, UnsubscribeReplies DEF Store!Other, Store!StoreOps
<1>3. CASE DropReceiver(key, uuid)
  BY <1>3 DEF DropReceiver, Reply, Store!Other, Store!StoreOps
<1>4. CASE Trace(key)
  BY <1>4 DEF Trace, Reply, Store!Other, Store!StoreOps
<1> QED
  BY <1>1, <1>2, <1>3, <1>4

\* A restart keeps of the map what the storage keeps.
LEMMA StoreRestart ==
  ASSUME Restart
  PROVE  Store!Restart
BY SameRestrict DEF Restart, Reply, Store!Restart

(***************************************************************************)
(* As far as the data goes, NkvCore is an atomic map from keys to values,  *)
(* with failed calls that do part of their work.  That objects indexes the *)
(* storage is what makes get complete and an acknowledged delete total.    *)
(***************************************************************************)
THEOREM CoreImplementsKVStore == Spec => ImplementsKVStore
<1>1. Init => Store!Init
  BY DEF Init, Store!Init, Store!StoreOps
<1>2. ASSUME TypeOK, StorageIndexed, [Next]_vars PROVE [Store!Next]_(Store!vars)
  <2> USE <1>2
  <2>1. ASSUME NEW key \in Keys, NEW value \in Values, Put(key, value) PROVE Store!Put(key, value)
    BY <2>1, StorePut
  <2>2. ASSUME NEW key \in Keys, Get(key) PROVE Store!Get(key)
    BY <2>2, StoreGet
  <2>3. ASSUME NEW key \in Keys, Delete(key) PROVE Store!Delete(key)
    BY <2>3, StoreDelete
  <2>4. ASSUME NEW key \in Keys, NEW uuid \in Uuids,
               Subscribe(key, uuid) \/ Unsubscribe(key, uuid) \/ DropReceiver(key, uuid)
        PROVE  Store!Other
    BY <2>4, StoreOther
  <2>5. ASSUME NEW key \in Keys, Trace(key) PROVE Store!Other
    BY <2>5 DEF Trace, Reply, Store!Other, Store!StoreOps
  <2>6. ASSUME Restart PROVE Store!Restart
    BY <2>6, StoreRestart
  <2>7. ASSUME UNCHANGED vars PROVE UNCHANGED Store!vars
    BY <2>7 DEF vars, Store!vars
  <2> QED
    BY <1>2, <2>1, <2>2, <2>3, <2>4, <2>5, <2>6, <2>7 DEF Next, Store!Next
<1> QED
  BY <1>1, <1>2, TypeCorrect, StorageIsIndexed, PTL DEF Spec, ImplementsKVStore, Store!Spec

-----------------------------------------------------------------------------
(***************************************************************************)
(* What the subscribers may rely on: which channels a put and a delete     *)
(* reach, and what their receivers know afterwards.                        *)
(***************************************************************************)

(***************************************************************************)
(* A loop over the path that meets no dropped receiver reaches all of it.  *)
(***************************************************************************)
LEMMA WholePathReached ==
  ASSUME NEW n, NEW A, AllLive(ChansAt(n, A)), NEW P \in PathReached(n, A)
  PROVE  P = ChansAt(n, A)
<1>1. P \subseteq ChansAt(n, A)
  BY DEF PathReached, Live
<1>2. ASSUME NEW d \in A, NEW u \in n[d] PROVE <<d, u>> \in P
  <2> DEFINE mine == ChansAt(n, {d})
             above == ChansAt(n, {e \in A : Len(e) < Len(d)})
  <2>1. mine \subseteq ChansAt(n, A) /\ above \subseteq ChansAt(n, A)
    BY <1>2 DEF ChansAt
  <2>2. AllLive(mine) /\ AllLive(above)
    BY <2>1 DEF AllLive
  <2>3. P \cap mine \in Reached(mine)
    BY <2>2 DEF PathReached
  <2>4. P \cap mine = mine
    BY <2>2, <2>3 DEF Reached
  <2> QED
    BY <1>2, <2>4 DEF ChansAt
<1> QED
  BY <1>1, <1>2 DEF ChansAt

(***************************************************************************)
(* If a node above k does not itself belong to what a key selects, but k   *)
(* does, then that node is on the path of the key: the walk to the first   *)
(* wildcard passes it.                                                     *)
(***************************************************************************)
LEMMA AboveSelectedIsOnPath ==
  ASSUME NEW key \in Keys, NEW d \in Keys, NEW k \in Keys,
         IsPrefixKey(d, k), Selects(key, k), ~Selects(key, d)
  PROVE  IsAncestorKey(d, key)
<1>1. /\ key \in Seq(Segments) /\ d \in Seq(Segments) /\ k \in Seq(Segments)
      /\ Len(key) \in Nat /\ Len(d) \in Nat /\ Len(k) \in Nat
  BY KeysAssumption
<1>2. CASE ~WalkStops(key)
  <2>1. k = key /\ d # key
    BY <1>2 DEF Selects
  <2>2. Len(d) <= Len(key) /\ \A i \in 1..Len(d) : d[i] = key[i]
    BY <2>1 DEF IsPrefixKey
  <2>3. Len(d) # Len(key)
    BY <1>1, <2>1, <2>2
  <2> QED
    BY <1>1, <2>2, <2>3 DEF IsAncestorKey, IsPrefixKey
<1>3. CASE WalkStops(key)
  <2>1. PICK i \in 1..Len(key) : /\ \A j \in 1..i : key[j] # Wildcard
                                 /\ ~(i <= Len(d) /\ d[i] = key[i])
    BY <1>3 DEF Selects
  <2>2. \A j \in 1..i : j <= Len(k) /\ k[j] = key[j]
    <3> SUFFICES ASSUME NEW j \in 1..i PROVE j <= Len(k) /\ k[j] = key[j]
      OBVIOUS
    <3>1. j \in 1..Len(key) /\ \A l \in 1..j : key[l] # Wildcard
      BY <1>1, <2>1
    <3> QED
      BY <1>3, <3>1 DEF Selects
  <2>3. \A j \in 1..Len(d) : d[j] = k[j]
    BY DEF IsPrefixKey
  <2>4. Len(d) < i
    BY <1>1, <2>1, <2>2, <2>3
  <2>5. \A j \in 1..Len(d) : d[j] = key[j]
    BY <1>1, <2>2, <2>3, <2>4
  <2> QED
    BY <1>1, <2>4, <2>5 DEF IsAncestorKey, IsPrefixKey
<1> QED
  BY <1>2, <1>3

-----------------------------------------------------------------------------
(* What a put and a delete tell the subscribers that they leave registered. *)

(***************************************************************************)
(* An acknowledged delete, or one that fails no earlier than at the        *)
(* storage, has told every subscriber above what it selects: whoever stays *)
(* registered forgets exactly the keys that it selects, if it is above     *)
(* one of them.                                                            *)
(***************************************************************************)
LEMMA DeleteTells ==
  ASSUME TypeOK, Open, NEW key \in Keys,
         DeleteClosesSent(key, Drained(Selected(DOMAIN notifiers, key)), OnPath(DOMAIN notifiers, key)),
         AllLive(ChansAt(Drained(Selected(DOMAIN notifiers, key)), OnPath(DOMAIN notifiers, key))),
         NEW d \in DOMAIN notifiers \ Selected(DOMAIN notifiers, key), NEW u \in notifiers[d]
  PROVE  LET before == chans[<<d, u>>].told
             after == chans'[<<d, u>>].told
         IN /\ DOMAIN after \subseteq DOMAIN before
            /\ \A k \in DOMAIN after : after[k] = before[k]
            /\ \A k \in DOMAIN before : ~Selects(key, k) => k \in DOMAIN after
            /\ \A k \in DOMAIN after : IsPrefixKey(d, k) => ~Selects(key, k)
<1> DEFINE S == Selected(DOMAIN notifiers, key)
           A == OnPath(DOMAIN notifiers, key)
           M == ChansAt(notifiers, S)
           c == <<d, u>>
           before == chans[c].told
           after == chans'[c].told
           rest == {k \in DOMAIN before : ~Selects(key, k)}
<1>1. PICK P \in PathReached(Drained(S), A) : SendClose(M \cup P, key)
  BY DEF DeleteClosesSent
<1>2. P = ChansAt(Drained(S), A)
  BY <1>1, WholePathReached
<1>3. c \in DOMAIN chans /\ chans[c] \in Channel /\ d \in Keys /\ DOMAIN before \subseteq Keys
  BY DEF Open, TypeOK, Channel, DataKeys
<1>4. c[1] = d /\ ~Selects(key, d)
  BY DEF Selected
<1>5. CASE d \in A
  <2>1. c \in P
    BY <1>2, <1>5 DEF ChansAt, Drained
  <2>2. chans'[c] = Closed(chans[c], c[1], key)
    BY <1>1, <1>3, <2>1 DEF SendClose
  <2>3. after = Restrict(before, rest)
    BY <1>3, <1>4, <2>2 DEF Closed, Channel
  <2> QED
    BY <2>3 DEF Restrict
<1>6. CASE d \notin A
  <2>1. c \notin M \cup P
    BY <1>2, <1>6 DEF ChansAt, Drained
  <2>2. after = before
    BY <1>1, <1>3, <2>1 DEF SendClose
  <2>3. \A k \in DOMAIN before : IsPrefixKey(d, k) => ~Selects(key, k)
    BY <1>3, <1>4, <1>6, AboveSelectedIsOnPath DEF OnPath
  <2> QED
    BY <2>2, <2>3
<1> QED
  BY <1>5, <1>6

(***************************************************************************)
(* A delete that answers Ok leaves nothing that its key selects: not in    *)
(* the storage, not among the subscriptions, and not in what subscribers   *)
(* above it still believe, with receivers dropped at any time.             *)
(***************************************************************************)
THEOREM AckedDeletesAreComplete == Spec => []AckedDeleteIsComplete
<1>1. Init => AckedDeleteIsComplete
  BY DEF Init, AckedDeleteIsComplete
<1>2. ASSUME TypeOK, Open, StorageIndexed, NEW key \in Keys, DeleteDone(key)
      PROVE  AckedDeleteIsComplete'
  <2> USE <1>2
  <2> DEFINE S == Selected(DOMAIN notifiers, key)
  <2>1. reply'.key = key
    BY DEF DeleteDone, Reply
  <2>2. Selected(DOMAIN storage', key) = {}
    BY DEF DeleteDone, StorageDelete, Restrict, Selected, StorageIndexed
  <2>3. notifiers' = Removed(Drained(S), key)
    BY DEF DeleteDone
  <2>4. /\ DOMAIN notifiers' \subseteq DOMAIN notifiers
        /\ \A d \in DOMAIN notifiers' : notifiers'[d] = IF d \in S THEN {} ELSE notifiers[d]
    BY <2>3 DEF Removed, Restrict, Kept, Drained
  <2>5. \A d \in Selected(DOMAIN notifiers', key) : notifiers'[d] = {}
    BY <2>4 DEF Selected
  <2>6. ASSUME NEW c \in Subscribers', NEW k \in Selected(DOMAIN chans'[c].told, key)
        PROVE  ~IsPrefixKey(c[1], k)
    <3>1. c[1] \in DOMAIN notifiers \ S /\ c[2] \in notifiers[c[1]]
      BY <2>4, <2>6 DEF Subscribers, IsRegistered
    <3>2. c \in DOMAIN chans
      BY <2>6 DEF Subscribers, DeleteDone, DeleteClosesSent, SendClose
    <3>3. c = <<c[1], c[2]>>
      BY <3>2 DEF TypeOK, Slots
    <3>4. \A l \in DOMAIN chans'[<<c[1], c[2]>>].told : IsPrefixKey(c[1], l) => ~Selects(key, l)
      BY <3>1, DeleteTells DEF DeleteDone
    <3> QED
      BY <2>6, <3>3, <3>4 DEF Selected
  <2> QED
    BY <2>1, <2>2, <2>5, <2>6 DEF AckedDeleteIsComplete
<1>3. ASSUME TypeOK, Open, StorageIndexed, AckedDeleteIsComplete, [Next]_vars
      PROVE  AckedDeleteIsComplete'
  <2> USE <1>3
  <2>1. ASSUME NEW key \in Keys, Delete(key) PROVE AckedDeleteIsComplete'
    <3>1. CASE DeleteDone(key)
      BY <1>2, <3>1
    <3>2. CASE DeleteUnsubscribeFails(key) \/ DeletePathFails(key) \/ DeleteStorageFails(key)
      BY <3>2 DEF DeleteUnsubscribeFails, DeletePathFails, DeleteStorageFails, Reply, AckedDeleteIsComplete
    <3> QED
      BY <2>1, <3>1, <3>2 DEF Delete
  <2>2. CASE UNCHANGED vars
    BY <2>2 DEF vars, AckedDeleteIsComplete, Subscribers, IsRegistered
  <2>3. CASE reply'.op # "delete"
    BY <2>3 DEF AckedDeleteIsComplete
  <2>4. ASSUME NEW key \in Keys, NEW value \in Values, Put(key, value) PROVE reply'.op # "delete"
    BY <2>4 DEF Put, PutRefused, PutNotStored, PutStored, Reply
  <2>5. ASSUME NEW key \in Keys, NEW uuid \in Uuids, Subscribe(key, uuid) PROVE reply'.op # "delete"
    BY <2>5, SubscribeReplies
  <2>6. ASSUME NEW key \in Keys, NEW uuid \in Uuids, Unsubscribe(key, uuid) PROVE reply'.op # "delete"
    BY <2>6, UnsubscribeReplies
  <2>7. ASSUME NEW key \in Keys, NEW uuid \in Uuids, DropReceiver(key, uuid) PROVE reply'.op # "delete"
    BY <2>7 DEF DropReceiver, Reply
  <2>8. ASSUME NEW key \in Keys, Get(key) \/ Trace(key) PROVE reply'.op # "delete"
    BY <2>8 DEF Get, Trace, Reply
  <2>9. ASSUME Restart PROVE reply'.op # "delete"
    BY <2>9 DEF Restart, Reply
  <2> QED
    BY <2>1, <2>2, <2>3, <2>4, <2>5, <2>6, <2>7, <2>8, <2>9 DEF Next
<1> QED
  BY <1>1, <1>3, TypeCorrect, StaysOpen, StorageIsIndexed, PTL DEF Spec

-----------------------------------------------------------------------------
(* As long as nobody drops a receiver. *)

\* Every channel still has its receiver.
Listening == \A c \in DOMAIN chans : chans[c].alive

\* Sends drop no receiver and open no channel again.
LEMMA SendUpdateKeepsAlive ==
  ASSUME TypeOK, NEW C, NEW key, NEW value, SendUpdate(C, key, value)
  PROVE  /\ DOMAIN chans' = DOMAIN chans
         /\ \A c \in DOMAIN chans : chans'[c].alive = chans[c].alive
         /\ \A c \in DOMAIN chans : chans[c].closed => chans'[c].closed
BY DEF SendUpdate, Updated, TypeOK, Channel

\* The same for a Close.
LEMMA SendCloseKeepsAlive ==
  ASSUME TypeOK, NEW C, NEW key, SendClose(C, key)
  PROVE  /\ DOMAIN chans' = DOMAIN chans
         /\ \A c \in DOMAIN chans : chans'[c].alive = chans[c].alive
         /\ \A c \in DOMAIN chans : chans[c].closed => chans'[c].closed
BY DEF SendClose, Closed, TypeOK, Channel

\* Channels only fall silent when their receiver is dropped.
LEMMA ListeningStep ==
  ASSUME ~Drops, TypeOK, Listening, [Next]_vars
  PROVE  Listening'
<1>1. ASSUME NEW key \in Keys, NEW value \in Values, Put(key, value) PROVE Listening'
  <2>1. CASE PutStored(key, value)
    <3>1. PICK C : SendUpdate(C, key, value)
      BY <2>1 DEF PutStored
    <3> QED
      BY <3>1, SendUpdateKeepsAlive DEF Listening
  <2> QED
    BY <1>1, <2>1 DEF Put, PutRefused, PutNotStored, Listening
<1>2. ASSUME NEW key \in Keys, Delete(key) PROVE Listening'
  <2>1. PICK C : SendClose(C, key)
    BY <1>2 DEF Delete, DeleteUnsubscribeFails, DeletePathFails, DeleteStorageFails, DeleteDone, DeleteClosesSent
  <2> QED
    BY <2>1, SendCloseKeepsAlive DEF Listening
<1>3. ASSUME NEW key \in Keys, NEW uuid \in Uuids, Subscribe(key, uuid) PROVE Listening'
  <2>1. ASSUME NEW d, Joined(key, d, uuid) PROVE Listening'
    BY <2>1 DEF Joined, NewChannel, Listening
  <2> QED
    BY <1>3, <2>1 DEF Subscribe, SubscribeNew, SubscribeDetached, SubscribeJoin, SubscribeRefused, Listening
<1>4. ASSUME NEW key \in Keys, NEW uuid \in Uuids, Unsubscribe(key, uuid) PROVE Listening'
  <2>1. CASE UnsubscribeNotFound(key)
    BY <2>1 DEF UnsubscribeNotFound, Listening
  <2>2. ASSUME NEW d \in DOMAIN notifiers, UnsubscribeFrom(key, d, uuid) PROVE Listening'
    <3>1. PICK C : SendClose(C, key)
      BY <2>2 DEF UnsubscribeFrom
    <3> QED
      BY <3>1, SendCloseKeepsAlive DEF Listening
  <2> QED
    BY <1>4, <2>1, <2>2 DEF Unsubscribe
<1>5. CASE Restart
  BY <1>5 DEF Restart, Listening
<1>6. CASE UNCHANGED chans
  BY <1>6 DEF Listening
<1> QED
  BY <1>1, <1>2, <1>3, <1>4, <1>5, <1>6 DEF Next, Get, Trace, DropReceiver, vars

\* Then no send of put, delete or unsubscribe fails.
LEMMA NoSendFails ==
  ASSUME TypeOK, Open, Listening, NEW n, NEW A, DOMAIN n = DOMAIN notifiers, A \subseteq DOMAIN n,
         \A d \in DOMAIN n : n[d] \subseteq notifiers[d]
  PROVE  AllLive(ChansAt(n, A))
BY DEF AllLive, ChansAt, Open, Listening

(***************************************************************************)
(* As long as nobody drops a receiver, a subscription ends with a Close.   *)
(***************************************************************************)
THEOREM NoSubscriptionEndsSilently ==
  ASSUME ~Drops
  PROVE  Spec => []NoSilentUnsubscribe
<1>1. Init => Listening /\ NoSilentUnsubscribe
  BY DEF Init, Listening, NoSilentUnsubscribe
<1>2. ASSUME TypeOK, Open, Listening, NoSilentUnsubscribe, [Next]_vars
      PROVE  NoSilentUnsubscribe'
  <2> USE <1>2
  <2>1. ASSUME NEW key \in Keys, NEW value \in Values, PutStored(key, value) PROVE NoSilentUnsubscribe'
    <3>1. PICK C : SendUpdate(C, key, value)
      BY <2>1 DEF PutStored
    <3> QED
      BY <2>1, <3>1, SendUpdateKeepsAlive DEF PutStored, NoSilentUnsubscribe, IsRegistered
  <2>2. ASSUME NEW key \in Keys, DeleteUnsubscribeFails(key) PROVE FALSE
    <3>1. PICK last \in Selected(DOMAIN notifiers, key) : ~AllLive(ChansAt(notifiers, {last}))
      BY <2>2 DEF DeleteUnsubscribeFails
    <3> QED
      BY <3>1, NoSendFails DEF Selected
  <2>3. ASSUME NEW key \in Keys, DeletePathFails(key) \/ DeleteStorageFails(key) \/ DeleteDone(key)
        PROVE  NoSilentUnsubscribe'
    <3> DEFINE S == Selected(DOMAIN notifiers, key)
    <3>1. PICK P : SendClose(ChansAt(notifiers, S) \cup P, key)
      BY <2>3 DEF DeletePathFails, DeleteStorageFails, DeleteDone, DeleteClosesSent
    <3>2. notifiers' \in {Drained(S), Removed(Drained(S), key)}
      BY <2>3 DEF DeletePathFails, DeleteStorageFails, DeleteDone
    <3>3. \A d \in DOMAIN notifiers \ S : d \in DOMAIN notifiers' /\ notifiers'[d] = notifiers[d]
      <4>1. \A d \in DOMAIN notifiers \ S : ~Removes(key, d)
        BY RemovesSelected DEF Selected, TypeOK, DataKeys
      <4> QED
        BY <3>2, <4>1 DEF Drained, Removed, Restrict, Kept
    <3> SUFFICES ASSUME NEW c \in DOMAIN chans', ~chans'[c].closed PROVE IsRegistered(c)'
      BY DEF NoSilentUnsubscribe
    <3>4. c \in DOMAIN chans /\ ~chans[c].closed /\ IsRegistered(c) /\ c = <<c[1], c[2]>>
      BY <3>1, SendCloseKeepsAlive DEF NoSilentUnsubscribe, TypeOK, Slots
    <3>5. c[1] \notin S
      <4>1. SUFFICES ASSUME c[1] \in S PROVE chans'[c].closed
        OBVIOUS
      <4>2. c \in ChansAt(notifiers, S)
        BY <3>4, <4>1 DEF ChansAt, IsRegistered
      <4>3. chans'[c] = Closed(chans[c], c[1], key) /\ Selects(key, c[1])
        BY <3>1, <3>4, <4>1, <4>2 DEF SendClose, Selected
      <4> QED
        BY <3>4, <4>3 DEF Closed, TypeOK, Channel
    <3> QED
      BY <3>3, <3>4, <3>5 DEF IsRegistered
  <2>4. ASSUME NEW key \in Keys, NEW d, NEW uuid \in Uuids, Joined(key, d, uuid)
        PROVE  NoSilentUnsubscribe'
    BY <2>4 DEF Joined, Registered, NoSilentUnsubscribe, IsRegistered
  <2>5. ASSUME NEW key \in Keys, NEW uuid \in Uuids, Subscribe(key, uuid) PROVE NoSilentUnsubscribe'
    BY <2>5, <2>4 DEF Subscribe, SubscribeNew, SubscribeDetached, SubscribeJoin, SubscribeRefused,
                      NoSilentUnsubscribe, IsRegistered
  <2>6. ASSUME NEW key \in Keys, NEW d \in DOMAIN notifiers, NEW uuid \in Uuids,
               UnsubscribeFrom(key, d, uuid)
        PROVE  NoSilentUnsubscribe'
    <3> DEFINE mine == ChansAt(notifiers, {d}) \cap {<<d, uuid>>}
    <3>1. SendClose(Live(mine), key) /\ Selects(key, d)
      BY <2>6 DEF UnsubscribeFrom, Selected
    <3>2. DOMAIN notifiers' = DOMAIN notifiers
          /\ \A e \in DOMAIN notifiers : notifiers'[e] = IF e = d THEN notifiers[d] \ {uuid} ELSE notifiers[e]
      BY <2>6 DEF UnsubscribeFrom, TypeOK
    <3> SUFFICES ASSUME NEW c \in DOMAIN chans', ~chans'[c].closed PROVE IsRegistered(c)'
      BY DEF NoSilentUnsubscribe
    <3>3. c \in DOMAIN chans /\ ~chans[c].closed /\ IsRegistered(c) /\ c = <<c[1], c[2]>>
      BY <3>1, SendCloseKeepsAlive DEF NoSilentUnsubscribe, TypeOK, Slots
    <3>4. c # <<d, uuid>>
      <4>1. SUFFICES ASSUME c = <<d, uuid>> PROVE chans'[c].closed
        OBVIOUS
      <4>2. c \in Live(mine)
        BY <3>3, <4>1 DEF Live, ChansAt, IsRegistered, Listening
      <4>3. chans'[c] = Closed(chans[c], c[1], key) /\ Selects(key, c[1])
        BY <3>1, <3>3, <4>1, <4>2 DEF SendClose
      <4> QED
        BY <3>3, <4>3 DEF Closed, TypeOK, Channel
    <3> QED
      BY <3>2, <3>3, <3>4 DEF IsRegistered
  <2>7. CASE Restart
    BY <2>7 DEF Restart, NoSilentUnsubscribe
  <2>8. CASE UNCHANGED <<notifiers, chans>>
    BY <2>8 DEF NoSilentUnsubscribe, IsRegistered
  <2> QED
    BY <2>1, <2>2, <2>3, <2>5, <2>6, <2>7, <2>8
    DEF Next, Put, PutRefused, PutNotStored, Get, Delete, Trace, Unsubscribe, UnsubscribeNotFound,
        DropReceiver, vars
<1> QED
  BY <1>1, <1>2, ListeningStep, TypeCorrect, StaysOpen, PTL DEF Spec

-----------------------------------------------------------------------------
(* What a put tells. *)

\* A put selects the node of its key, and no other.
LEMMA PutSelectsItself ==
  ASSUME NEW key \in Keys, ~HasWildcard(key), NEW d
  PROVE  Selects(key, d) <=> d = key
BY WildcardAssumption DEF Selects, WalkStops, HasWildcard

\* A key is at or above another one if it is that key or an ancestor of it.
LEMMA PrefixIsSelfOrAncestor ==
  ASSUME NEW d \in Keys, NEW key \in Keys
  PROVE  IsPrefixKey(d, key) <=> d = key \/ IsAncestorKey(d, key)
<1>1. /\ key \in Seq(Segments) /\ d \in Seq(Segments)
      /\ Len(key) \in Nat /\ Len(d) \in Nat
  BY KeysAssumption
<1>2. ASSUME IsPrefixKey(d, key), Len(d) = Len(key) PROVE d = key
  BY <1>1, <1>2 DEF IsPrefixKey
<1> QED
  BY <1>1, <1>2 DEF IsPrefixKey, IsAncestorKey

(***************************************************************************)
(* While everybody listens, a put that stores its value tells exactly the  *)
(* subscribers at and above its key.                                       *)
(***************************************************************************)
LEMMA PutTells ==
  ASSUME TypeOK, Open, Listening, NEW key \in Keys, NEW value \in Values, PutStored(key, value),
         NEW d \in DOMAIN notifiers, NEW u \in notifiers[d]
  PROVE  chans'[<<d, u>>] = IF IsPrefixKey(d, key) THEN Updated(chans[<<d, u>>], key, value)
                                                   ELSE chans[<<d, u>>]
<1> DEFINE S == Selected(DOMAIN notifiers, key)
           A == OnPath(DOMAIN notifiers, key)
           c == <<d, u>>
<1>1. PICK C \in Reached(ChansAt(notifiers, S)), P \in PathReached(notifiers, A) :
        SendUpdate(C \cup P, key, value)
  BY DEF PutStored
<1>2. AllLive(ChansAt(notifiers, S)) /\ AllLive(ChansAt(notifiers, A))
  BY NoSendFails DEF Selected, OnPath
<1>3. C = ChansAt(notifiers, S) /\ P = ChansAt(notifiers, A)
  BY <1>1, <1>2, WholePathReached DEF Reached
<1>4. d \in S \cup A <=> IsPrefixKey(d, key)
  BY PutSelectsItself, PrefixIsSelfOrAncestor DEF Selected, OnPath, PutStored, PutRejected, TypeOK, DataKeys
<1>5. c \in C \cup P <=> d \in S \cup A
  BY <1>3 DEF ChansAt
<1>6. c \in DOMAIN chans
  BY DEF Open
<1> QED
  BY <1>1, <1>4, <1>5, <1>6 DEF SendUpdate

(***************************************************************************)
(* As long as nobody drops a receiver, a put that answers Ok has told the  *)
(* new value to every subscriber at and above its key.                     *)
(***************************************************************************)
THEOREM AckedPutsReachTheirPath ==
  ASSUME ~Drops
  PROVE  Spec => []AckedPutReachesPath
<1>1. Init => Listening /\ AckedPutReachesPath
  BY DEF Init, Listening, AckedPutReachesPath
<1>2. ASSUME TypeOK, Open, Listening, AckedPutReachesPath, [Next]_vars
      PROVE  AckedPutReachesPath'
  <2> USE <1>2
  <2>1. ASSUME NEW key \in Keys, NEW value \in Values, PutStored(key, value)
        PROVE  AckedPutReachesPath'
    <3> SUFFICES ASSUME NEW c \in Subscribers', IsPrefixKey(c[1], key)
                 PROVE  key \in DOMAIN chans'[c].told /\ chans'[c].told[key] = storage'[key]
      BY <2>1 DEF PutStored, Reply, AckedPutReachesPath
    <3>1. DOMAIN chans' = DOMAIN chans /\ notifiers' = notifiers
      BY <2>1 DEF PutStored, SendUpdate
    <3>2. /\ c \in DOMAIN chans /\ c = <<c[1], c[2]>> /\ chans[c] \in Channel
          /\ c[1] \in DOMAIN notifiers /\ c[2] \in notifiers[c[1]]
      BY <3>1 DEF Subscribers, IsRegistered, TypeOK, Slots
    <3>3. chans'[c] = Updated(chans[c], key, value)
      BY <2>1, <3>2, PutTells
    <3>4. storage'[key] = value
      BY <2>1 DEF PutStored, StoragePut
    <3> QED
      BY <3>2, <3>3, <3>4 DEF Updated, Channel
  <2>2. ASSUME NEW key \in Keys, NEW value \in Values, Put(key, value) PROVE AckedPutReachesPath'
    <3>1. CASE PutRefused(key) \/ PutNotStored(key)
      BY <3>1 DEF PutRefused, PutNotStored, Reply, AckedPutReachesPath
    <3> QED
      BY <2>1, <2>2, <3>1 DEF Put
  <2>3. CASE UNCHANGED vars
    BY <2>3 DEF vars, AckedPutReachesPath, Subscribers, IsRegistered
  <2>4. CASE reply'.op # "put"
    BY <2>4 DEF AckedPutReachesPath
  <2>5. ASSUME NEW key \in Keys, Delete(key) PROVE reply'.op # "put"
    BY <2>5 DEF Delete, DeleteUnsubscribeFails, DeletePathFails, DeleteStorageFails, DeleteDone, Reply
  <2>6. ASSUME NEW key \in Keys, Get(key) \/ Trace(key) PROVE reply'.op # "put"
    BY <2>6 DEF Get, Trace, Reply
  <2>7. CASE Restart
    BY <2>7 DEF Restart, Reply, AckedPutReachesPath
  <2>8. ASSUME NEW key \in Keys, NEW uuid \in Uuids, Subscribe(key, uuid) \/ Unsubscribe(key, uuid)
        PROVE  reply'.op # "put"
    BY <2>8, SubscribeReplies, UnsubscribeReplies
  <2> QED
    BY <2>2, <2>3, <2>4, <2>5, <2>6, <2>7, <2>8 DEF Next, DropReceiver
<1> QED
  BY <1>1, <1>2, ListeningStep, TypeCorrect, StaysOpen, PTL DEF Spec

\* SubscriberSeesLatest, told of the channel of one node and of all of them.
Sees(d, told) ==
  /\ \A k \in DOMAIN told : IsPrefixKey(d, k) => told[k] = StorageGet(k)
  /\ d \in DOMAIN storage => d \in DOMAIN told

AllSee == \A d \in DOMAIN notifiers : \A u \in notifiers[d] : Sees(d, chans[<<d, u>>].told)

\* No step on the same values makes a subscriber see less.
LEMMA SeesTheSame ==
  ASSUME AllSee, DOMAIN storage' = DOMAIN storage, \A k : StorageGet(k)' = StorageGet(k),
         \A d \in DOMAIN notifiers' : \A u \in notifiers'[d] :
           d \in DOMAIN notifiers /\ u \in notifiers[d] /\ chans'[<<d, u>>] = chans[<<d, u>>]
  PROVE  AllSee'
<1> SUFFICES ASSUME NEW d \in DOMAIN notifiers', NEW u \in notifiers'[d]
             PROVE  Sees(d, chans[<<d, u>>].told)'
  BY DEF AllSee
<1>1. Sees(d, chans[<<d, u>>].told)
  BY DEF AllSee
<1> QED
  BY <1>1 DEF Sees

(***************************************************************************)
(* As long as nobody drops a receiver, a subscriber that has read its      *)
(* channel knows the present values at and below its node, as far as it    *)
(* was told of them, and of its own key always.  A delete takes back what  *)
(* it deletes (DeleteTells), a put tells everyone above (PutTells), and a  *)
(* new subscription finds every stored key in objects (StorageIndexed).    *)
(***************************************************************************)
THEOREM SubscribersSeeTheLatest ==
  ASSUME ~Drops
  PROVE  Spec => []SubscriberSeesLatest
<1>1. Init => Listening /\ AllSee
  BY DEF Init, Listening, AllSee
<1>2. ASSUME TypeOK, Open, Open', Listening, StorageIndexed, AllSee, [Next]_vars
      PROVE  AllSee'
  <2> USE <1>2 DEF AllSee, Sees
  <2>1. ASSUME NEW key \in Keys, NEW value \in Values, PutStored(key, value) PROVE AllSee'
    <3> SUFFICES ASSUME NEW d \in DOMAIN notifiers', NEW u \in notifiers'[d]
                 PROVE  Sees(d, chans[<<d, u>>].told)'
      OBVIOUS
    <3> DEFINE c == <<d, u>>
               told == chans[c].told
    <3>1. d \in DOMAIN notifiers /\ u \in notifiers[d]
      BY <2>1 DEF PutStored
    <3>2. chans[c] \in Channel /\ d \in Keys /\ Sees(d, told)
      BY <3>1 DEF Open, TypeOK, DataKeys
    <3>3. \A k : StorageGet(k)' = IF k = key THEN value ELSE StorageGet(k)
      BY <2>1 DEF PutStored, StoragePut, StorageGet
    <3>4. CASE IsPrefixKey(d, key)
      <4>1. chans'[c].told = [k \in DOMAIN told \cup {key} |-> IF k = key THEN value ELSE told[k]]
        BY <2>1, <3>1, <3>2, <3>4, PutTells DEF Updated, Channel
      <4>2. d \in DOMAIN storage' => d \in DOMAIN storage \cup {key}
        BY <2>1 DEF PutStored, StoragePut
      <4> QED
        BY <3>2, <3>3, <4>1, <4>2
    <3>5. CASE ~IsPrefixKey(d, key)
      <4>1. chans'[c].told = told
        BY <2>1, <3>1, <3>5, PutTells
      <4>2. d # key /\ (d \in DOMAIN storage' => d \in DOMAIN storage)
        BY <2>1, <3>2, <3>5, PrefixIsSelfOrAncestor DEF PutStored, StoragePut
      <4> QED
        BY <3>2, <3>3, <3>5, <4>1, <4>2
    <3> QED
      BY <3>4, <3>5
  <2>2. ASSUME NEW key \in Keys, Delete(key) PROVE AllSee'
    <3> DEFINE S == Selected(DOMAIN notifiers, key)
               A == OnPath(DOMAIN notifiers, key)
    <3>1. ~DeleteUnsubscribeFails(key)
      <4>1. SUFFICES ASSUME DeleteUnsubscribeFails(key) PROVE FALSE
        OBVIOUS
      <4>2. PICK last \in S : ~AllLive(ChansAt(notifiers, {last}))
        BY <4>1 DEF DeleteUnsubscribeFails
      <4> QED
        BY <4>2, NoSendFails DEF Selected
    <3>2. AllLive(ChansAt(Drained(S), A))
      <4>1. /\ DOMAIN Drained(S) = DOMAIN notifiers /\ A \subseteq DOMAIN notifiers
            /\ \A d \in DOMAIN notifiers : Drained(S)[d] \subseteq notifiers[d]
        BY DEF Drained, OnPath
      <4> QED
        BY <4>1, NoSendFails
    <3>3. DeleteClosesSent(key, Drained(S), A)
      BY <2>2, <3>1, <3>2 DEF Delete, DeletePathFails, DeleteStorageFails, DeleteDone
    <3>4. notifiers' \in {Drained(S), Removed(Drained(S), key)}
      BY <2>2, <3>1 DEF Delete, DeletePathFails, DeleteStorageFails, DeleteDone
    <3>5. PICK gone \in SUBSET Selected(Keys, key) : storage' = Restrict(storage, DOMAIN storage \ gone)
      <4>1. CASE DeletePathFails(key)
        BY <3>2, <4>1 DEF DeletePathFails
      <4>2. CASE DeleteStorageFails(key) \/ DeleteDone(key)
        BY <4>2 DEF DeleteStorageFails, DeleteDone, StorageDelete, Selected, TypeOK, DataKeys
      <4> QED
        BY <2>2, <3>1, <4>1, <4>2 DEF Delete
    <3> SUFFICES ASSUME NEW d \in DOMAIN notifiers', NEW u \in notifiers'[d]
                 PROVE  Sees(d, chans[<<d, u>>].told)'
      OBVIOUS
    <3> DEFINE before == chans[<<d, u>>].told
               after == chans'[<<d, u>>].told
    <3>6. d \in DOMAIN notifiers \ S /\ u \in notifiers[d]
      BY <3>4 DEF Drained, Removed, Restrict, Kept
    <3>7. /\ DOMAIN after \subseteq DOMAIN before
          /\ \A k \in DOMAIN after : after[k] = before[k]
          /\ \A k \in DOMAIN before : ~Selects(key, k) => k \in DOMAIN after
          /\ \A k \in DOMAIN after : IsPrefixKey(d, k) => ~Selects(key, k)
      BY <3>2, <3>3, <3>6, DeleteTells
    <3>8. \A k : ~Selects(key, k) => StorageGet(k)' = StorageGet(k)
      BY <3>5 DEF Selected, StorageGet, Restrict
    <3>9. ~Selects(key, d) /\ Sees(d, before)
      BY <3>6 DEF Selected
    <3>10. DOMAIN storage' \subseteq DOMAIN storage
      BY <3>5 DEF Restrict
    <3> QED
      BY <3>7, <3>8, <3>9, <3>10
  <2>3. ASSUME NEW key \in Keys, NEW d \in DataKeys, NEW uuid \in Uuids, Joined(key, d, uuid),
               Selects(key, d), UNCHANGED <<objects, storage>>
        PROVE  AllSee'
    <3> SUFFICES ASSUME NEW e \in DOMAIN notifiers', NEW u \in notifiers'[e]
                 PROVE  Sees(e, chans[<<e, u>>].told)'
      OBVIOUS
    <3>1. \A k : StorageGet(k)' = StorageGet(k)
      BY <2>3 DEF StorageGet
    <3>2. CASE <<e, u>> = <<d, uuid>>
      <4>1. chans'[<<e, u>>].told = [k \in Selected(objects, key) |-> StorageGet(k)]
        BY <2>3, <3>2 DEF Joined, NewChannel
      <4>2. d \in DOMAIN storage => d \in Selected(objects, key)
        BY <2>3 DEF StorageIndexed, Selected
      <4> QED
        BY <2>3, <3>1, <3>2, <4>1, <4>2
    <3>3. CASE <<e, u>> # <<d, uuid>>
      <4>1. e \in DOMAIN notifiers /\ u \in notifiers[e]
        BY <2>3, <3>3 DEF Joined, Registered
      <4>2. chans'[<<e, u>>] = chans[<<e, u>>]
        BY <2>3, <3>3, <4>1 DEF Joined, Open
      <4> QED
        BY <2>3, <3>1, <4>1, <4>2
    <3> QED
      BY <3>2, <3>3
  <2>4. ASSUME NEW key \in Keys, NEW uuid \in Uuids, Subscribe(key, uuid) PROVE AllSee'
    <3>1. CASE SubscribeNew(key, uuid)
      BY <2>3, <3>1, PutSelectsItself DEF SubscribeNew, DataKeys
    <3>2. ASSUME NEW d \in DOMAIN notifiers, SubscribeJoin(key, d, uuid) PROVE AllSee'
      BY <2>3, <3>2 DEF SubscribeJoin, Selected, TypeOK
    <3>3. CASE SubscribeDetached(key, uuid) \/ SubscribeRefused(key, uuid)
      BY <3>3, SeesTheSame DEF SubscribeDetached, SubscribeRefused, StorageGet
    <3> QED
      BY <2>4, <3>1, <3>2, <3>3 DEF Subscribe
  <2>5. ASSUME NEW key \in Keys, NEW d \in DOMAIN notifiers, NEW uuid \in Uuids,
               UnsubscribeFrom(key, d, uuid)
        PROVE  AllSee'
    <3>1. PICK C \in SUBSET {<<d, uuid>>} : SendClose(C, key)
      BY <2>5 DEF UnsubscribeFrom, Live
    <3>2. \A e \in DOMAIN notifiers' : \A u \in notifiers'[e] :
            e \in DOMAIN notifiers /\ u \in notifiers[e] /\ <<e, u>> # <<d, uuid>>
      BY <2>5 DEF UnsubscribeFrom, TypeOK
    <3>3. \A e \in DOMAIN notifiers' : \A u \in notifiers'[e] : chans'[<<e, u>>] = chans[<<e, u>>]
      BY <3>1, <3>2 DEF SendClose, Open
    <3>4. storage' = storage /\ \A k : StorageGet(k)' = StorageGet(k)
      BY <2>5 DEF UnsubscribeFrom, StorageGet
    <3> HIDE DEF AllSee, Sees
    <3> QED
      BY <3>2, <3>3, <3>4, SeesTheSame
  <2>6. CASE Restart
    <3>1. DOMAIN notifiers' = {}
      BY <2>6 DEF Restart
    <3> QED
      BY <3>1
  <2>7. CASE UNCHANGED <<notifiers, chans, storage>>
    BY <2>7, SeesTheSame DEF StorageGet
  <2> QED
    BY <2>1, <2>2, <2>4, <2>5, <2>6, <2>7
    DEF Next, Put, PutRefused, PutNotStored, Get, Trace, Unsubscribe, UnsubscribeNotFound, DropReceiver, vars
<1>3. TypeOK /\ AllSee => SubscriberSeesLatest
  <2> SUFFICES ASSUME TypeOK, AllSee, NEW c \in Subscribers PROVE Sees(c[1], chans[c].told)
    BY DEF SubscriberSeesLatest, Sees
  <2>1. c = <<c[1], c[2]>> /\ c[1] \in DOMAIN notifiers /\ c[2] \in notifiers[c[1]]
    BY DEF Subscribers, IsRegistered, TypeOK, Slots
  <2> QED
    BY <2>1 DEF AllSee
<1> QED
  BY <1>1, <1>2, <1>3, ListeningStep, TypeCorrect, StaysOpen, StorageIsIndexed, PTL DEF Spec
-----------------------------------------------------------------------------
(***************************************************************************)
(* What each method does to the registrations, and to the data behind      *)
(* them, as long as nobody drops a receiver.                               *)
(***************************************************************************)
Registrations == ChansAt(notifiers, DOMAIN notifiers)

CoreInv == TypeOK /\ StorageIndexed /\ Open /\ Listening

\* CoreInv is inductive.
LEMMA CoreInvInit == Init => CoreInv
BY DEF Init, CoreInv, TypeOK, StorageIndexed, Open, Listening

\* The four parts of the core's invariant are inductive together.
LEMMA CoreInvStep ==
  ASSUME ~Drops, CoreInv, [Next]_vars
  PROVE  CoreInv'
<1>1. TypeOK'
  BY TypeStep DEF CoreInv
<1> QED
  BY <1>1, IndexStep, OpenStep, ListeningStep DEF CoreInv

\* A registration is a client in the map of a node's Notification.
LEMMA InRegistrations ==
  ASSUME NEW d, NEW u
  PROVE  <<d, u>> \in Registrations <=> d \in DOMAIN notifiers /\ u \in notifiers[d]
BY DEF Registrations, ChansAt

\* put changes no registration, and stores the value if and only if it says so.
LEMMA PutEffect ==
  ASSUME CoreInv, NEW key \in Keys, NEW value \in Values, Put(key, value)
  PROVE  /\ notifiers' = notifiers /\ objects' \subseteq objects \cup {key}
         /\ IF reply'.ok THEN /\ ~HasWildcard(key)
                              /\ DOMAIN storage' = DOMAIN storage \cup {key}
                              /\ \A k \in DOMAIN storage' :
                                   storage'[k] = IF k = key THEN value ELSE storage[k]
                         ELSE storage' = storage
<1>1. CASE PutRefused(key) \/ PutNotStored(key)
  BY <1>1 DEF PutRefused, PutNotStored, Reply
<1>2. CASE PutStored(key, value)
  <2>1. AllLive(ChansAt(notifiers, OnPath(DOMAIN notifiers, key)))
    BY NoSendFails DEF OnPath, CoreInv
  <2>2. reply'.ok
    BY <1>2, <2>1 DEF PutStored, Reply
  <2> QED
    BY <1>2, <2>2 DEF PutStored, PutRejected, StoragePut
<1> QED
  BY <1>1, <1>2 DEF Put

\* delete ends the registrations that its key selects, and no others.
LEMMA DeleteEffect ==
  ASSUME CoreInv, NEW key \in Keys, Delete(key)
  PROVE  /\ objects' \subseteq objects
         /\ Registrations' = {c \in Registrations : ~Selects(key, c[1])}
         /\ DOMAIN storage' \subseteq DOMAIN storage
         /\ \A k \in DOMAIN storage' : storage'[k] = storage[k]
<1> DEFINE S == Selected(DOMAIN notifiers, key)
<1>1. ~DeleteUnsubscribeFails(key)
  <2> SUFFICES ASSUME DeleteUnsubscribeFails(key) PROVE FALSE
    OBVIOUS
  <2>1. PICK last \in S : ~AllLive(ChansAt(notifiers, {last}))
    BY DEF DeleteUnsubscribeFails
  <2> QED
    BY <2>1, NoSendFails DEF Selected, CoreInv
<1>2. notifiers' = Drained(S) \/ notifiers' = Removed(Drained(S), key)
  BY <1>1 DEF Delete, DeletePathFails, DeleteStorageFails, DeleteDone
<1>3. ASSUME NEW d, NEW u
      PROVE  d \in DOMAIN notifiers' /\ u \in notifiers'[d]
               <=> d \in DOMAIN notifiers /\ u \in notifiers[d] /\ ~Selects(key, d)
  <2>1. d \in DOMAIN Drained(S) /\ u \in Drained(S)[d]
          <=> d \in DOMAIN notifiers /\ u \in notifiers[d] /\ ~Selects(key, d)
    BY DEF Drained, Selected
  <2>2. CASE notifiers' = Drained(S)
    BY <2>1, <2>2
  <2>3. CASE notifiers' = Removed(Drained(S), key)
    <3>1. DOMAIN notifiers' = {e \in DOMAIN notifiers : ~Removes(key, e)}
      BY <2>3 DEF Removed, Kept, Restrict, Drained
    <3>2. \A e \in DOMAIN notifiers' : notifiers'[e] = Drained(S)[e]
      BY <2>3 DEF Removed, Kept, Restrict
    <3>3. d \in DOMAIN notifiers /\ Removes(key, d) => Selects(key, d)
      BY RemovesSelected DEF CoreInv, TypeOK, DataKeys
    <3>4. DOMAIN Drained(S) = DOMAIN notifiers
      BY DEF Drained
    <3> HIDE DEF S
    <3> QED
      BY <2>1, <3>1, <3>2, <3>3, <3>4
  <2> QED
    BY <1>2, <2>2, <2>3
<1>4. Registrations' = {c \in Registrations : ~Selects(key, c[1])}
  <2>1. ASSUME NEW c \in Registrations' PROVE c \in {x \in Registrations : ~Selects(key, x[1])}
    <3>1. PICK d \in DOMAIN notifiers' : \E u \in notifiers'[d] : c = <<d, u>>
      BY DEF Registrations, ChansAt
    <3>2. PICK u \in notifiers'[d] : c = <<d, u>>
      BY <3>1
    <3>3. <<d, u>> \in Registrations /\ ~Selects(key, d)
      BY <1>3, <3>1, <3>2, InRegistrations
    <3> QED
      BY <3>2, <3>3
  <2>2. ASSUME NEW c \in Registrations, ~Selects(key, c[1]) PROVE c \in Registrations'
    <3>1. PICK d \in DOMAIN notifiers : \E u \in notifiers[d] : c = <<d, u>>
      BY DEF Registrations, ChansAt
    <3>2. PICK u \in notifiers[d] : c = <<d, u>>
      BY <3>1
    <3>3. ~Selects(key, d)
      BY <2>2, <3>2
    <3>4. d \in DOMAIN notifiers' /\ u \in notifiers'[d]
      BY <1>3, <3>1, <3>2, <3>3
    <3> QED
      BY <3>2, <3>4 DEF Registrations, ChansAt
  <2> QED
    BY <2>1, <2>2
<1>5. objects' \subseteq objects
  BY <1>1 DEF Delete, DeletePathFails, DeleteStorageFails, DeleteDone, Kept
<1>6. storage' = storage \/ \E T : storage' = Restrict(storage, DOMAIN storage \ T)
  BY <1>1 DEF Delete, DeletePathFails, DeleteStorageFails, DeleteDone, StorageDelete
<1>7. DOMAIN storage' \subseteq DOMAIN storage /\ \A k \in DOMAIN storage' : storage'[k] = storage[k]
  BY <1>6 DEF Restrict
<1> QED
  BY <1>4, <1>5, <1>7

\* unsubscribe ends the registration of the uuid at the one selected node.
LEMMA UnsubscribeEffect ==
  ASSUME CoreInv, NEW key \in Keys, NEW uuid \in Uuids, Unsubscribe(key, uuid)
  PROVE  LET selected == Selected(DOMAIN notifiers, key)
         IN Registrations' = Registrations \ {<<d, uuid>> : d \in {e \in selected : selected = {e}}}
<1> DEFINE selected == Selected(DOMAIN notifiers, key)
           ended == {<<d, uuid>> : d \in {e \in selected : selected = {e}}}
<1>1. CASE UnsubscribeNotFound(key)
  <2>1. ended = {} /\ notifiers' = notifiers
    BY <1>1 DEF UnsubscribeNotFound
  <2> QED
    BY <2>1 DEF Registrations, ChansAt
<1>2. ASSUME NEW d \in DOMAIN notifiers, UnsubscribeFrom(key, d, uuid)
      PROVE  Registrations' = Registrations \ ended
  <2>1. selected = {d} /\ notifiers' = [notifiers EXCEPT ![d] = @ \ {uuid}]
    BY <1>2 DEF UnsubscribeFrom
  <2>2. ended = {<<d, uuid>>}
    BY <2>1
  <2>3. \A e, u : e \in DOMAIN notifiers' /\ u \in notifiers'[e]
                    <=> e \in DOMAIN notifiers /\ u \in notifiers[e] /\ <<e, u>> # <<d, uuid>>
    BY <2>1 DEF CoreInv, TypeOK
  <2> HIDE DEF selected, ended
  <2>4. ASSUME NEW c \in Registrations' PROVE c \in Registrations \ ended
    <3>1. PICK e \in DOMAIN notifiers' : \E u \in notifiers'[e] : c = <<e, u>>
      BY DEF Registrations, ChansAt
    <3>2. PICK u \in notifiers'[e] : c = <<e, u>>
      BY <3>1
    <3>3. e \in DOMAIN notifiers /\ u \in notifiers[e] /\ <<e, u>> # <<d, uuid>>
      BY <2>3, <3>1, <3>2
    <3> QED
      BY <2>2, <3>2, <3>3, InRegistrations
  <2>5. ASSUME NEW c \in Registrations, c \notin ended PROVE c \in Registrations'
    <3>1. PICK e \in DOMAIN notifiers : \E u \in notifiers[e] : c = <<e, u>>
      BY DEF Registrations, ChansAt
    <3>2. PICK u \in notifiers[e] : c = <<e, u>>
      BY <3>1
    <3>3. e \in DOMAIN notifiers' /\ u \in notifiers'[e]
      BY <2>2, <2>3, <2>5, <3>1, <3>2
    <3> QED
      BY <3>2, <3>3 DEF Registrations, ChansAt
  <2> QED
    BY <2>4, <2>5
<1> QED
  BY <1>1, <1>2 DEF Unsubscribe

\* subscribe that goes through makes one registration, or none.
LEMMA SubscribeEffect ==
  ASSUME CoreInv, NEW key \in Keys, NEW uuid \in Uuids, Subscribe(key, uuid)
  PROVE  \/ Registrations' = Registrations
         \/ /\ reply'.ok
            /\ \E d \in DataKeys : /\ Selects(key, d) /\ <<d, uuid>> \notin Registrations
                                   /\ Registrations' = Registrations \cup {<<d, uuid>>}
<1>1. ASSUME NEW d \in DataKeys, Selects(key, d), Joined(key, d, uuid),
             d \in DOMAIN notifiers => uuid \notin notifiers[d]
      PROVE  /\ reply'.ok /\ <<d, uuid>> \notin Registrations
             /\ Registrations' = Registrations \cup {<<d, uuid>>}
  <2>1. notifiers' = Registered(notifiers, d, uuid) /\ reply'.ok
    BY <1>1 DEF Joined, Reply
  <2>2. \A e, u : e \in DOMAIN notifiers' /\ u \in notifiers'[e]
                    <=> (e \in DOMAIN notifiers /\ u \in notifiers[e]) \/ <<e, u>> = <<d, uuid>>
    BY <2>1 DEF Registered
  <2>3. ASSUME NEW c \in Registrations' PROVE c \in Registrations \cup {<<d, uuid>>}
    <3>1. PICK e \in DOMAIN notifiers' : \E u \in notifiers'[e] : c = <<e, u>>
      BY DEF Registrations, ChansAt
    <3>2. PICK u \in notifiers'[e] : c = <<e, u>>
      BY <3>1
    <3> QED
      BY <2>2, <3>1, <3>2, InRegistrations
  <2>4. ASSUME NEW c \in Registrations PROVE c \in Registrations'
    <3>1. PICK e \in DOMAIN notifiers : \E u \in notifiers[e] : c = <<e, u>>
      BY DEF Registrations, ChansAt
    <3>2. PICK u \in notifiers[e] : c = <<e, u>>
      BY <3>1
    <3>3. e \in DOMAIN notifiers' /\ u \in notifiers'[e]
      BY <2>2, <3>1, <3>2
    <3> QED
      BY <3>2, <3>3 DEF Registrations, ChansAt
  <2>5. <<d, uuid>> \in Registrations'
    <3>1. d \in DOMAIN notifiers' /\ uuid \in notifiers'[d]
      BY <2>2
    <3> QED
      BY <3>1 DEF Registrations, ChansAt
  <2>6. <<d, uuid>> \notin Registrations
    BY <1>1, InRegistrations
  <2> QED
    BY <2>1, <2>3, <2>4, <2>5, <2>6
<1>2. CASE SubscribeNew(key, uuid)
  <2>1. key \in DataKeys /\ Selects(key, key) /\ key \notin DOMAIN notifiers
    BY <1>2, PutSelectsItself DEF SubscribeNew, DataKeys, Selected
  <2> QED
    BY <1>1, <1>2, <2>1 DEF SubscribeNew
<1>3. CASE SubscribeDetached(key, uuid) \/ SubscribeRefused(key, uuid)
  <2>1. notifiers' = notifiers
    BY <1>3 DEF SubscribeDetached, SubscribeRefused
  <2> QED
    BY <2>1 DEF Registrations, ChansAt
<1>4. CASE \E d \in DOMAIN notifiers : SubscribeJoin(key, d, uuid)
  <2>1. PICK d \in DOMAIN notifiers : SubscribeJoin(key, d, uuid)
    BY <1>4
  <2>2. d \in DataKeys /\ Selects(key, d) /\ uuid \notin notifiers[d] /\ Joined(key, d, uuid)
    BY <2>1 DEF SubscribeJoin, Selected, CoreInv, TypeOK
  <2> QED
    BY <1>1, <2>2
<1> QED
  BY <1>2, <1>3, <1>4 DEF Subscribe

\* Every registration is a slot.
LEMMA RegistrationsAreSlots ==
  ASSUME CoreInv
  PROVE  Registrations \subseteq Slots
BY DEF CoreInv, TypeOK, Registrations, ChansAt, Slots

\* unsubscribe and subscribe leave the data alone, and a restart brings none.
LEMMA OtherEffect ==
  ASSUME NEW key \in Keys, NEW uuid \in Uuids, Subscribe(key, uuid) \/ Unsubscribe(key, uuid)
  PROVE  storage' = storage /\ objects' = objects
BY SubscribeReplies, UnsubscribeReplies

\* new rebuilds objects from the durable storage, so it adds nothing to it.
LEMMA RestartEffect ==
  ASSUME CoreInv, Restart
  PROVE  objects' \subseteq objects
BY DEF CoreInv, StorageIndexed, Restart, Restrict

=============================================================================
