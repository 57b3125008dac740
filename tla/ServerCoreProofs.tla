-------------------------- MODULE ServerCoreProofs --------------------------
(***************************************************************************)
(* That the loop's map of Notifiers keeps up with the core behind it, and  *)
(* that the whole server is the service that module Service describes: the *)
(* lemmas about the core are those of NkvCoreProofs, for a core whose      *)
(* receivers nobody drops.                                                 *)
(***************************************************************************)
EXTENDS ServerProofs, FiniteSetTheorems

P == INSTANCE NkvCoreProofs WITH Drops <- FALSE

\* The assumptions of the core are among those of the server.
LEMMA CoreAssumptions ==
  /\ P!WildcardAssumption /\ P!KeysAssumption /\ P!EmptyAssumption /\ P!FaultsAssumption
BY StarAssumption, PathsAssumption, NoValueAssumption
DEF P!WildcardAssumption, P!KeysAssumption, P!EmptyAssumption, P!FaultsAssumption,
    P!Segments, P!Range, Range

(***************************************************************************)
(* The proofs read NkvCore through their own copy of it, with the same     *)
(* constants and variables.                                                *)
(***************************************************************************)
LEMMA SameKeySpace ==
  ASSUME NEW S, NEW key, NEW d
  PROVE  /\ P!Selects(key, d) <=> Core!Selects(key, d)
         /\ P!Selected(S, key) = Core!Selected(S, key)
         /\ P!OnPath(S, key) = Core!OnPath(S, key)
         /\ P!HasWildcard(key) <=> Core!HasWildcard(key)
         /\ P!Removes(key, d) <=> Core!Removes(key, d)
         /\ P!Kept(S, key) = Core!Kept(S, key)
BY DEF P!Selects, P!WalkStops, P!Selected, P!OnPath, P!IsAncestorKey, P!IsPrefixKey, P!HasWildcard,
       P!Removes, P!Kept,
       Core!Selects, Core!WalkStops, Core!Selected, Core!OnPath, Core!IsAncestorKey,
       Core!IsPrefixKey, Core!HasWildcard, Core!Removes, Core!Kept

\* The channels and the registrations.
LEMMA SameChannels ==
  ASSUME NEW n, NEW S, NEW C
  PROVE  /\ P!ChansAt(n, S) = Core!ChansAt(n, S)
         /\ P!Live(C) = Core!Live(C) /\ (P!AllLive(C) <=> Core!AllLive(C))
         /\ P!Reached(C) = Core!Reached(C)
BY DEF P!ChansAt, P!Live, P!AllLive, P!Reached, Core!ChansAt, Core!Live, Core!AllLive, Core!Reached

\* The shapes.
LEMMA SameType == P!TypeOK <=> Core!TypeOK
BY DEF P!TypeOK, P!DataKeys, P!HasWildcard, P!Slots, P!Channel,
       Core!TypeOK, Core!DataKeys, Core!HasWildcard, Core!Slots, Core!Channel

\* A step of the one is a step of the other: first put.
LEMMA SamePut ==
  ASSUME NEW key, NEW value, Core!Put(key, value)
  PROVE  P!Put(key, value)
BY DEF P!Put, P!PutRefused, P!PutNotStored, P!PutStored, P!PutRejected, P!StoragePut, P!Reply,
       P!HasWildcard, P!Selects, P!WalkStops, P!Selected, P!OnPath, P!IsAncestorKey,
       P!IsPrefixKey, P!ChansAt, P!Live, P!AllLive, P!Reached, P!PathReached, P!SendUpdate,
       P!Updated, Core!Put, Core!PutRefused, Core!PutNotStored, Core!PutStored,
       Core!PutRejected, Core!StoragePut, Core!Reply, Core!HasWildcard, Core!Selects,
       Core!WalkStops, Core!Selected, Core!OnPath, Core!IsAncestorKey, Core!IsPrefixKey,
       Core!ChansAt, Core!Live, Core!AllLive, Core!Reached, Core!PathReached, Core!SendUpdate,
       Core!Updated

\* get.
LEMMA SameGet ==
  ASSUME NEW key, Core!Get(key)
  PROVE  P!Get(key)
BY DEF P!Get, P!Found, P!StorageGet, P!Selects, P!WalkStops, P!Selected, P!Reply, Core!Get,
       Core!Found, Core!StorageGet, Core!Selects, Core!WalkStops, Core!Selected, Core!Reply

\* delete.
LEMMA SameDelete ==
  ASSUME NEW key, Core!Delete(key)
  PROVE  P!Delete(key)
BY DEF P!Delete, P!DeleteUnsubscribeFails, P!DeletePathFails, P!DeleteStorageFails,
       P!DeleteDone, P!DeleteClosesSent, P!MetBefore, P!Drained, P!StorageDelete, P!Reply,
       P!Selects, P!WalkStops, P!Selected, P!OnPath, P!IsAncestorKey, P!IsPrefixKey, P!Removes,
       P!Kept, P!Removed, P!Restrict, P!ChansAt, P!Live, P!AllLive, P!Reached, P!PathReached,
       P!SendClose, P!Closed, Core!Delete, Core!DeleteUnsubscribeFails, Core!DeletePathFails,
       Core!DeleteStorageFails, Core!DeleteDone, Core!DeleteClosesSent, Core!MetBefore,
       Core!Drained, Core!StorageDelete, Core!Reply, Core!Selects, Core!WalkStops,
       Core!Selected, Core!OnPath, Core!IsAncestorKey, Core!IsPrefixKey, Core!Removes,
       Core!Kept, Core!Removed, Core!Restrict, Core!ChansAt, Core!Live, Core!AllLive,
       Core!Reached, Core!PathReached, Core!SendClose, Core!Closed

\* subscribe.
LEMMA SameSubscribe ==
  ASSUME NEW key, NEW uuid, Core!Subscribe(key, uuid)
  PROVE  P!Subscribe(key, uuid)
BY DEF P!Subscribe, P!SubscribeNew, P!SubscribeDetached, P!SubscribeJoin, P!SubscribeRefused,
       P!Joined, P!Registered, P!NewChannel, P!StorageGet, P!Reply, P!Selects, P!WalkStops,
       P!Selected, P!HasWildcard, Core!Subscribe, Core!SubscribeNew, Core!SubscribeDetached,
       Core!SubscribeJoin, Core!SubscribeRefused, Core!Joined, Core!Registered,
       Core!NewChannel, Core!StorageGet, Core!Reply, Core!Selects, Core!WalkStops,
       Core!Selected, Core!HasWildcard

\* unsubscribe.
LEMMA SameUnsubscribe ==
  ASSUME NEW key, NEW uuid, Core!Unsubscribe(key, uuid)
  PROVE  P!Unsubscribe(key, uuid)
BY DEF P!Unsubscribe, P!UnsubscribeFrom, P!UnsubscribeNotFound, P!Reply, P!Selects,
       P!WalkStops, P!Selected, P!ChansAt, P!Live, P!AllLive, P!SendClose, P!Closed,
       P!Restrict, Core!Unsubscribe, Core!UnsubscribeFrom, Core!UnsubscribeNotFound,
       Core!Reply, Core!Selects, Core!WalkStops, Core!Selected, Core!ChansAt, Core!Live,
       Core!AllLive, Core!SendClose, Core!Closed, Core!Restrict

\* trace.
LEMMA SameTrace ==
  ASSUME NEW key, Core!Trace(key)
  PROVE  P!Trace(key)
BY DEF P!Trace, P!Traced, P!Reply, P!Selects, P!WalkStops, P!Selected, P!OnPath,
       P!IsAncestorKey, P!IsPrefixKey, Core!Trace, Core!Traced, Core!Reply, Core!Selects,
       Core!WalkStops, Core!Selected, Core!OnPath, Core!IsAncestorKey, Core!IsPrefixKey

\* A restart.
LEMMA SameRestart ==
  ASSUME Core!Restart
  PROVE  P!Restart
BY DEF P!Restart, P!Reply, P!Restrict, Core!Restart, Core!Reply, Core!Restrict

\* The core starts as the other does.
LEMMA SameInit == Core!Init => P!Init
BY DEF Core!Init, P!Init

-----------------------------------------------------------------------------
(* The core behind the loop. *)

\* The loop serves requests that it takes from the queue of their kind.
LEMMA ServedRequest ==
  ASSUME Inv, NEW op \in Ops, NEW h, Takes(op, h)
  PROVE  /\ h \in Handlers /\ Waits(h, op) /\ loop.pc = "select" /\ conns[h].req \in Requests
         /\ conns[h].req.key \in Keys /\ conns[h].req.uuid \in Uuids /\ conns[h].req.value \in Values
<1>1. queues[op] \in Seq(Handlers) /\ queues[op] # <<>> /\ h = Head(queues[op]) /\ loop.pc = "select"
  BY DEF Takes, Inv, QueuesOK
<1>2. h = queues[op][1] /\ 1 \in 1..Len(queues[op])
  BY <1>1
<1>3. h \in Handlers /\ Waits(h, op)
  BY <1>1, <1>2 DEF Inv, QueuesOK
<1> QED
  BY <1>1, <1>3, RequestsAssumption DEF Inv, ConnsOK

\* What a step that serves a request asks of the core.
LEMMA ServedByCore ==
  ASSUME Inv, NEW h, LoopServes(h)
  PROVE  LET req == conns[h].req
         IN /\ req.key \in Keys /\ req.uuid \in Uuids /\ req.value \in Values
            /\ \/ req.op = "put" /\ P!Put(req.key, req.value)
               \/ req.op = "get" /\ P!Get(req.key)
               \/ req.op = "delete" /\ P!Delete(req.key)
               \/ req.op = "trace" /\ P!Trace(req.key)
               \/ req.op = "unsubscribe" /\ P!Unsubscribe(req.key, req.uuid)
               \/ req.op = "subscribe" /\ P!Subscribe(req.key, req.uuid)
               \/ req.op = "subscribe" /\ UNCHANGED coreVars
<1>0. Ops = {"put", "get", "delete", "subscribe", "unsubscribe", "trace"}
  BY DEF Ops
<1>1. CASE LoopPut(h)
  <2>1. Takes("put", h) /\ Core!Put(conns[h].req.key, conns[h].req.value)
    BY <1>1 DEF LoopPut
  <2> QED
    BY <1>0, <2>1, ServedRequest, SamePut DEF Waits
<1>2. CASE LoopGet(h)
  <2>1. Takes("get", h) /\ Core!Get(conns[h].req.key)
    BY <1>2 DEF LoopGet
  <2> QED
    BY <1>0, <2>1, ServedRequest, SameGet DEF Waits
<1>3. CASE LoopDelete(h)
  <2>1. Takes("delete", h) /\ Core!Delete(conns[h].req.key)
    BY <1>3 DEF LoopDelete
  <2> QED
    BY <1>0, <2>1, ServedRequest, SameDelete DEF Waits
<1>4. CASE LoopTrace(h)
  <2>1. Takes("trace", h) /\ Core!Trace(conns[h].req.key)
    BY <1>4 DEF LoopTrace
  <2> QED
    BY <1>0, <2>1, ServedRequest, SameTrace DEF Waits
<1>5. CASE LoopUnsubscribe(h)
  <2>1. Takes("unsubscribe", h) /\ Core!Unsubscribe(conns[h].req.key, conns[h].req.uuid)
    BY <1>5 DEF LoopUnsubscribe
  <2> QED
    BY <1>0, <2>1, ServedRequest, SameUnsubscribe DEF Waits
<1>6. CASE LoopFindsNotifier(h)
  <2>1. Takes("subscribe", h) /\ UNCHANGED coreVars
    BY <1>6 DEF LoopFindsNotifier
  <2> QED
    BY <1>0, <2>1, ServedRequest DEF Waits
<1>7. CASE LoopMakesNotifier(h) \/ LoopRefusesSubscription(h)
  <2>1. Takes("subscribe", h) /\ Core!Subscribe(conns[h].req.key, conns[h].req.uuid)
    BY <1>7 DEF LoopMakesNotifier, LoopRefusesSubscription
  <2> QED
    BY <1>0, <2>1, ServedRequest, SameSubscribe DEF Waits
<1> QED
  BY <1>1, <1>2, <1>3, <1>4, <1>5, <1>6, <1>7 DEF LoopServes

\* Every step of the server is a step of the core, or leaves it alone.
LEMMA ServerStepsTheCore ==
  ASSUME Inv, [Next]_vars
  PROVE  [P!Next]_(P!vars)
<1>1. ASSUME NEW h \in DOMAIN conns, LoopServes(h) PROVE [P!Next]_(P!vars)
  BY <1>1, ServedByCore DEF P!Next, P!vars, coreVars
<1>2. CASE Restart
  <2>1. P!Restart
    BY <1>2, SameRestart DEF Restart
  <2> QED
    BY <2>1 DEF P!Next
<1>3. CASE UNCHANGED coreVars
  BY <1>3 DEF P!vars, coreVars
<1> QED
  BY <1>1, <1>2, <1>3
  DEF Next, HandleRequest, HandleQueued, HandleRefused, HandleDirectly, HandleMalformed,
      WriteResponse, HandlerPanics, PeerStalls, PeerReads, PeerGoes, PeerBecomes, LoopJoins,
      LoopCancelled, ServeReturns, CastStarts, CastStalls, CastWrites, CleanUp, vars

\* So the core stays what its proofs say it is.
LEMMA CoreInvKept ==
  ASSUME Inv, P!CoreInv, [Next]_vars
  PROVE  P!CoreInv'
BY ServerStepsTheCore, CoreAssumptions, P!CoreInvStep

\* From the first state on.
LEMMA CoreInvFirst == Init => P!CoreInv
BY CoreAssumptions, SameInit, P!CoreInvInit DEF Init

-----------------------------------------------------------------------------
(* The map of Notifiers and the core. *)

\* The messages of a Notifier are numbered, and so are its broadcasts.
CountsOK(e) ==
  /\ \E S : e.chan \in Seq(S)
  /\ e.taken \in 0..Len(e.chan) /\ e.casts \subseteq 0..Len(e.chan)
  /\ e.held \in e.casts \cup {0}

NotifiersOK ==
  \A k \in Subscribed : entries[k].slot \in P!Slots \cup {NoSlot} /\ CountsOK(entries[k])

(***************************************************************************)
(* The strengthening under which the map of Notifiers follows the core:    *)
(* only with every subscription of the core read by one entry does each    *)
(* message of the core reach the entry that must have it.                  *)
(***************************************************************************)
ReadInv == NotifiersOK /\ EverySubscriptionIsRead /\ ChannelIsCurrent

FullInv == Inv /\ P!CoreInv /\ IsFiniteSet(objects) /\ ReadInv

\* The messages ch leave no doubt that key d has the value.
Current(ch, d, value) ==
  \E i \in 1..Len(ch) :
    /\ ch[i] = Update(d, value)
    /\ \A j \in i..Len(ch) : About(ch[j], d) => ch[j] = Update(d, value)

\* ChannelIsCurrent, said through Current.
LEMMA CurrentChannels ==
  ChannelIsCurrent <=>
    \A k \in Subscribed :
      entries[k].slot # NoSlot /\ entries[k].slot[1] \in DOMAIN storage
        => Current(entries[k].chan, entries[k].slot[1], storage[entries[k].slot[1]])
BY DEF ChannelIsCurrent, Current

\* A message about other keys leaves none either, and an update of d settles it.
LEMMA CurrentAppended ==
  ASSUME NEW S, NEW ch \in Seq(S), NEW msg, NEW d, NEW value,
         msg = Update(d, value) \/ (Current(ch, d, value) /\ ~About(msg, d))
  PROVE  Current(Append(ch, msg), d, value)
<1> DEFINE n == Len(ch)
           new == Append(ch, msg)
<1>1. /\ n \in Nat /\ Len(new) = n + 1 /\ new[n + 1] = msg
      /\ \A i \in 1..n : new[i] = ch[i]
  OBVIOUS
<1>2. CASE msg = Update(d, value)
  <2>1. n + 1 \in 1..Len(new) /\ \A j \in (n + 1)..Len(new) : j = n + 1
    BY <1>1
  <2> HIDE DEF n, new
  <2> QED
    BY <1>1, <1>2, <2>1 DEF Current, new
<1>3. CASE Current(ch, d, value) /\ ~About(msg, d)
  <2>1. PICK i \in 1..n : /\ ch[i] = Update(d, value)
                          /\ \A j \in i..n : About(ch[j], d) => ch[j] = Update(d, value)
    BY <1>3 DEF Current
  <2>2. i \in 1..Len(new) /\ \A j \in i..Len(new) : (j \in i..n /\ j \in 1..n) \/ j = n + 1
    BY <1>1
  <2> HIDE DEF n, new
  <2>3. new[i] = Update(d, value)
    BY <1>1, <2>1
  <2>4. \A j \in i..Len(new) : About(new[j], d) => new[j] = Update(d, value)
    BY <1>1, <1>3, <2>1, <2>2
  <2> QED
    BY <2>2, <2>3, <2>4 DEF Current, new
<1> QED
  BY <1>2, <1>3

\* No subscription of the core is taken for none.
LEMMA RealSlots ==
  ASSUME P!CoreInv
  PROVE  /\ Slots(notifiers) = P!Registrations /\ Slots(notifiers) \subseteq P!Slots
         /\ NoSlot \notin P!Slots
<1>1. Slots(notifiers) = P!Registrations
  BY SameChannels DEF Slots, P!Registrations
<1>2. P!Registrations \subseteq P!Slots
  BY CoreAssumptions, P!RegistrationsAreSlots
<1>3. NoSlot \notin P!Slots
  BY DEF NoSlot, P!Slots
<1> QED
  BY <1>1, <1>2, <1>3

\* Steps that leave the core, the channels and the slots of the map alone.
LEMMA QuietKeepsReading ==
  ASSUME ReadInv, UNCHANGED <<notifiers, storage>>, Subscribed' = Subscribed,
         loop.pc = "ended" => loop'.pc = "ended",
         \A k \in Subscribed : /\ entries'[k].slot = entries[k].slot
                               /\ entries'[k].chan = entries[k].chan /\ CountsOK(entries'[k])
  PROVE  ReadInv'
<1>1. NotifiersOK'
  BY DEF ReadInv, NotifiersOK
<1>2. EverySubscriptionIsRead'
  BY DEF ReadInv, EverySubscriptionIsRead, Slots
<1>3. ChannelIsCurrent'
  BY DEF ReadInv, ChannelIsCurrent
<1> QED
  BY <1>1, <1>2, <1>3 DEF ReadInv

\* So do steps that change one entry, and not what it reads.
LEMMA OneEntryKeepsReading ==
  ASSUME Inv, ReadInv, UNCHANGED <<notifiers, storage>>, NEW k \in Subscribed, NEW e,
         loop.pc = "ended" => loop'.pc = "ended",
         IsNotifier(e), e.slot = entries[k].slot, e.chan = entries[k].chan, CountsOK(e),
         entries' = [entries EXCEPT ![k] = e]
  PROVE  ReadInv'
<1>1. /\ Subscribed' = Subscribed
      /\ \A j \in Subscribed : entries'[j] = IF j = k THEN e ELSE entries[j]
  BY OneEntry DEF Inv
<1>2. ASSUME NEW j \in Subscribed
      PROVE  /\ entries'[j].slot = entries[j].slot
             /\ entries'[j].chan = entries[j].chan /\ CountsOK(entries'[j])
  BY <1>1 DEF ReadInv, NotifiersOK
<1> QED
  BY <1>1, <1>2, QuietKeepsReading

\* Broadcasts.
LEMMA CastKeepsReading ==
  ASSUME Inv, ReadInv, NEW k \in Subscribed, NEW i,
         CastStarts(k) \/ (i \in entries[k].casts /\ (CastStalls(k, i) \/ CastWrites(k, i)))
  PROVE  ReadInv'
<1> DEFINE e == entries[k]
<1>0. UNCHANGED <<notifiers, storage>> /\ loop' = loop
  BY DEF CastStarts, CastStalls, CastWrites, coreVars
<1>1. IsNotifier(e) /\ CountsOK(e)
  BY DEF Inv, EntriesOK, ReadInv, NotifiersOK
<1>2. PICK new : /\ IsNotifier(new) /\ new.slot = e.slot /\ new.chan = e.chan /\ CountsOK(new)
                 /\ entries' = [entries EXCEPT ![k] = new]
  <2>1. CASE CastStarts(k)
    <3>1. PICK j \in e.taken + 1..Len(e.chan) :
            entries' = [entries EXCEPT ![k].taken = j, ![k].casts = @ \cup {j}]
      BY <2>1 DEF CastStarts
    <3> DEFINE casts == e.casts \cup {j}
               new == [e EXCEPT !.taken = j, !.casts = casts]
    <3>2. entries' = [entries EXCEPT ![k] = new]
      BY <3>1
    <3>3. j \in 0..Len(e.chan) /\ casts \subseteq 0..Len(e.chan) /\ e.held \in casts \cup {0}
      BY <1>1 DEF CountsOK
    <3> HIDE DEF e, casts
    <3>4. IsNotifier(new) /\ new.slot = e.slot /\ new.chan = e.chan /\ new.casts = casts
          /\ new.taken = j /\ new.held = e.held
      BY <1>1 DEF IsNotifier
    <3> HIDE DEF new
    <3>5. CountsOK(new)
      BY <1>1, <3>3, <3>4 DEF CountsOK
    <3> QED
      BY <3>2, <3>4, <3>5 DEF e
  <2>2. CASE i \in e.casts /\ CastStalls(k, i)
    <3> DEFINE new == [e EXCEPT !.held = i]
    <3>1. entries' = [entries EXCEPT ![k] = new]
      BY <2>2 DEF CastStalls
    <3> HIDE DEF e
    <3>2. IsNotifier(new) /\ new.slot = e.slot /\ new.chan = e.chan /\ new.casts = e.casts
          /\ new.taken = e.taken /\ new.held = i
      BY <1>1 DEF IsNotifier
    <3> HIDE DEF new
    <3>3. CountsOK(new)
      BY <1>1, <2>2, <3>2 DEF CountsOK
    <3> QED
      BY <3>1, <3>2, <3>3 DEF e
  <2>3. CASE CastWrites(k, i)
    <3> DEFINE casts == e.casts \ {i}
               failed == e.failed \cup Peers(e, "gone")
               new == [e EXCEPT !.casts = casts, !.held = 0, !.failed = failed]
    <3>1. entries' = [entries EXCEPT ![k] = new]
      BY <2>3 DEF CastWrites
    <3>2. casts \subseteq 0..Len(e.chan)
      BY <1>1 DEF CountsOK
    <3> HIDE DEF e, casts, failed
    <3>3. IsNotifier(new) /\ new.slot = e.slot /\ new.chan = e.chan /\ new.casts = casts
          /\ new.taken = e.taken /\ new.held = 0
      BY <1>1 DEF IsNotifier
    <3> HIDE DEF new
    <3>4. CountsOK(new)
      BY <1>1, <3>2, <3>3 DEF CountsOK
    <3> QED
      BY <3>1, <3>3, <3>4 DEF e
  <2> QED
    BY <2>1, <2>2, <2>3
<1> QED
  BY <1>0, <1>1, <1>2, OneEntryKeepsReading

\* The list of clients changes: a clean-up and a stream that joins.
LEMMA ClientsKeepReading ==
  ASSUME Inv, ReadInv, UNCHANGED <<notifiers, storage>>, NEW k \in Subscribed,
         loop.pc = "ended" => loop'.pc = "ended", NEW clients, NEW failed,
         entries' = [entries EXCEPT ![k] = [@ EXCEPT !.failed = failed, !.clients = clients]]
  PROVE  ReadInv'
<1> DEFINE e == entries[k]
           new == [e EXCEPT !.failed = failed, !.clients = clients]
<1>1. IsNotifier(e) /\ CountsOK(e)
  BY DEF Inv, EntriesOK, ReadInv, NotifiersOK
<1>2. entries' = [entries EXCEPT ![k] = new]
  OBVIOUS
<1> HIDE DEF e
<1>3. IsNotifier(new) /\ new.slot = e.slot /\ new.chan = e.chan /\ new.casts = e.casts
      /\ new.taken = e.taken /\ new.held = e.held
  BY <1>1 DEF IsNotifier
<1> HIDE DEF new
<1>4. CountsOK(new)
  BY <1>1, <1>3 DEF CountsOK
<1> QED
  BY <1>2, <1>3, <1>4, OneEntryKeepsReading DEF e

\* A clean-up changes the clients of an entry and what has failed, not what it reads.
LEMMA CleanUpKeepsReading ==
  ASSUME Inv, ReadInv, NEW k \in Subscribed, NEW u, CleanUp(k, u)
  PROVE  ReadInv'
<1> DEFINE e == entries[k]
           failed == e.failed \ {u}
           clients == IF u \in Peers(e, "reads")
                        THEN [w \in DOMAIN e.clients \ {u} |-> e.clients[w]] ELSE e.clients
<1>1. entries' = [entries EXCEPT ![k] = [@ EXCEPT !.failed = failed, !.clients = clients]]
  BY DEF CleanUp
<1>2. UNCHANGED <<notifiers, storage>> /\ loop' = loop
  BY DEF CleanUp, coreVars
<1> HIDE DEF failed, clients
<1> QED
  BY <1>1, <1>2, ClientsKeepReading

\* So does a stream that joins.
LEMMA JoinKeepsReading ==
  ASSUME Inv, ReadInv, LoopJoins
  PROVE  ReadInv'
<1> DEFINE h == loop.conn
           key == conns[h].req.key
           uuid == conns[h].req.uuid
           e == entries[key]
           failed == e.failed
           clients == [u \in DOMAIN e.clients \cup {uuid} |-> IF u = uuid THEN h ELSE e.clients[u]]
<1>1. key \in Subscribed
  BY JoinedConns
<1>2. entries' = [entries EXCEPT ![key].clients = clients]
  BY DEF LoopJoins
<1>3. IsNotifier(e)
  BY <1>1 DEF Inv, EntriesOK
<1>4. UNCHANGED <<notifiers, storage>> /\ (loop.pc = "ended" => loop'.pc = "ended")
  BY DEF LoopJoins, coreVars
<1>5. [e EXCEPT !.clients = clients] = [e EXCEPT !.failed = failed, !.clients = clients]
  <2> HIDE DEF e, clients
  <2> QED
    BY <1>3 DEF IsNotifier
<1> HIDE DEF failed, clients, key
<1>6. entries' = [entries EXCEPT ![key] = [@ EXCEPT !.failed = failed, !.clients = clients]]
  BY <1>2, <1>5
<1> QED
  BY <1>1, <1>4, <1>6, ClientsKeepReading

(***************************************************************************)
(* The Notifiers in C are sent what the core sends to its channels, and    *)
(* those whose subscription it ends read none any more.                    *)
(***************************************************************************)
LEMMA InformedReading ==
  ASSUME FullInv, NEW C, NEW msg, entries' = Informed(C, msg, notifiers'),
         loop' = loop, loop.pc # "ended", Slots(notifiers') \subseteq Slots(notifiers),
         \A c \in Slots(notifiers') : c[1] \in DOMAIN storage' =>
           \/ c \in C /\ msg = Update(c[1], storage'[c[1]])
           \/ /\ c[1] \in DOMAIN storage /\ storage'[c[1]] = storage[c[1]]
              /\ c \in C => ~About(msg, c[1])
  PROVE  ReadInv'
<1> DEFINE n == Slots(notifiers')
<1>0. Slots(notifiers') = Slots(notifiers)'
  BY DEF Slots
<1>1. /\ Subscribed' = Subscribed
      /\ \A k \in Subscribed :
           /\ entries'[k].slot = IF entries[k].slot \in n THEN entries[k].slot ELSE NoSlot
           /\ entries'[k].chan = IF entries[k].slot \in C THEN Append(entries[k].chan, msg)
                                                          ELSE entries[k].chan
           /\ entries'[k].taken = entries[k].taken /\ entries'[k].casts = entries[k].casts
           /\ entries'[k].held = entries[k].held
  BY InformedEntries DEF FullInv, Inv
<1>2. n \subseteq P!Slots /\ NoSlot \notin P!Slots /\ NoSlot \notin n
  BY RealSlots DEF FullInv
<1>3. NotifiersOK'
  <2> SUFFICES ASSUME NEW k \in Subscribed
               PROVE  entries'[k].slot \in P!Slots \cup {NoSlot} /\ CountsOK(entries'[k])
    BY <1>1 DEF NotifiersOK
  <2>1. CountsOK(entries[k])
    BY DEF FullInv, ReadInv, NotifiersOK
  <2>2. PICK S : entries[k].chan \in Seq(S)
    BY <2>1 DEF CountsOK
  <2>3. Append(entries[k].chan, msg) \in Seq(S \cup {msg})
        /\ Len(Append(entries[k].chan, msg)) = Len(entries[k].chan) + 1 /\ Len(entries[k].chan) \in Nat
    BY <2>2
  <2>4. \E T : entries'[k].chan \in Seq(T)
    BY <1>1, <2>2, <2>3
  <2>5. 0..Len(entries[k].chan) \subseteq 0..Len(entries'[k].chan)
    <3>1. Len(entries'[k].chan) = Len(entries[k].chan) + 1 \/ Len(entries'[k].chan) = Len(entries[k].chan)
      BY <1>1, <2>3
    <3> QED
      BY <2>3, <3>1
  <2>6. CountsOK(entries'[k])
    BY <1>1, <2>1, <2>4, <2>5 DEF CountsOK
  <2> QED
    BY <1>1, <1>2, <2>6
<1>4. EverySubscriptionIsRead'
  <2>1. /\ Slots(notifiers) = {entries[k].slot : k \in Subscribed} \ {NoSlot}
        /\ \A j, k \in Subscribed :
             entries[j].slot = entries[k].slot /\ j # k => entries[j].slot = NoSlot
    BY DEF FullInv, ReadInv, EverySubscriptionIsRead
  <2>2. ASSUME NEW c \in n
        PROVE  \E k \in Subscribed : entries'[k].slot = c
    BY <1>1, <2>1
  <2>3. ASSUME NEW k \in Subscribed, entries'[k].slot # NoSlot
        PROVE  entries'[k].slot \in n
    BY <1>1, <2>3
  <2>4. n = {entries'[k].slot : k \in Subscribed} \ {NoSlot}
    BY <1>2, <2>2, <2>3
  <2>5. \A j, k \in Subscribed :
          entries'[j].slot = entries'[k].slot /\ j # k => entries'[j].slot = NoSlot
    BY <1>1, <2>1
  <2> QED
    BY <1>0, <1>1, <2>4, <2>5 DEF EverySubscriptionIsRead
<1>5. ChannelIsCurrent'
  <2>1. ASSUME NEW k \in Subscribed, entries'[k].slot # NoSlot,
               entries'[k].slot[1] \in DOMAIN storage'
        PROVE  Current(entries'[k].chan, entries'[k].slot[1], storage'[entries'[k].slot[1]])
    <3> DEFINE c == entries[k].slot
               ch == entries[k].chan
    <3>1. c \in n /\ entries'[k].slot = c /\ c # NoSlot
      BY <1>1, <1>2, <2>1
    <3>2. PICK S : ch \in Seq(S)
      BY DEF FullInv, ReadInv, NotifiersOK, CountsOK
    <3>3. CASE c \in C /\ msg = Update(c[1], storage'[c[1]])
      <4>1. entries'[k].chan = Append(ch, msg)
        BY <1>1, <3>3
      <4> DEFINE d == c[1]
                 value == storage'[c[1]]
      <4>2. msg = Update(d, value)
        BY <3>3
      <4> HIDE DEF ch, d, value
      <4>3. Current(Append(ch, msg), d, value)
        BY <3>2, <4>2, CurrentAppended
      <4> QED
        BY <3>1, <4>1, <4>3 DEF d, value
    <3>4. CASE /\ c[1] \in DOMAIN storage /\ storage'[c[1]] = storage[c[1]]
               /\ c \in C => ~About(msg, c[1])
      <4>1. Current(ch, c[1], storage'[c[1]])
        BY <3>1, <3>4, CurrentChannels DEF FullInv, ReadInv
      <4>2. entries'[k].chan = IF c \in C THEN Append(ch, msg) ELSE ch
        BY <1>1
      <4> HIDE DEF ch, c, n
      <4> QED
        BY <3>1, <3>2, <3>4, <4>1, <4>2, CurrentAppended
    <3> QED
      BY <2>1, <3>1, <3>3, <3>4
  <2> QED
    BY <1>1, <2>1 DEF ChannelIsCurrent, Current
<1> QED
  BY <1>3, <1>4, <1>5 DEF ReadInv

\* A registration at a selected node is a channel that messages for the key go to.
LEMMA OnWayOfSelected ==
  ASSUME NEW key, NEW c \in P!Registrations, Core!Selects(key, c[1])
  PROVE  c \in OnWay(key)
<1>1. PICK d \in DOMAIN notifiers : \E u \in notifiers[d] : c = <<d, u>>
  BY DEF P!Registrations, P!ChansAt
<1>2. d \in Core!Selected(DOMAIN notifiers, key)
  BY <1>1 DEF Core!Selected
<1> QED
  BY <1>1, <1>2 DEF OnWay, Core!ChansAt

\* put: the Notifier of the key is sent what has been stored.
LEMMA PutKeepsReading ==
  ASSUME FullInv, NEW h, LoopPut(h)
  PROVE  ReadInv'
<1> DEFINE key == conns[h].req.key
           value == conns[h].req.value
<1>1. /\ key \in Keys /\ value \in Values /\ P!Put(key, value) /\ loop.pc = "select"
  BY ServedRequest, SamePut DEF LoopPut, FullInv, Ops
<1>2. /\ loop' = loop
      /\ entries' = IF reply'.ok THEN Informed(OnWay(key), Update(key, value), notifiers) ELSE entries
  BY DEF LoopPut
<1> HIDE DEF key, value
<1>3. /\ notifiers' = notifiers
      /\ IF reply'.ok THEN /\ ~P!HasWildcard(key)
                           /\ DOMAIN storage' = DOMAIN storage \cup {key}
                           /\ \A k \in DOMAIN storage' :
                                storage'[k] = IF k = key THEN value ELSE storage[k]
                      ELSE storage' = storage
  BY <1>1, CoreAssumptions, P!PutEffect DEF FullInv
<1>4. CASE reply'.ok
  <2>1. Core!Selects(key, key)
    BY <1>3, <1>4, StarAssumption, SameKeySpace DEF P!HasWildcard, Core!Selects, Core!WalkStops
  <2>2. ASSUME NEW c \in Slots(notifiers'), c[1] \in DOMAIN storage'
        PROVE  \/ c \in OnWay(key) /\ Update(key, value) = Update(c[1], storage'[c[1]])
               \/ /\ c[1] \in DOMAIN storage /\ storage'[c[1]] = storage[c[1]]
                  /\ c \in OnWay(key) => ~About(Update(key, value), c[1])
    <3>1. CASE c[1] = key
      <4>1. c \in P!Registrations
        BY <1>3, RealSlots DEF FullInv
      <4> QED
        BY <1>3, <1>4, <2>1, <2>2, <3>1, <4>1, OnWayOfSelected
    <3>2. CASE c[1] # key
      BY <1>3, <1>4, <2>2, <3>2 DEF About, Update
    <3> QED
      BY <3>1, <3>2
  <2> QED
    BY <1>1, <1>2, <1>3, <1>4, <2>2, InformedReading
<1>5. CASE ~reply'.ok
  <2>1. entries' = entries /\ UNCHANGED <<notifiers, storage>>
    BY <1>2, <1>3, <1>5
  <2> QED
    BY <1>2, <2>1, QuietKeepsReading DEF FullInv, ReadInv, NotifiersOK, Subscribed
<1> QED
  BY <1>4, <1>5

\* delete: whoever is told of it and still reads is subscribed at a key that stays.
LEMMA DeleteKeepsReading ==
  ASSUME FullInv, NEW h, LoopDelete(h)
  PROVE  ReadInv'
<1> DEFINE key == conns[h].req.key
<1>1. key \in Keys /\ P!Delete(key) /\ loop.pc = "select"
  BY ServedRequest, SameDelete DEF LoopDelete, FullInv, Ops
<1>2. loop' = loop /\ entries' = Informed(OnWay(key), Close(key), notifiers')
  BY DEF LoopDelete
<1> HIDE DEF key
<1>3. /\ P!Registrations' = {c \in P!Registrations : ~P!Selects(key, c[1])}
      /\ DOMAIN storage' \subseteq DOMAIN storage
      /\ \A k \in DOMAIN storage' : storage'[k] = storage[k]
  BY <1>1, CoreAssumptions, P!DeleteEffect DEF FullInv
<1>4. Slots(notifiers') = P!Registrations'
  BY SameChannels DEF Slots, P!Registrations
<1>5. Slots(notifiers') \subseteq Slots(notifiers)
  BY <1>3, <1>4, RealSlots DEF FullInv
<1>6. ASSUME NEW c \in Slots(notifiers'), c[1] \in DOMAIN storage'
      PROVE  /\ c[1] \in DOMAIN storage /\ storage'[c[1]] = storage[c[1]]
             /\ ~About(Close(key), c[1])
  <2>1. ~Core!Selects(key, c[1])
    BY <1>3, <1>4, SameKeySpace
  <2> QED
    BY <1>3, <1>6, <2>1 DEF About, Close
<1> QED
  BY <1>1, <1>2, <1>5, <1>6, InformedReading

\* unsubscribe: the Notifier that is told of it reads no more.
LEMMA UnsubscribeKeepsReading ==
  ASSUME FullInv, NEW h, LoopUnsubscribe(h)
  PROVE  ReadInv'
<1> DEFINE key == conns[h].req.key
           uuid == conns[h].req.uuid
           selected == Core!Selected(DOMAIN notifiers, key)
           C == {<<d, uuid>> : d \in {e \in selected : selected = {e}}}
<1>1. key \in Keys /\ uuid \in Uuids /\ P!Unsubscribe(key, uuid) /\ loop.pc = "select"
  BY ServedRequest, SameUnsubscribe DEF LoopUnsubscribe, FullInv, Ops
<1>2. loop' = loop /\ entries' = Informed(C, Close(key), notifiers')
  BY DEF LoopUnsubscribe
<1>3. selected = P!Selected(DOMAIN notifiers, key)
  BY SameKeySpace
<1> HIDE DEF key, uuid, selected
<1>4. P!Registrations' = P!Registrations \ C
  BY <1>1, <1>3, CoreAssumptions, P!UnsubscribeEffect DEF FullInv
<1>5. storage' = storage
  BY <1>1, CoreAssumptions, P!OtherEffect
<1>6. Slots(notifiers') = P!Registrations'
  BY SameChannels DEF Slots, P!Registrations
<1>7. Slots(notifiers') \subseteq Slots(notifiers) /\ \A c \in Slots(notifiers') : c \notin C
  BY <1>4, <1>6, RealSlots DEF FullInv
<1> HIDE DEF C
<1> QED
  BY <1>1, <1>2, <1>5, <1>7, InformedReading

\* A get finds finitely many keys.
LEMMA FoundIsFinite ==
  ASSUME IsFiniteSet(objects), NEW key
  PROVE  Cardinality(Core!Found(key)) \in Nat
<1> DEFINE S == Core!Selected(objects, key)
           found == Core!Found(key)
           f == [d \in S |-> <<d, Core!StorageGet(d)>>]
<1>1. IsFiniteSet(S)
  BY FS_Subset DEF Core!Selected
<1>2. f \in Surjection(S, found)
  BY DEF Surjection, Core!Found
<1>3. IsFiniteSet(found)
  BY <1>1, <1>2, FS_Surjection
<1> QED
  BY <1>3, FS_CardinalityType

\* The messages of a new channel give the values of all keys that it is about.
LEMMA NewChannelIsCurrent ==
  ASSUME FullInv, NEW key, NEW msgs \in NewChannel(key)
  PROVE  /\ \E S : msgs \in Seq(S)
         /\ \A d \in DOMAIN storage : Core!Selects(key, d) => Current(msgs, d, storage[d])
<1> DEFINE found == Core!Found(key)
           n == Cardinality(found)
<1>1. n \in Nat
  BY FoundIsFinite DEF FullInv
<1>2. PICK order \in [1..n -> found] :
        /\ \A d \in found : \E i \in 1..n : order[i] = d
        /\ msgs = <<Hello>> \o [i \in 1..n |-> Update(order[i][1], order[i][2])]
  BY DEF NewChannel
<1> DEFINE rest == [i \in 1..n |-> Update(order[i][1], order[i][2])]
           S == {Hello} \cup {rest[i] : i \in 1..n}
<1> HIDE DEF n
<1>3. rest \in Seq(S) /\ Len(rest) = n
  BY <1>1
<1>4. /\ msgs \in Seq(S) /\ Len(msgs) = n + 1
      /\ \A j \in 1..n : msgs[j + 1] = rest[j]
  <2> HIDE DEF rest
  <2>1. <<Hello>> \in Seq(S) /\ Len(<<Hello>>) = 1
    BY DEF S
  <2> HIDE DEF S
  <2>2. Len(<<Hello>> \o rest) = n + 1 /\ <<Hello>> \o rest \in Seq(S)
    BY <1>1, <1>3, <2>1
  <2>3. ASSUME NEW j \in 1..n PROVE (<<Hello>> \o rest)[j + 1] = rest[j]
    BY <1>1, <1>3, <2>1
  <2>4. msgs = <<Hello>> \o rest
    BY <1>2 DEF rest
  <2> QED
    BY <2>2, <2>3, <2>4
<1>5. ASSUME NEW d \in DOMAIN storage, Core!Selects(key, d)
      PROVE  Current(msgs, d, storage[d])
  <2>1. <<d, storage[d]>> \in found
    BY <1>5 DEF FullInv, P!CoreInv, P!StorageIndexed, Core!Found, Core!Selected, Core!StorageGet
  <2>2. PICK i \in 1..n : order[i] = <<d, storage[d]>>
    BY <1>2, <2>1
  <2>3. msgs[i + 1] = Update(d, storage[d])
    BY <1>4, <2>2
  <2>4. ASSUME NEW j \in (i + 1)..Len(msgs), About(msgs[j], d)
        PROVE  msgs[j] = Update(d, storage[d])
    <3> DEFINE m == j - 1
    <3>1. m \in 1..n /\ m + 1 = j
      BY <1>1, <1>4, <2>2
    <3> HIDE DEF m
    <3>2. msgs[j] = Update(order[m][1], order[m][2])
      BY <1>4, <3>1
    <3>3. order[m] \in found
      BY <1>2, <3>1
    <3>4. PICK e \in Core!Selected(objects, key) : order[m] = <<e, Core!StorageGet(e)>>
      BY <3>3 DEF Core!Found
    <3>5. e = d
      BY <2>4, <3>2, <3>4 DEF About, Update
    <3> QED
      BY <3>2, <3>4, <3>5 DEF Core!StorageGet
  <2>5. i + 1 \in 1..Len(msgs)
    BY <1>1, <1>4, <2>2
  <2> QED
    BY <2>3, <2>4, <2>5 DEF Current
<1> QED
  BY <1>4, <1>5

\* subscribe: a new Notifier reads the new subscription of the core.
LEMMA SubscribeKeepsReading ==
  ASSUME FullInv, NEW h, LoopMakesNotifier(h)
  PROVE  ReadInv'
<1> DEFINE key == conns[h].req.key
           uuid == conns[h].req.uuid
           new == Slots(notifiers') \ Slots(notifiers)
           slot == IF new = {} THEN NoSlot ELSE CHOOSE c \in new : TRUE
<1>1. /\ key \in Keys /\ uuid \in Uuids /\ P!Subscribe(key, uuid) /\ loop.pc = "select"
  BY ServedRequest, SameSubscribe DEF LoopMakesNotifier, FullInv, Ops
<1>2. key \notin Subscribed /\ loop' = [pc |-> "join", conn |-> h]
  BY DEF LoopMakesNotifier
<1>3. PICK msgs \in NewChannel(key) : entries' = WithNotifier(key, new, msgs)
  BY DEF LoopMakesNotifier
<1> HIDE DEF key, uuid, new
<1>4. /\ Subscribed' = Subscribed \cup {key} /\ entries'[key] = Notifier(slot, msgs)
      /\ \A k \in Subscribed : entries'[k] = entries[k]
  BY <1>2, <1>3 DEF WithNotifier, Subscribed
<1>5. storage' = storage
  BY <1>1, CoreAssumptions, P!OtherEffect
<1>6. /\ Slots(notifiers)' = P!Registrations' /\ Slots(notifiers)' = Slots(notifiers')
      /\ Slots(notifiers) = P!Registrations
  BY SameChannels DEF Slots, P!Registrations
<1>7. \/ new = {} /\ Slots(notifiers)' = Slots(notifiers)
      \/ \E d \in P!DataKeys :
           /\ P!Selects(key, d) /\ new = {<<d, uuid>>}
           /\ Slots(notifiers)' = Slots(notifiers) \cup {<<d, uuid>>}
  BY <1>1, <1>6, CoreAssumptions, P!SubscribeEffect DEF FullInv, new
<1>8. /\ slot \in P!Slots \cup {NoSlot} /\ Slots(notifiers)' = Slots(notifiers) \cup ({slot} \ {NoSlot})
      /\ slot # NoSlot => slot \notin Slots(notifiers) /\ Core!Selects(key, slot[1])
  <2>1. CASE new = {} /\ Slots(notifiers)' = Slots(notifiers)
    BY <2>1
  <2>2. CASE new # {}
    <3>1. PICK d \in P!DataKeys : /\ P!Selects(key, d) /\ new = {<<d, uuid>>}
                                  /\ Slots(notifiers)' = Slots(notifiers) \cup {<<d, uuid>>}
      BY <1>7, <2>2
    <3>2. slot = <<d, uuid>> /\ slot \in P!Slots
      <4>1. slot \in new
        BY <2>2
      <4>2. slot = <<d, uuid>>
        BY <3>1, <4>1
      <4> QED
        BY <1>1, <4>2 DEF P!Slots
    <3>3. slot # NoSlot
      BY <3>2, RealSlots DEF FullInv
    <3>4. slot \notin Slots(notifiers)
      BY <3>1, <3>2 DEF new
    <3> QED
      BY <3>1, <3>2, <3>3, <3>4, SameKeySpace
  <2> QED
    BY <1>7, <2>1, <2>2
<1> HIDE DEF slot
<1>9. NotifiersOK'
  <2>1. /\ Notifier(slot, msgs).slot = slot /\ Notifier(slot, msgs).chan = msgs
        /\ Notifier(slot, msgs).taken = 0 /\ Notifier(slot, msgs).casts = {}
        /\ Notifier(slot, msgs).held = 0
    BY DEF Notifier
  <2>2. (\E S : msgs \in Seq(S)) /\ 0 \in 0..Len(msgs)
    BY NewChannelIsCurrent
  <2>3. CountsOK(Notifier(slot, msgs))
    BY <2>1, <2>2 DEF CountsOK
  <2> QED
    BY <1>4, <1>8, <2>1, <2>3 DEF FullInv, ReadInv, NotifiersOK
<1>10. EverySubscriptionIsRead'
  <2>1. Notifier(slot, msgs).slot = slot
    BY DEF Notifier
  <2>2. /\ Slots(notifiers) = {entries[k].slot : k \in Subscribed} \ {NoSlot}
        /\ \A j, k \in Subscribed :
             entries[j].slot = entries[k].slot /\ j # k => entries[j].slot = NoSlot
    BY <1>1 DEF FullInv, ReadInv, EverySubscriptionIsRead
  <2>3. {entries'[k].slot : k \in Subscribed'} = {entries[k].slot : k \in Subscribed} \cup {slot}
    BY <1>2, <1>4, <2>1
  <2>4. \A k \in Subscribed : entries[k].slot = slot => slot = NoSlot
    BY <1>8, <2>2
  <2>5. \A j, k \in Subscribed' :
          entries'[j].slot = entries'[k].slot /\ j # k => entries'[j].slot = NoSlot
    BY <1>4, <2>1, <2>2, <2>4
  <2>6. Slots(notifiers)' = {entries'[k].slot : k \in Subscribed'} \ {NoSlot}
    BY <1>8, <2>2, <2>3
  <2> QED
    BY <2>5, <2>6 DEF EverySubscriptionIsRead
<1>11. ChannelIsCurrent'
  <2>1. Notifier(slot, msgs).slot = slot /\ Notifier(slot, msgs).chan = msgs
    BY DEF Notifier
  <2>2. ASSUME NEW k \in Subscribed', entries'[k].slot # NoSlot,
               entries'[k].slot[1] \in DOMAIN storage'
        PROVE  Current(entries'[k].chan, entries'[k].slot[1], storage'[entries'[k].slot[1]])
    <3>1. CASE k \in Subscribed
      BY <1>4, <1>5, <2>2, <3>1, CurrentChannels DEF FullInv, ReadInv
    <3>2. CASE k = key
      BY <1>4, <1>5, <1>8, <2>1, <2>2, <3>2, NewChannelIsCurrent
    <3> QED
      BY <1>4, <3>1, <3>2
  <2> QED
    BY <2>2 DEF ChannelIsCurrent, Current
<1> QED
  BY <1>9, <1>10, <1>11 DEF ReadInv

\* The loop serves a request.
LEMMA ServingKeepsReading ==
  ASSUME FullInv, NEW h, LoopServes(h)
  PROVE  ReadInv'
<1>1. CASE LoopGet(h) \/ LoopTrace(h) \/ LoopRefusesSubscription(h) \/ LoopFindsNotifier(h)
  <2>1. UNCHANGED <<notifiers, storage, entries>>
    <3>1. CASE LoopGet(h)
      BY <3>1 DEF LoopGet, Core!Get
    <3>2. CASE LoopTrace(h)
      BY <3>2 DEF LoopTrace, Core!Trace
    <3>3. CASE LoopRefusesSubscription(h)
      <4>1. ~reply'.ok /\ Core!Subscribe(conns[h].req.key, conns[h].req.uuid) /\ entries' = entries
        BY <3>3 DEF LoopRefusesSubscription
      <4> DEFINE key == conns[h].req.key
                 uuid == conns[h].req.uuid
      <4> HIDE DEF key, uuid
      <4>2. ASSUME NEW d, Core!Joined(key, d, uuid) PROVE FALSE
        BY <4>1, <4>2 DEF Core!Joined, Core!Reply
      <4>3. Core!SubscribeDetached(key, uuid) \/ Core!SubscribeRefused(key, uuid)
        BY <4>1, <4>2 DEF Core!Subscribe, Core!SubscribeNew, Core!SubscribeJoin, key, uuid
      <4> QED
        BY <4>1, <4>3 DEF Core!SubscribeDetached, Core!SubscribeRefused
    <3>4. CASE LoopFindsNotifier(h)
      BY <3>4 DEF LoopFindsNotifier, coreVars
    <3> QED
      BY <1>1, <3>1, <3>2, <3>3, <3>4
  <2>2. loop.pc = "select"
    BY <1>1 DEF LoopGet, LoopTrace, LoopRefusesSubscription, LoopFindsNotifier, Takes
  <2> QED
    BY <2>1, <2>2, QuietKeepsReading DEF FullInv, ReadInv, NotifiersOK, Subscribed
<1> QED
  BY <1>1, PutKeepsReading, DeleteKeepsReading, UnsubscribeKeepsReading, SubscribeKeepsReading
  DEF LoopServes

\* The keys that the core knows stay finitely many.
LEMMA ObjectsStayFinite ==
  ASSUME FullInv, [Next]_vars
  PROVE  IsFiniteSet(objects')
<1>1. \E key : objects' \subseteq objects \cup {key}
  <2>1. ASSUME NEW key \in Keys, NEW value \in Values, P!Put(key, value)
        PROVE  objects' \subseteq objects \cup {key}
    BY <2>1, CoreAssumptions, P!PutEffect DEF FullInv
  <2>2. ASSUME NEW key \in Keys, P!Delete(key)
        PROVE  objects' \subseteq objects
    BY <2>2, CoreAssumptions, P!DeleteEffect DEF FullInv
  <2>3. ASSUME NEW key \in Keys, P!Get(key) \/ P!Trace(key)
        PROVE  objects' = objects
    BY <2>3 DEF P!Get, P!Trace
  <2>4. ASSUME NEW key \in Keys, NEW uuid \in Uuids,
               P!Subscribe(key, uuid) \/ P!Unsubscribe(key, uuid) \/ P!DropReceiver(key, uuid)
        PROVE  objects' = objects
    BY <2>4, CoreAssumptions, P!OtherEffect DEF P!DropReceiver
  <2>5. CASE P!Restart
    BY <2>5, CoreAssumptions, P!RestartEffect DEF FullInv
  <2>6. CASE UNCHANGED P!vars
    BY <2>6 DEF P!vars
  <2>7. [P!Next]_(P!vars)
    BY ServerStepsTheCore DEF FullInv
  <2> QED
    BY <2>1, <2>2, <2>3, <2>4, <2>5, <2>6, <2>7 DEF P!Next
<1>2. PICK key : objects' \subseteq objects \cup {key}
  BY <1>1
<1>3. IsFiniteSet(objects \cup {key})
  BY FS_AddElement DEF FullInv
<1> QED
  BY <1>2, <1>3, FS_Subset

\* FullInv is inductive.
LEMMA FullInvInit == Init => FullInv
<1> SUFFICES ASSUME Init PROVE FullInv
  OBVIOUS
<1>1. objects = {} /\ notifiers = <<>> /\ entries = <<>> /\ Subscribed = {}
  BY DEF Init, Core!Init, Subscribed
<1>2. IsFiniteSet(objects)
  BY <1>1, FS_EmptySet
<1>3. Slots(notifiers) = {}
  BY <1>1 DEF Slots, Core!ChansAt
<1>4. ReadInv
  BY <1>1, <1>3 DEF ReadInv, NotifiersOK, EverySubscriptionIsRead, ChannelIsCurrent
<1> QED
  BY <1>2, <1>4, InvInit, CoreInvFirst DEF FullInv

\* The strengthened invariant is inductive: the server's part, the core's, and what relates them.
LEMMA FullInvStep ==
  ASSUME FullInv, [Next]_vars
  PROVE  FullInv'
<1>1. Inv' /\ P!CoreInv' /\ IsFiniteSet(objects)'
  BY InvStep, CoreInvKept, ObjectsStayFinite DEF FullInv
<1>2. ASSUME NEW h \in DOMAIN conns, LoopServes(h) PROVE ReadInv'
  BY <1>2, ServingKeepsReading
<1>3. ASSUME NEW k \in Subscribed,
             \/ CastStarts(k)
             \/ \E i \in entries[k].casts : CastStalls(k, i) \/ CastWrites(k, i)
      PROVE  ReadInv'
  BY <1>3, CastKeepsReading DEF FullInv
<1>4. ASSUME NEW k \in Subscribed, NEW u, CleanUp(k, u) PROVE ReadInv'
  BY <1>4, CleanUpKeepsReading DEF FullInv
<1>5. ASSUME LoopJoins PROVE ReadInv'
  BY <1>5, JoinKeepsReading DEF FullInv
<1>6. ASSUME Restart PROVE ReadInv'
  <2>1. notifiers' = <<>> /\ entries' = <<>> /\ Subscribed' = {}
    BY <1>6 DEF Restart, Core!Restart, Subscribed
  <2>2. Slots(notifiers)' = {}
    BY <2>1 DEF Slots, Core!ChansAt
  <2> QED
    BY <2>1, <2>2 DEF ReadInv, NotifiersOK, EverySubscriptionIsRead, ChannelIsCurrent
<1>7. ASSUME UNCHANGED <<coreVars, entries>>, loop.pc = "ended" => loop'.pc = "ended"
      PROVE  ReadInv'
  <2>1. UNCHANGED <<notifiers, storage, entries>>
    BY <1>7 DEF coreVars
  <2> QED
    BY <1>7, <2>1, QuietKeepsReading DEF FullInv, ReadInv, NotifiersOK, Subscribed
<1>8. ReadInv'
  BY <1>2, <1>3, <1>4, <1>5, <1>6, <1>7
  DEF Next, HandleRequest, HandleQueued, HandleRefused, HandleDirectly, HandleMalformed,
      WriteResponse, HandlerPanics, PeerStalls, PeerReads, PeerGoes, PeerBecomes,
      LoopCancelled, ServeReturns, vars
<1> QED
  BY <1>1, <1>8 DEF FullInv

(***************************************************************************)
(* The server's invariant, the core's invariant and the relation between   *)
(* the entries of the map notifiers and the core's subscriptions hold in   *)
(* every state.                                                            *)
(***************************************************************************)
THEOREM FullInvAlways == Spec => []FullInv
BY FullInvInit, FullInvStep, PTL DEF Spec

(***************************************************************************)
(* While the loop runs, every subscription of the core is read by exactly  *)
(* one Notifier of its map.                                                *)
(***************************************************************************)
THEOREM SubscriptionsAreRead == Spec => []EverySubscriptionIsRead
<1>1. FullInv => EverySubscriptionIsRead
  BY DEF FullInv, ReadInv
<1> QED
  BY <1>1, FullInvAlways, PTL

(***************************************************************************)
(* What a Notifier has been sent last about its stored key is the value    *)
(* that the key has.                                                       *)
(***************************************************************************)
THEOREM ChannelsAreCurrent == Spec => []ChannelIsCurrent
<1>1. FullInv => ChannelIsCurrent
  BY DEF FullInv, ReadInv
<1> QED
  BY <1>1, FullInvAlways, PTL

(***************************************************************************)
(* The connections, the queues, the loop and the map of Notifiers have the *)
(* shapes they should.                                                     *)
(***************************************************************************)
THEOREM TypesOfTheServer == Spec => []TypeOK
<1>1. ASSUME FullInv PROVE TypeOK
  <2> USE <1>1 DEF FullInv
  <2>1. Core!TypeOK
    BY SameType DEF P!CoreInv
  <2>2. \A h \in Handlers :
          /\ conns[h].req \in Requests
          /\ conns[h].pc \in {"queued", "replied", "answered", "streaming", "closed"}
          /\ conns[h].peer \in {"reads", "stalls", "gone"}
    BY DEF Inv, ConnsOK
  <2>3. /\ queues \in [Ops -> Seq(Handlers)]
        /\ loop \in [pc : {"select", "join", "ended"}, conn : Handlers \cup {0}]
        /\ Subscribed \subseteq Keys
    BY DEF Inv, QueuesOK, LoopOK, EntriesOK
  <2>4. P!Slots = Core!Slots
    BY DEF P!Slots, P!DataKeys, P!HasWildcard, Core!Slots, Core!DataKeys, Core!HasWildcard
  <2>5. ASSUME NEW k \in Subscribed
        PROVE  LET e == entries[k]
               IN /\ e.slot \in Core!Slots \cup {NoSlot}
                  /\ DOMAIN e.clients \subseteq Uuids /\ Range(e.clients) \subseteq Handlers
                  /\ e.casts \cup {e.taken} \subseteq 0..Len(e.chan) /\ e.held \in e.casts \cup {0}
    <3> DEFINE e == entries[k]
    <3>1. e.slot \in Core!Slots \cup {NoSlot}
      BY <2>4 DEF ReadInv, NotifiersOK
    <3>2. e.casts \cup {e.taken} \subseteq 0..Len(e.chan) /\ e.held \in e.casts \cup {0}
      BY DEF ReadInv, NotifiersOK, CountsOK
    <3>3. \A u \in DOMAIN e.clients : u \in Uuids /\ e.clients[u] \in Handlers
      BY <2>2, RequestsAssumption DEF Inv, ClientsStream
    <3> QED
      BY <3>1, <3>2, <3>3 DEF Range
  <2> QED
    BY <2>1, <2>2, <2>3, <2>5 DEF TypeOK
<1> QED
  BY <1>1, FullInvAlways, PTL

-----------------------------------------------------------------------------
(***************************************************************************)
(* The server is the service of module Service.  A connection is a call    *)
(* whose phase follows from where the connection is, so a step that moves  *)
(* one connection changes one call.                                        *)
(***************************************************************************)
CallOf(c) == [req |-> c.req, phase |-> Phase(c), answer |-> c.answer]

\* The calls are numbered as their connections are.
LEMMA CallsShape ==
  ASSUME ConnsOK
  PROVE  /\ Calls = [h \in Handlers |-> CallOf(conns[h])]
         /\ DOMAIN Calls = Handlers /\ \A h \in Handlers : Calls[h] = CallOf(conns[h])
         /\ Len(Calls) = Len(conns) /\ \E S : Calls \in Seq(S)
<1>1. Len(conns) \in Nat /\ Handlers = 1..Len(conns)
  BY HandlersAreNumbered
<1>2. Calls = [h \in Handlers |-> CallOf(conns[h])]
  BY DEF Calls, CallOf
<1>3. Calls \in [1..Len(conns) -> {CallOf(conns[h]) : h \in Handlers}]
  BY <1>1, <1>2
<1>4. Calls \in Seq({CallOf(conns[h]) : h \in Handlers}) /\ Len(Calls) = Len(conns)
  BY <1>1, <1>3
<1> QED
  BY <1>2, <1>4

\* The phase of a connection.
LEMMA Phases ==
  ASSUME NEW c
  PROVE  /\ c.pc = "queued" => Phase(c) = "called"
         /\ c.pc = "replied" => Phase(c) = "done"
         /\ c.pc = "answered" => Phase(c) = "returned"
         /\ c.pc \in {"streaming", "closed"} => Phase(c) = "lost"
BY DEF Phase

\* A step that adds no connection and changes what one of them is to its caller.
LEMMA OneCall ==
  ASSUME ConnsOK, Handlers' = Handlers, NEW h \in Handlers,
         \A g \in Handlers \ {h} : CallOf(conns'[g]) = CallOf(conns[g])
  PROVE  Calls' = [Calls EXCEPT ![h] = CallOf(conns'[h])]
<1>1. Calls' = [g \in Handlers |-> CallOf(conns'[g])]
  BY DEF Calls, CallOf, Phase
<1>2. Calls = [g \in Handlers |-> CallOf(conns[g])]
  BY CallsShape
<1> QED
  BY <1>1, <1>2

\* A step that changes none.
LEMMA SameCalls ==
  ASSUME Handlers' = Handlers, \A g \in Handlers : CallOf(conns'[g]) = CallOf(conns[g])
  PROVE  Calls' = Calls
<1>1. Calls' = [g \in Handlers |-> CallOf(conns'[g])]
  BY DEF Calls, CallOf, Phase
<1>2. Calls = [g \in Handlers |-> CallOf(conns[g])]
  BY DEF Calls, CallOf
<1> QED
  BY <1>1, <1>2

\* An answer that is written is a call that returns.
LEMMA CallReturns ==
  ASSUME ConnsOK, Handlers' = Handlers, NEW h \in Handlers, UNCHANGED <<storage, reply>>,
         \A g \in Handlers \ {h} : CallOf(conns'[g]) = CallOf(conns[g]),
         conns'[h].req = conns[h].req, conns'[h].answer = conns[h].answer,
         conns[h].pc = "replied", conns'[h].pc = "answered"
  PROVE  Promise!Return(h)
<1> DEFINE old == Calls[h]
           new == [old EXCEPT !.phase = "returned"]
           req == conns[h].req
           answer == conns[h].answer
<1>1. Calls' = [Calls EXCEPT ![h] = CallOf(conns'[h])]
  BY OneCall
<1>2. old = [req |-> req, phase |-> "done", answer |-> answer]
  BY CallsShape, Phases DEF CallOf
<1>3. CallOf(conns'[h]) = [req |-> req, phase |-> "returned", answer |-> answer]
  BY Phases DEF CallOf
<1>4. new = [req |-> req, phase |-> "returned", answer |-> answer]
  <2>1. old \in [req : {req}, phase : {"done"}, answer : {answer}]
    BY <1>2
  <2> HIDE DEF old, req, answer
  <2>2. new \in [req : {req}, phase : {"returned"}, answer : {answer}]
    BY <2>1
  <2> HIDE DEF new
  <2> QED
    BY <2>2
<1>5. Calls' = [Calls EXCEPT ![h] = new]
  <2> HIDE DEF new
  <2> QED
    BY <1>1, <1>3, <1>4
<1>6. old.phase = "done"
  BY <1>2
<1> QED
  BY <1>5, <1>6 DEF Promise!Return

\* A connection that becomes a stream, or is dropped, is a call that is lost.
LEMMA CallIsLost ==
  ASSUME ConnsOK, Handlers' = Handlers, NEW h \in Handlers, UNCHANGED <<storage, reply>>,
         \A g \in Handlers \ {h} : CallOf(conns'[g]) = CallOf(conns[g]),
         conns'[h].req = conns[h].req, conns'[h].answer = conns[h].answer,
         conns[h].pc = "queued", conns'[h].pc \in {"streaming", "closed"}
  PROVE  Promise!Lose(h)
<1> DEFINE old == Calls[h]
           new == [old EXCEPT !.phase = "lost"]
           req == conns[h].req
           answer == conns[h].answer
<1>1. Calls' = [Calls EXCEPT ![h] = CallOf(conns'[h])]
  BY OneCall
<1>2. old = [req |-> req, phase |-> "called", answer |-> answer]
  BY CallsShape, Phases DEF CallOf
<1>3. CallOf(conns'[h]) = [req |-> req, phase |-> "lost", answer |-> answer]
  BY Phases DEF CallOf
<1>4. new = [req |-> req, phase |-> "lost", answer |-> answer]
  <2>1. old \in [req : {req}, phase : {"called"}, answer : {answer}]
    BY <1>2
  <2> HIDE DEF old, req, answer
  <2>2. new \in [req : {req}, phase : {"lost"}, answer : {answer}]
    BY <2>1
  <2> HIDE DEF new
  <2> QED
    BY <2>2
<1>5. Calls' = [Calls EXCEPT ![h] = new]
  <2> HIDE DEF new
  <2> QED
    BY <1>1, <1>3, <1>4
<1>6. old.phase = "called"
  BY <1>2
<1> QED
  BY <1>5, <1>6 DEF Promise!Lose

\* A request about subscriptions is answered, refused or taken by the loop.
LEMMA CallIsOther ==
  ASSUME ConnsOK, Handlers' = Handlers, NEW h \in Handlers, Promise!Store!Other,
         \A g \in Handlers \ {h} : CallOf(conns'[g]) = CallOf(conns[g]),
         conns'[h].req = conns[h].req, conns[h].pc = "queued",
         conns'[h].pc \in {"queued", "replied", "closed"},
         conns[h].req.op \notin Promise!DataOps
  PROVE  Promise!OtherEffect(h)
<1> DEFINE old == Calls[h]
           req == conns[h].req
           phase == Phase(conns'[h])
           answer == Calls'[h].answer
           new == [old EXCEPT !.phase = phase, !.answer = answer]
<1>1. Calls' = [Calls EXCEPT ![h] = CallOf(conns'[h])]
  BY OneCall
<1>2. old = [req |-> req, phase |-> "called", answer |-> conns[h].answer] /\ h \in DOMAIN Calls
  BY CallsShape, Phases DEF CallOf
<1>3. Calls'[h] = [req |-> req, phase |-> phase, answer |-> conns'[h].answer]
  BY <1>1, <1>2 DEF CallOf
<1>4. CallOf(conns'[h]) = [req |-> req, phase |-> phase, answer |-> answer]
  BY <1>3 DEF CallOf
<1>5. new = [req |-> req, phase |-> phase, answer |-> answer]
  <2> DEFINE before == conns[h].answer
  <2>1. old \in [req : {req}, phase : {"called"}, answer : {before}]
    BY <1>2
  <2> HIDE DEF old, req, answer, phase, before
  <2>2. new \in [req : {req}, phase : {phase}, answer : {answer}]
    BY <2>1
  <2> HIDE DEF new
  <2> QED
    BY <2>2
<1>6. Calls' = [Calls EXCEPT ![h] = new]
  <2> HIDE DEF new, answer
  <2> QED
    BY <1>1, <1>4, <1>5
<1>7. old.phase = "called" /\ old.req.op \notin Promise!DataOps
  BY <1>2
<1>8. phase \in {"called", "done", "lost"}
  BY Phases
<1> QED
  BY <1>6, <1>7, <1>8 DEF Promise!OtherEffect

\* The map of module KVStore behind the core is the one behind the service.
LEMMA SameStore ==
  /\ \A key, value : P!Store!Put(key, value) => Promise!Store!Put(key, value)
  /\ \A key : P!Store!Get(key) => Promise!Store!Get(key)
  /\ \A key : P!Store!Delete(key) => Promise!Store!Delete(key)
  /\ P!Store!Other => Promise!Store!Other
  /\ P!Store!Restart => Promise!Store!Restart
BY DEF P!Store!Put, P!Store!Inserted, P!Store!HasWildcard, P!Store!Get, P!Store!Delete,
       P!Store!Selected, P!Store!Selects, P!Store!WalkStops, P!Store!Restrict, P!Store!Other,
       P!Store!StoreOps, P!Store!Restart,
       Promise!Store!Put, Promise!Store!Inserted, Promise!Store!HasWildcard, Promise!Store!Get,
       Promise!Store!Delete, Promise!Store!Selected, Promise!Store!Selects,
       Promise!Store!WalkStops, Promise!Store!Restrict, Promise!Store!Other,
       Promise!Store!StoreOps, Promise!Store!Restart

\* Only get and trace return data.
LEMMA NoData ==
  ASSUME NEW key, NEW value, P!Put(key, value) \/ P!Delete(key)
  PROVE  reply'.data = {}
<1>1. CASE P!Put(key, value)
  BY <1>1 DEF P!Put, P!PutRefused, P!PutNotStored, P!PutStored, P!Reply
<1>2. CASE P!Delete(key)
  BY <1>2 DEF P!Delete, P!DeleteUnsubscribeFails, P!DeletePathFails, P!DeleteStorageFails,
              P!DeleteDone, P!Reply
<1> QED
  BY <1>1, <1>2

\* put, get and delete take effect when the loop serves them, and that is the answer.
LEMMA DataEffect ==
  ASSUME FullInv, NEW h, LoopPut(h) \/ LoopGet(h) \/ LoopDelete(h)
  PROVE  h \in Handlers /\ Promise!Effect(h)
<1> DEFINE req == conns[h].req
           ok == IF req.op = "get" THEN reply'.data # {} ELSE reply'.ok
           answer == [ok |-> ok, data |-> reply'.data]
           new == [conns[h] EXCEPT !.pc = "replied", !.answer = answer]
<1>1. /\ h \in Handlers /\ conns[h].pc = "queued" /\ req.key \in Keys /\ req.value \in Values
      /\ \/ req.op = "put" /\ P!Put(req.key, req.value) /\ Answers(h, reply'.ok, {})
         \/ req.op = "delete" /\ P!Delete(req.key) /\ Answers(h, reply'.ok, {})
         \/ req.op = "get" /\ P!Get(req.key) /\ Answers(h, reply'.data # {}, reply'.data)
  <2>1. CASE LoopPut(h)
    BY <2>1, ServedRequest, SamePut DEF LoopPut, FullInv, Ops, Waits
  <2>2. CASE LoopGet(h)
    BY <2>2, ServedRequest, SameGet DEF LoopGet, FullInv, Ops, Waits
  <2>3. CASE LoopDelete(h)
    BY <2>3, ServedRequest, SameDelete DEF LoopDelete, FullInv, Ops, Waits
  <2> QED
    BY <2>1, <2>2, <2>3
<1>2. Answers(h, ok, reply'.data)
  BY <1>1, NoData
<1>3. \/ req.op = "put" /\ Promise!Store!Put(req.key, req.value)
      \/ req.op = "delete" /\ Promise!Store!Delete(req.key)
      \/ req.op = "get" /\ Promise!Store!Get(req.key)
  BY <1>1, CoreAssumptions, SameStore, P!StorePut, P!StoreGet, P!StoreDelete DEF FullInv, P!CoreInv
<1>4. conns' = [conns EXCEPT ![h] = new]
  BY <1>2 DEF Answers
<1>5. IsConnection(conns[h]) /\ conns[h].peer \in {"reads", "stalls", "gone"} /\ ConnsOK
  BY <1>1 DEF FullInv, Inv, ConnsOK
<1>6. IsConnection(new) /\ new.req = req /\ new.pc = "replied" /\ new.peer = conns[h].peer
      /\ new.answer = answer
  <2> DEFINE old == conns[h]
  <2>1. IsConnection(old)
    BY <1>5
  <2> HIDE DEF answer, old
  <2>2. /\ IsConnection([old EXCEPT !.pc = "replied", !.answer = answer])
        /\ [old EXCEPT !.pc = "replied", !.answer = answer].req = old.req
        /\ [old EXCEPT !.pc = "replied", !.answer = answer].pc = "replied"
        /\ [old EXCEPT !.pc = "replied", !.answer = answer].peer = old.peer
        /\ [old EXCEPT !.pc = "replied", !.answer = answer].answer = answer
    BY <2>1 DEF IsConnection
  <2> QED
    BY <2>2 DEF old
<1> HIDE DEF new, answer
<1>7. Rewritten /\ \A g \in Handlers : conns'[g] = IF g = h THEN new ELSE conns[g]
  BY <1>1, <1>4, <1>5, <1>6, OneRewritten
<1>8. Handlers' = Handlers
  BY <1>5, <1>7, RewrittenConns
<1>9. Calls' = [Calls EXCEPT ![h] = CallOf(conns'[h])]
  BY <1>1, <1>5, <1>7, <1>8, OneCall
<1>10. CallOf(conns'[h]) = [req |-> req, phase |-> "done", answer |-> answer]
  BY <1>1, <1>6, <1>7, Phases DEF CallOf
<1>11. Calls[h] = [req |-> req, phase |-> "called", answer |-> conns[h].answer]
  BY <1>1, <1>5, CallsShape, Phases DEF CallOf
<1>12. Calls[h].req = req /\ Calls[h].phase = "called"
  BY <1>11
<1>13. Calls' = [Calls EXCEPT ![h] = [req |-> req, phase |-> "done", answer |-> answer]]
  BY <1>9, <1>10
<1> HIDE DEF req
<1>14. Promise!Effect(h)
  BY <1>3, <1>12, <1>13 DEF Promise!Effect, answer
<1> QED
  BY <1>1, <1>14

\* The requests about subscriptions, and trace, leave the data alone.
LEMMA OtherServed ==
  ASSUME FullInv, NEW h,
         \/ LoopTrace(h) \/ LoopUnsubscribe(h)
         \/ LoopMakesNotifier(h) \/ LoopRefusesSubscription(h)
  PROVE  h \in Handlers /\ Promise!OtherEffect(h)
<1> DEFINE req == conns[h].req
<1>1. /\ h \in Handlers /\ conns[h].pc = "queued" /\ req.op \in {"trace", "unsubscribe", "subscribe"}
      /\ req.key \in Keys /\ req.uuid \in Uuids
      /\ P!Trace(req.key) \/ P!Unsubscribe(req.key, req.uuid) \/ P!Subscribe(req.key, req.uuid)
  <2>1. CASE LoopTrace(h)
    BY <2>1, ServedRequest, SameTrace DEF LoopTrace, FullInv, Ops, Waits
  <2>2. CASE LoopUnsubscribe(h)
    BY <2>2, ServedRequest, SameUnsubscribe DEF LoopUnsubscribe, FullInv, Ops, Waits
  <2>3. CASE LoopMakesNotifier(h) \/ LoopRefusesSubscription(h)
    BY <2>3, ServedRequest, SameSubscribe
    DEF LoopMakesNotifier, LoopRefusesSubscription, FullInv, Ops, Waits
  <2> QED
    BY <2>1, <2>2, <2>3
<1>2. req.op \notin Promise!DataOps
  BY <1>1 DEF Promise!DataOps
<1>3. Promise!Store!Other
  BY <1>1, CoreAssumptions, SameStore, P!StoreOther
<1>4. ConnsOK /\ IsConnection(conns[h]) /\ conns[h].peer \in {"reads", "stalls", "gone"}
  BY <1>1 DEF FullInv, Inv, ConnsOK
<1>5. PICK c : /\ IsConnection(c) /\ c.req = req /\ c.pc \in {"queued", "replied", "closed"}
               /\ c.peer \in {"reads", "stalls", "gone"} /\ conns' = [conns EXCEPT ![h] = c]
  <2>1. CASE \E ok, data : Answers(h, ok, data)
    <3>1. PICK ok, data : Answers(h, ok, data)
      BY <2>1
    <3> DEFINE answer == [ok |-> ok, data |-> data]
               old == conns[h]
               new == [old EXCEPT !.pc = "replied", !.answer = answer]
    <3>2. conns' = [conns EXCEPT ![h] = new]
      BY <3>1 DEF Answers
    <3>3. IsConnection(old)
      BY <1>4
    <3> HIDE DEF old, answer
    <3>4. IsConnection(new) /\ new.req = old.req /\ new.pc = "replied" /\ new.peer = old.peer
      BY <3>3 DEF IsConnection
    <3> HIDE DEF new
    <3>5. new.req = req /\ new.peer = conns[h].peer
      BY <3>4 DEF old
    <3> QED
      BY <1>4, <3>2, <3>4, <3>5
  <2>2. CASE conns' = conns
    <3>1. conns' = [conns EXCEPT ![h] = conns[h]]
      BY <1>1, <1>4, <2>2 DEF ConnsOK, Handlers
    <3> QED
      BY <1>1, <1>4, <3>1
  <2>3. CASE conns' = [conns EXCEPT ![h] = Dropped(conns[h])]
    BY <2>3, DroppedConnection
  <2> QED
    BY <2>1, <2>2, <2>3 DEF LoopTrace, LoopUnsubscribe, LoopMakesNotifier, LoopRefusesSubscription
<1>6. Rewritten /\ \A g \in Handlers : conns'[g] = IF g = h THEN c ELSE conns[g]
  <2> HIDE DEF req
  <2>1. c.req = conns[h].req
    BY <1>5 DEF req
  <2> QED
    BY <1>1, <1>4, <1>5, <2>1, OneRewritten
<1>7. Handlers' = Handlers
  BY <1>4, <1>6, RewrittenConns
<1>8. Promise!OtherEffect(h)
  BY <1>1, <1>2, <1>3, <1>4, <1>5, <1>6, <1>7, CallIsOther
<1> QED
  BY <1>1, <1>8

\* A request arrives.
LEMMA RequestArrives ==
  ASSUME FullInv, NEW req \in Requests, HandleRequest(req)
  PROVE  Promise!Arrive
<1> DEFINE h == Len(conns) + 1
<1>1. PICK pc \in {"queued", "answered", "closed"}, ok \in BOOLEAN :
        /\ conns' = Append(conns, Connection(req, pc, ok))
        /\ pc = "answered" /\ ok => req.op \in {"health", "version"}
  BY DEF HandleRequest, HandleQueued, HandleRefused, HandleDirectly, HandleMalformed, Arrived
<1>2. UNCHANGED <<storage, reply>>
  BY DEF HandleRequest, HandleQueued, HandleRefused, HandleDirectly, HandleMalformed, coreVars
<1>3. /\ ConnsOK /\ ConnsOK' /\ Handlers' = Handlers \cup {h}
      /\ \A g \in Handlers : conns'[g] = conns[g]
      /\ conns'[h] = Connection(req, pc, ok)
  BY <1>1, OneMore DEF FullInv, Inv
<1>4. /\ Len(conns) \in Nat /\ Handlers = 1..Len(conns)
      /\ Len(conns') \in Nat /\ Handlers' = 1..Len(conns')
  <2>1. Len(conns) \in Nat /\ Handlers = 1..Len(conns)
    BY <1>3, HandlersAreNumbered
  <2>2. PICK S : conns' \in Seq(S)
    BY <1>3 DEF ConnsOK
  <2>3. Len(conns') \in Nat /\ DOMAIN conns' = 1..Len(conns')
    BY <2>2
  <2> QED
    BY <2>1, <2>3 DEF Handlers
<1>5. Len(conns') = h
  BY <1>3, <1>4
<1>6. /\ Calls' = [g \in Handlers' |-> CallOf(conns'[g])]
      /\ Calls = [g \in Handlers |-> CallOf(conns[g])]
  BY DEF Calls, CallOf, Phase
<1>7. Calls' \in Seq({CallOf(conns'[g]) : g \in Handlers'}) /\ Len(Calls') = h
      /\ Calls \in Seq({CallOf(conns[g]) : g \in Handlers}) /\ Len(Calls) = Len(conns)
  <2>1. Calls' \in [1..h -> {CallOf(conns'[g]) : g \in Handlers'}]
    BY <1>4, <1>5, <1>6
  <2>2. Calls \in [1..Len(conns) -> {CallOf(conns[g]) : g \in Handlers}]
    BY <1>4, <1>6
  <2> QED
    BY <1>4, <2>1, <2>2
<1>8. SubSeq(Calls', 1, Len(Calls)) = Calls
  <2> DEFINE s == Calls'
             t == Calls
             n == Len(conns)
  <2>1. n \in Nat /\ Len(t) = n /\ Len(s) = n + 1 /\ t = [g \in 1..n |-> t[g]]
        /\ \A g \in 1..n : s[g] = t[g]
    BY <1>3, <1>4, <1>6, <1>7
  <2>2. SubSeq(s, 1, n) = [g \in 1..n |-> s[g]]
    <3>1. PICK S : s \in Seq(S)
      BY <1>7
    <3> HIDE DEF n, s, t
    <3>2. SubSeq(s, 1, n) \in Seq(S) /\ Len(SubSeq(s, 1, n)) = n
          /\ \A g \in 1..n : SubSeq(s, 1, n)[g] = s[g]
      BY <2>1, <3>1
    <3>3. SubSeq(s, 1, n) = [g \in 1..Len(SubSeq(s, 1, n)) |-> SubSeq(s, 1, n)[g]]
      BY <3>2
    <3> QED
      BY <3>2, <3>3
  <2> HIDE DEF s, t, n
  <2>3. SubSeq(s, 1, n) = t
    BY <2>1, <2>2
  <2> QED
    BY <1>7, <2>3 DEF s, t, n
<1>9. Calls'[Len(Calls')] = CallOf(Connection(req, pc, ok))
  BY <1>3, <1>6, <1>7
<1>10. /\ Connection(req, pc, ok).req = req /\ Connection(req, pc, ok).pc = pc
       /\ Connection(req, pc, ok).answer.ok = ok
  BY DEF Connection, NoAnswer
<1>11. LET new == Calls'[Len(Calls')]
       IN \/ new.phase \in {"called", "lost"}
          \/ new.phase = "returned" /\ (new.req.op \in Promise!DataOps => ~new.answer.ok)
  <2> DEFINE c == Connection(req, pc, ok)
  <2>1. CallOf(c).phase = Phase(c) /\ CallOf(c).req = c.req /\ CallOf(c).answer = c.answer
    BY DEF CallOf
  <2> HIDE DEF c
  <2>2. c.pc = pc /\ c.req = req /\ c.answer.ok = ok
    BY <1>10 DEF c
  <2>3. Calls'[Len(Calls')] = CallOf(c)
    BY <1>9 DEF c
  <2>4. CASE pc = "answered"
    BY <1>1, <2>1, <2>2, <2>3, <2>4, Phases DEF Promise!DataOps
  <2>5. CASE pc # "answered"
    BY <1>1, <2>1, <2>2, <2>3, <2>5, Phases
  <2> QED
    BY <2>4, <2>5
<1>12. Len(Calls') = Len(Calls) + 1
  BY <1>4, <1>7
<1> QED
  BY <1>2, <1>8, <1>11, <1>12 DEF Promise!Arrive

\* A restart loses every call that has not returned.
LEMMA RestartLoses ==
  ASSUME FullInv, Restart
  PROVE  Promise!Restart
<1>1. /\ Handlers' = Handlers /\ ConnsOK
      /\ \A h \in Handlers :
           conns'[h] = IF conns[h].pc = "answered" THEN conns[h] ELSE Dropped(conns[h])
  BY RestartKeepsInv DEF FullInv, Inv
<1>2. Promise!Store!Restart
  BY CoreAssumptions, SameStore, SameRestart, P!StoreRestart DEF Restart
<1>3. Calls' = [h \in Handlers |-> CallOf(conns'[h])]
  BY <1>1 DEF Calls, CallOf, Phase
<1>4. ASSUME NEW h \in Handlers
      PROVE  CallOf(conns'[h]) = IF Calls[h].phase = "returned" THEN Calls[h]
                                 ELSE [Calls[h] EXCEPT !.phase = "lost"]
  <2> DEFINE old == Calls[h]
             new == [old EXCEPT !.phase = "lost"]
             req == conns[h].req
             answer == conns[h].answer
             phase == Phase(conns[h])
  <2>1. old = CallOf(conns[h])
    BY <1>1, CallsShape
  <2>2. old = [req |-> req, phase |-> phase, answer |-> answer]
    BY <2>1 DEF CallOf
  <2>3. phase = "returned" <=> conns[h].pc = "answered"
    BY <1>1, Phases DEF ConnsOK
  <2>4. CASE conns[h].pc = "answered"
    <3>0. CallOf(conns'[h]) = old
      BY <1>1, <2>1, <2>4
    <3>1. old.phase = "returned"
      <4>1. phase = "returned"
        BY <2>3, <2>4
      <4> HIDE DEF old, phase, req, answer
      <4> QED
        BY <2>2, <4>1
    <3> HIDE DEF old, new
    <3>2. CallOf(conns'[h]) = IF old.phase = "returned" THEN old ELSE new
      BY <3>0, <3>1
    <3> QED
      BY <3>2 DEF old, new
  <2>5. CASE conns[h].pc # "answered"
    <3>1. CallOf(conns'[h]) = [req |-> req, phase |-> "lost", answer |-> answer]
      BY <1>1, <2>5, DroppedConnection, Phases DEF CallOf
    <3>2. new = [req |-> req, phase |-> "lost", answer |-> answer]
      <4>1. old \in [req : {req}, phase : {phase}, answer : {answer}]
        BY <2>2
      <4> HIDE DEF old, req, answer, phase
      <4>2. new \in [req : {req}, phase : {"lost"}, answer : {answer}]
        BY <4>1
      <4> HIDE DEF new
      <4> QED
        BY <4>2
    <3>3. old.phase # "returned"
      BY <2>2, <2>3, <2>5
    <3> HIDE DEF new, old
    <3>4. CallOf(conns'[h]) = IF old.phase = "returned" THEN old ELSE new
      BY <3>1, <3>2, <3>3
    <3> QED
      BY <3>4 DEF old, new
  <2> QED
    BY <2>4, <2>5
<1>5. DOMAIN Calls = Handlers
  BY <1>1, CallsShape
<1>6. Calls' = [h \in DOMAIN Calls |-> IF Calls[h].phase = "returned" THEN Calls[h]
                                       ELSE [Calls[h] EXCEPT !.phase = "lost"]]
  BY <1>3, <1>4, <1>5, Zenon
<1> QED
  BY <1>2, <1>6 DEF Promise!Restart

\* What a connection is to its caller: the request, where it is and the answer.
LEMMA SameCall ==
  ASSUME NEW c, NEW d, c.req = d.req, c.pc = d.pc, c.answer = d.answer
  PROVE  CallOf(c) = CallOf(d)
BY DEF CallOf, Phase

\* A stream that is dropped was lost to its caller before.
LEMMA DroppedStream ==
  ASSUME NEW c, c.pc = "streaming"
  PROVE  CallOf(Dropped(c)) = CallOf(c)
BY Phases, DroppedConnection DEF CallOf

\* A handler writes the response, or panics.
LEMMA HandlerEndsCall ==
  ASSUME FullInv, NEW h \in Handlers, WriteResponse(h) \/ HandlerPanics(h)
  PROVE  Promise!Return(h) \/ Promise!Lose(h)
<1> DEFINE old == conns[h]
           written == [old EXCEPT !.pc = "answered"]
<1>0. /\ IsConnection(old) /\ old.peer \in {"reads", "stalls", "gone"} /\ ConnsOK
      /\ UNCHANGED <<storage, reply>>
  BY DEF FullInv, Inv, ConnsOK, WriteResponse, HandlerPanics, coreVars
<1>1. CASE WriteResponse(h)
  <2>1. conns' = [conns EXCEPT ![h] = written] /\ old.pc = "replied"
    BY <1>1 DEF WriteResponse
  <2> HIDE DEF old
  <2>2. IsConnection(written) /\ written.req = old.req /\ written.pc = "answered"
        /\ written.peer = old.peer /\ written.answer = old.answer
    BY <1>0 DEF IsConnection
  <2> HIDE DEF written
  <2>3. Rewritten /\ \A g \in Handlers : conns'[g] = IF g = h THEN written ELSE conns[g]
    BY <1>0, <2>1, <2>2, OneRewritten DEF old
  <2>4. Handlers' = Handlers
    BY <1>0, <2>3, RewrittenConns
  <2> QED
    BY <1>0, <2>1, <2>2, <2>3, <2>4, CallReturns DEF old
<1>2. CASE HandlerPanics(h)
  <2>1. conns' = [conns EXCEPT ![h] = Dropped(conns[h])] /\ conns[h].pc = "queued"
    BY <1>2 DEF HandlerPanics
  <2> HIDE DEF old, written
  <2>2. Rewritten /\ \A g \in Handlers : conns'[g] = IF g = h THEN Dropped(conns[h]) ELSE conns[g]
    BY <1>0, <2>1, DroppedConnection, OneRewritten
  <2>3. Handlers' = Handlers
    BY <1>0, <2>2, RewrittenConns
  <2> QED
    BY <1>0, <2>1, <2>2, <2>3, DroppedConnection, CallIsLost
<1> QED
  BY <1>1, <1>2

\* A peer stalls, reads again or goes.
LEMMA PeerKeepsCalls ==
  ASSUME FullInv, NEW h \in Handlers, NEW p \in {"reads", "stalls", "gone"}, PeerBecomes(h, p)
  PROVE  Calls' = Calls
<1> DEFINE old == conns[h]
           mayStall == old.mayStall /\ p # "stalls"
           new == [old EXCEPT !.peer = p, !.mayStall = mayStall]
<1>0. IsConnection(old) /\ ConnsOK /\ old.pc \in {"queued", "replied", "answered", "streaming", "closed"}
  BY DEF FullInv, Inv, ConnsOK
<1>1. conns' = [conns EXCEPT ![h] = new]
  BY DEF PeerBecomes
<1> HIDE DEF old, mayStall
<1>2. IsConnection(new) /\ new.req = old.req /\ new.pc = old.pc /\ new.peer = p
      /\ new.answer = old.answer
  BY <1>0 DEF IsConnection
<1> HIDE DEF new
<1>3. Rewritten /\ \A g \in Handlers : conns'[g] = IF g = h THEN new ELSE conns[g]
  BY <1>0, <1>1, <1>2, OneRewritten DEF old
<1>4. Handlers' = Handlers
  BY <1>0, <1>3, RewrittenConns
<1>5. \A g \in Handlers : CallOf(conns'[g]) = CallOf(conns[g])
  BY <1>2, <1>3, SameCall DEF old
<1> QED
  BY <1>4, <1>5, SameCalls

\* Broadcasts and clean-ups.
LEMMA CastKeepsCalls ==
  ASSUME FullInv, NEW k \in Subscribed, NEW i, CastWrites(k, i)
  PROVE  Calls' = Calls
<1>1. ConnsOK /\ Written(entries[k], i)
  BY DEF FullInv, Inv, CastWrites
<1>2. /\ Rewritten
      /\ \A h \in Handlers : conns'[h].pc = conns[h].pc /\ conns'[h].answer = conns[h].answer
  BY <1>1, WrittenConns
<1>3. Handlers' = Handlers
  BY <1>1, <1>2, RewrittenConns
<1>4. \A g \in Handlers : CallOf(conns'[g]) = CallOf(conns[g])
  BY <1>2, SameCall DEF Rewritten
<1> QED
  BY <1>3, <1>4, SameCalls

\* A clean-up ends a stream, whose call has returned long ago.
LEMMA CleanUpKeepsCalls ==
  ASSUME FullInv, NEW k \in Subscribed, NEW u, CleanUp(k, u)
  PROVE  Calls' = Calls
<1> DEFINE e == entries[k]
           h == e.clients[u]
<1>1. CASE u \notin Peers(e, "reads")
  <2>1. conns' = conns
    BY <1>1 DEF CleanUp
  <2> QED
    BY <2>1, SameCalls DEF Handlers
<1>2. CASE u \in Peers(e, "reads")
  <2>1. conns' = [conns EXCEPT ![h] = Dropped(conns[h])]
    BY <1>2 DEF CleanUp
  <2>2. h \in Handlers /\ conns[h].pc = "streaming" /\ ConnsOK
    BY <1>2 DEF Peers, FullInv, Inv, ClientsStream
  <2> HIDE DEF h
  <2>3. Rewritten /\ \A g \in Handlers : conns'[g] = IF g = h THEN Dropped(conns[h]) ELSE conns[g]
    BY <2>1, <2>2, DroppedConnection, OneRewritten
  <2>4. Handlers' = Handlers
    BY <2>2, <2>3, RewrittenConns
  <2>5. \A g \in Handlers : CallOf(conns'[g]) = CallOf(conns[g])
    BY <2>2, <2>3, DroppedStream
  <2> QED
    BY <2>4, <2>5, SameCalls
<1> QED
  BY <1>1, <1>2

\* A subscription that joins is no call any more, and the stream it replaces was none.
LEMMA JoinLosesCall ==
  ASSUME FullInv, LoopJoins
  PROVE  loop.conn \in Handlers /\ Promise!Lose(loop.conn)
<1> DEFINE h == loop.conn
           e == entries[conns[h].req.key]
           uuid == conns[h].req.uuid
           old == conns[h]
           since == Len(e.chan)
           new == [old EXCEPT !.pc = "streaming", !.since = since]
<1>1. /\ Rewritten /\ h \in Handlers /\ Waits(h, "subscribe") /\ conns[h].req.key \in Subscribed
      /\ conns'[h].pc = "streaming"
      /\ \A g \in Handlers \ {h} :
           conns'[g] = IF uuid \in DOMAIN e.clients /\ g = e.clients[uuid]
                         THEN Dropped(conns[g]) ELSE conns[g]
  BY JoinedConns DEF FullInv
<1>2. ConnsOK /\ IsConnection(old) /\ UNCHANGED <<storage, reply>>
  BY <1>1 DEF FullInv, Inv, ConnsOK, LoopJoins, coreVars
<1>3. conns'[h] = new
  BY <1>1 DEF LoopJoins, Handlers
<1>4. new.req = old.req /\ new.answer = old.answer
  <2> HIDE DEF old, since
  <2> QED
    BY <1>2 DEF IsConnection
<1>5. ASSUME NEW g \in Handlers \ {h}
      PROVE  CallOf(conns'[g]) = CallOf(conns[g])
  <2>1. CASE uuid \in DOMAIN e.clients /\ g = e.clients[uuid]
    <3>0. \A u \in DOMAIN e.clients : conns[e.clients[u]].pc = "streaming"
      BY <1>1 DEF FullInv, Inv, ClientsStream
    <3> HIDE DEF e, uuid
    <3>1. conns[g].pc = "streaming"
      BY <2>1, <3>0
    <3> QED
      BY <1>1, <2>1, <3>1, DroppedStream
  <2>2. CASE ~(uuid \in DOMAIN e.clients /\ g = e.clients[uuid])
    BY <1>1, <2>2
  <2> QED
    BY <2>1, <2>2
<1>6. Handlers' = Handlers
  BY <1>1, <1>2, RewrittenConns
<1>7. conns'[h].req = conns[h].req /\ conns'[h].answer = conns[h].answer /\ conns[h].pc = "queued"
  <2> HIDE DEF new
  <2> QED
    BY <1>1, <1>3, <1>4 DEF Waits
<1> HIDE DEF h, new
<1>8. Promise!Lose(h)
  BY <1>1, <1>2, <1>5, <1>6, <1>7, CallIsLost
<1> QED
  BY <1>1, <1>8 DEF h

\* Every step of the server is a step of the service, or none.
LEMMA ServerStepsTheService ==
  ASSUME FullInv, [Next]_vars
  PROVE  [Promise!Next]_(Promise!vars)
<1> DEFINE Step == [Promise!Next]_(Promise!vars)
           Stutter == UNCHANGED <<storage, reply>> /\ Calls' = Calls
<1>0. ConnsOK /\ DOMAIN Calls = Handlers
  BY CallsShape DEF FullInv, Inv
<1>1. Stutter => Step
  BY DEF Promise!vars
<1>2. ASSUME conns' = conns PROVE Calls' = Calls
  BY <1>2, SameCalls DEF Handlers
<1>3. ASSUME NEW req \in Requests, HandleRequest(req) PROVE Step
  BY <1>3, RequestArrives DEF Promise!Next
<1>4. ASSUME NEW h \in DOMAIN conns, LoopServes(h) PROVE Step
  <2>1. CASE LoopPut(h) \/ LoopGet(h) \/ LoopDelete(h)
    BY <1>0, <2>1, DataEffect DEF Promise!Next
  <2>2. CASE \/ LoopTrace(h) \/ LoopUnsubscribe(h)
             \/ LoopMakesNotifier(h) \/ LoopRefusesSubscription(h)
    BY <1>0, <2>2, OtherServed DEF Promise!Next
  <2>3. CASE LoopFindsNotifier(h)
    BY <1>1, <1>2, <2>3 DEF LoopFindsNotifier, coreVars
  <2> QED
    BY <1>4, <2>1, <2>2, <2>3 DEF LoopServes
<1>5. ASSUME NEW h \in DOMAIN conns, WriteResponse(h) \/ HandlerPanics(h) PROVE Step
  BY <1>0, <1>5, HandlerEndsCall DEF Promise!Next, Handlers
<1>6. ASSUME NEW h \in DOMAIN conns, PeerStalls(h) \/ PeerReads(h) \/ PeerGoes(h) PROVE Step
  <2>1. PICK p \in {"reads", "stalls", "gone"} : PeerBecomes(h, p)
    BY <1>6 DEF PeerStalls, PeerReads, PeerGoes
  <2>2. UNCHANGED <<storage, reply>>
    BY <2>1 DEF PeerBecomes, coreVars
  <2> QED
    BY <1>1, <2>1, <2>2, PeerKeepsCalls DEF Handlers
<1>7. ASSUME LoopJoins PROVE Step
  BY <1>0, <1>7, JoinLosesCall DEF Promise!Next
<1>8. ASSUME NEW k \in Subscribed, NEW i, CastStarts(k) \/ CastStalls(k, i) PROVE Step
  <2>1. UNCHANGED <<storage, reply, conns>>
    BY <1>8 DEF CastStarts, CastStalls, coreVars
  <2> QED
    BY <1>1, <1>2, <2>1
<1>9. ASSUME NEW k \in Subscribed, NEW i, CastWrites(k, i) PROVE Step
  <2>1. UNCHANGED <<storage, reply>>
    BY <1>9 DEF CastWrites, coreVars
  <2> QED
    BY <1>1, <1>9, <2>1, CastKeepsCalls
<1>10. ASSUME NEW k \in Subscribed, NEW u, CleanUp(k, u) PROVE Step
  <2>1. UNCHANGED <<storage, reply>>
    BY <1>10 DEF CleanUp, coreVars
  <2> QED
    BY <1>1, <1>10, <2>1, CleanUpKeepsCalls
<1>11. ASSUME Restart PROVE Step
  BY <1>11, RestartLoses DEF Promise!Next
<1>12. ASSUME LoopCancelled \/ ServeReturns \/ UNCHANGED vars PROVE Step
  <2>1. UNCHANGED <<storage, reply, conns>>
    BY <1>12 DEF LoopCancelled, ServeReturns, vars, coreVars
  <2> QED
    BY <1>1, <1>2, <2>1
<1> HIDE DEF Step, Stutter
<1>13. Step
  BY <1>3, <1>4, <1>5, <1>6, <1>7, <1>8, <1>9, <1>10, <1>11, <1>12 DEF Next
<1> QED
  BY <1>13 DEF Step

\* And it starts as the service does.
LEMMA ServerStartsAsTheService == Init => Promise!Init
<1> SUFFICES ASSUME Init PROVE Promise!Init
  OBVIOUS
<1>1. conns = <<>> /\ storage = <<>> /\ reply.op = "new"
  BY DEF Init, Core!Init
<1>2. Calls = <<>>
  <2>1. Handlers = {}
    BY <1>1 DEF Handlers
  <2> QED
    BY <2>1 DEF Calls
<1> QED
  BY <1>1, <1>2 DEF Promise!Init, Promise!Store!Init, Promise!Store!StoreOps

(***************************************************************************)
(* The server is the service: each put, get and delete takes effect once,  *)
(* at one instant between its arrival and its answer, and gets its own     *)
(* answer, however the queues, the handlers, the Notifiers, cancellation   *)
(* and restarts interleave.                                                *)
(***************************************************************************)
THEOREM ServerImplementsService == Spec => ImplementsService
<1>1. FullInv /\ [Next]_vars => [Promise!Next]_(Promise!vars)
  BY ServerStepsTheService
<1> QED
  BY <1>1, ServerStartsAsTheService, FullInvAlways, PTL DEF Spec, ImplementsService, Promise!Spec

=============================================================================
