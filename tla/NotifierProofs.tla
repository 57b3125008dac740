--------------------------- MODULE NotifierProofs ---------------------------
(***************************************************************************)
(* That the two elements of StateBuf are one register of the newest        *)
(* message, that a stream gets no message twice and that Close is its      *)
(* last, for any number of messages, clients and connections.              *)
(***************************************************************************)
EXTENDS Notifier, TLAPS

(***************************************************************************)
(* The inductive invariant.  Messages move from the channel through the    *)
(* receiver task and the buffer to the broadcasts, and those further on    *)
(* are older: Ahead(m) says that m is newer than everything the broadcasts *)
(* and the buffer have seen.                                               *)
(***************************************************************************)
Shape ==
  /\ sent \in Nat
  /\ inbox \in Seq(Nat)
  /\ recv \in [pc : {"recv", "store", "wake", "ended"}, msg : Nat]
  /\ buf \in [{0, 1} -> Nat] /\ idx \in {0, 1}
  /\ DOMAIN casts \subseteq Nat

Ahead(m) == buf[idx] < m /\ \A k \in DOMAIN casts : k < m

InboxOrdered ==
  /\ \A i \in 1..Len(inbox) : None < inbox[i] /\ inbox[i] <= sent
  /\ \A i, j \in 1..Len(inbox) : i < j => inbox[i] < inbox[j]

\* Everything past the channel is older than what is in it.
InboxAhead ==
  /\ \A i \in 1..Len(inbox) : Ahead(inbox[i])
  /\ recv.pc = "store" => \A i \in 1..Len(inbox) : recv.msg < inbox[i]

\* And none of it is newer than the last message sent.
Bounded ==
  /\ buf[idx] <= sent
  /\ \A k \in DOMAIN casts : k <= sent
  /\ recv.pc = "store" => recv.msg <= sent

Register ==
  /\ buf[1 - idx] = None
  /\ \A m \in DOMAIN casts : buf[idx] # None => m < buf[idx]
  /\ recv.pc = "store" => Ahead(recv.msg)

Inv == Shape /\ InboxOrdered /\ InboxAhead /\ Bounded /\ Register

\* The steps of the clients, their streams and the broadcasts start no broadcast.
LEMMA OthersKeepInv ==
  ASSUME Inv, UNCHANGED <<sent, inbox, open, recv, buf, idx>>, DOMAIN casts' = DOMAIN casts
  PROVE  Inv'
BY DEF Inv, Shape, InboxOrdered, InboxAhead, Bounded, Register, Ahead

\* The same, for a step of one broadcast task.
LEMMA BroadcastKeepsInv ==
  ASSUME Inv, NEW m \in DOMAIN casts, Broadcast(m)
  PROVE  Inv'
<1>1. UNCHANGED <<sent, inbox, open, recv, buf, idx>>
  BY DEF Broadcast, BroadcastKeys, BroadcastCleans, BroadcastEnds, BroadcastStalls,
         BroadcastSends, BroadcastDropsFailed, receiverVars, bufferVars
<1>2. DOMAIN casts' = DOMAIN casts
  BY DEF Broadcast, BroadcastKeys, BroadcastCleans, BroadcastEnds, BroadcastStalls,
         BroadcastSends, BroadcastDropsFailed
<1> QED
  BY <1>1, <1>2, OthersKeepInv

(***************************************************************************)
(* The buffer is a register of the newest message: pop may flip the index  *)
(* at any moment, also of an empty buffer, and nothing is stranded in the  *)
(* other element or broadcast out of order of its predecessors.            *)
(***************************************************************************)
THEOREM BufferRegister == Spec => []BufferIsLatestRegister
<1>1. Init => Inv
  BY DEF Init, Inv, Shape, InboxOrdered, InboxAhead, Bounded, Register, Ahead, None
<1>2. ASSUME Inv, [Next]_vars PROVE Inv'
  <2> USE <1>2
  <2>1. CASE CoreSends
    BY <2>1 DEF CoreSends, Inv, Shape, InboxOrdered, InboxAhead, Bounded, Register, Ahead, None, bufferVars
  <2>2. CASE Receive
    BY <2>2 DEF Receive, Inv, Shape, InboxOrdered, InboxAhead, Bounded, Register, Ahead, None, bufferVars
  <2>3. CASE Store
    BY <2>3 DEF Store, Stored, Inv, Shape, InboxOrdered, InboxAhead, Bounded, Register, Ahead, None
  <2>4. CASE SenderPops
    BY <2>4 DEF SenderPops, Flipped, receiverVars, Inv, Shape, InboxOrdered, InboxAhead, Bounded, Register, Ahead, None
  <2>5. CASE ReceiverEnds \/ Wake
    BY <2>5 DEF ReceiverEnds, Wake, bufferVars, Inv, Shape, InboxOrdered, InboxAhead, Bounded, Register, Ahead, None
  <2>6. CASE CoreDrops \/ SenderWakes
    BY <2>6 DEF CoreDrops, SenderWakes, receiverVars, bufferVars, Inv, Shape, InboxOrdered, InboxAhead, Bounded, Register, Ahead
  <2>7. ASSUME NEW m \in DOMAIN casts, Broadcast(m) PROVE Inv'
    BY <2>7, BroadcastKeepsInv
  <2>8. CASE \/ \E uuid \in Uuids : Subscribe(uuid) \/ Unsubscribe(uuid) \/ UnsubscribeStalls(uuid)
             \/ UnsubscribeAll \/ UnsubscribeAllStalls
             \/ \E s \in DOMAIN streams : PeerCloses(s) \/ PeerStalls(s) \/ PeerReads(s)
             \/ UNCHANGED vars
    BY <2>8, OthersKeepInv
    DEF Subscribe, Unsubscribe, UnsubscribeStalls, UnsubscribeAll, UnsubscribeAllStalls,
        PeerCloses, PeerStalls, PeerReads, vars, receiverVars, bufferVars
  <2> QED
    BY <2>1, <2>2, <2>3, <2>4, <2>5, <2>6, <2>7, <2>8 DEF Next
<1>3. Inv => BufferIsLatestRegister
  BY DEF Inv, Shape, Register, Ahead, BufferIsLatestRegister, None
<1> QED
  BY <1>1, <1>2, <1>3, PTL DEF Spec

-----------------------------------------------------------------------------
(* The types. *)

\* A stream and a broadcast task, as TypeOK describes them.
Stream == [state : {"ok", "stalled", "broken"}, got : Seq(Msgs \cup {CloseMsg})]

Cast == [pc : {"keys", "send", "clean", "ended"}, todo : SUBSET Uuids, failed : SUBSET Uuids]

\* The three parts of TypeOK that no step disturbs together.
TasksTyped ==
  /\ sent \in 0..MaxMsgs /\ inbox \in Seq(Msgs) /\ open \in BOOLEAN
  /\ recv \in [pc : {"recv", "store", "wake", "ended"}, msg : Msgs \cup {None}]
  /\ buf \in [{0, 1} -> Msgs \cup {None}] /\ idx \in {0, 1} /\ changed \in BOOLEAN
  /\ sender \in {"wait", "pop"}

CastsTyped == DOMAIN casts \subseteq Msgs /\ casts \in [DOMAIN casts -> Cast]

StreamsTyped ==
  /\ DOMAIN clients \subseteq Uuids
  /\ clients \in [DOMAIN clients -> DOMAIN streams]
  /\ streams \in Seq(Stream)

\* TypeOK, in the three parts that the actions disturb separately.
LEMMA TypeParts == TypeOK <=> TasksTyped /\ CastsTyped /\ StreamsTyped
BY DEF TypeOK, TasksTyped, CastsTyped, StreamsTyped, Stream, Cast

\* What a write to one stream leaves: the others as they are.
LEMMA DeliveredShape ==
  ASSUME streams \in Seq(Stream), NEW s \in DOMAIN streams, NEW msg \in Msgs \cup {CloseMsg}
  PROVE  /\ Delivered(s, msg) \in Seq(Stream)
         /\ DOMAIN Delivered(s, msg) = DOMAIN streams
         /\ Delivered(s, msg)[s].got = Append(streams[s].got, msg)
         /\ \A t \in DOMAIN streams \ {s} : Delivered(s, msg)[t] = streams[t]
<1>1. streams[s] \in Stream
  OBVIOUS
<1>2. Append(streams[s].got, msg) \in Seq(Msgs \cup {CloseMsg})
  BY <1>1 DEF Stream
<1>3. [streams[s] EXCEPT !.got = Append(@, msg)] \in Stream
  BY <1>1, <1>2 DEF Stream
<1>4. [streams[s] EXCEPT !.got = Append(@, msg)].got = Append(streams[s].got, msg)
  BY <1>1 DEF Stream
<1>5. Delivered(s, msg) \in [DOMAIN streams -> Stream]
  BY <1>3 DEF Delivered
<1>6. Delivered(s, msg)[s].got = Append(streams[s].got, msg)
  BY <1>4 DEF Delivered
<1> QED
  BY <1>5, <1>6 DEF Delivered

\* unsubscribe_impl keeps the shapes of the clients and their streams.
LEMMA UnsubscribeImplShape ==
  ASSUME StreamsTyped, NEW uuid \in Uuids, UnsubscribeImpl(uuid)
  PROVE  StreamsTyped'
<1>1. CASE uuid \in DOMAIN clients /\ StateOf(uuid) = "ok"
  <2>1. /\ streams' = Delivered(clients[uuid], CloseMsg)
        /\ clients' = Without(clients, uuid)
    BY <1>1 DEF UnsubscribeImpl
  <2>2. clients[uuid] \in DOMAIN streams
    BY <1>1 DEF StreamsTyped
  <2> QED
    BY <2>1, <2>2, DeliveredShape DEF Without, StreamsTyped
<1>2. CASE ~(uuid \in DOMAIN clients /\ StateOf(uuid) = "ok")
  BY <1>2 DEF UnsubscribeImpl, StreamsTyped
<1> QED
  BY <1>1, <1>2

\* unsubscribe_all writes to some of the streams and forgets all of them.
LEMMA UnsubscribeAllShape ==
  ASSUME StreamsTyped, UnsubscribeAll
  PROVE  StreamsTyped'
<1>1. PICK told \in SUBSET DOMAIN clients :
        streams' = [s \in DOMAIN streams |->
                      IF \E u \in told : clients[u] = s
                        THEN [streams[s] EXCEPT !.got = Append(@, CloseMsg)]
                        ELSE streams[s]]
  BY DEF UnsubscribeAll
<1>2. ASSUME NEW s \in DOMAIN streams
      PROVE  [streams[s] EXCEPT !.got = Append(@, CloseMsg)] \in Stream
  <2>1. streams[s] \in Stream
    BY DEF StreamsTyped
  <2>2. Append(streams[s].got, CloseMsg) \in Seq(Msgs \cup {CloseMsg})
    BY <2>1 DEF Stream
  <2> QED
    BY <2>1, <2>2 DEF Stream
<1>3. streams' \in [DOMAIN streams -> Stream]
  BY <1>1, <1>2 DEF StreamsTyped
<1>4. streams' \in Seq(Stream)
  BY <1>3 DEF StreamsTyped
<1> QED
  BY <1>4 DEF UnsubscribeAll, StreamsTyped

(***************************************************************************)
(* The type invariant of the tasks, the buffer and the streams.            *)
(***************************************************************************)
THEOREM TypesOfTheNotifier == Spec => []TypeOK
<1>1. Init => TasksTyped /\ CastsTyped /\ StreamsTyped
  BY BoundsAssumption DEF Init, TasksTyped, CastsTyped, StreamsTyped
<1>2. ASSUME TasksTyped, CastsTyped, StreamsTyped, [Next]_vars
      PROVE  TasksTyped' /\ CastsTyped' /\ StreamsTyped'
  <2> USE <1>2
  <2>1. TasksTyped'
    <3>1. CASE CoreSends
      BY <3>1, BoundsAssumption DEF CoreSends, TasksTyped, bufferVars, Msgs
    <3>2. CASE Receive
      <4>1. Head(inbox) \in Msgs /\ Tail(inbox) \in Seq(Msgs)
        BY <3>2 DEF Receive, TasksTyped
      <4> QED
        BY <3>2, <4>1 DEF Receive, TasksTyped, bufferVars
    <3>3. CASE CoreDrops \/ ReceiverEnds \/ SenderWakes
      BY <3>3 DEF CoreDrops, ReceiverEnds, SenderWakes, TasksTyped, receiverVars, bufferVars
    <3>4. CASE Store
      BY <3>4 DEF Store, Stored, TasksTyped
    <3>5. CASE Wake
      BY <3>5 DEF Wake, TasksTyped
    <3>6. CASE SenderPops
      BY <3>6 DEF SenderPops, Flipped, TasksTyped, receiverVars
    <3>7. CASE UNCHANGED <<sent, receiverVars, bufferVars, sender>>
      BY <3>7 DEF TasksTyped, receiverVars, bufferVars
    <3> QED
      BY <3>1, <3>2, <3>3, <3>4, <3>5, <3>6, <3>7
      DEF Next, Broadcast, BroadcastKeys, BroadcastCleans, BroadcastEnds, BroadcastStalls,
          BroadcastSends, BroadcastDropsFailed, Subscribe, Unsubscribe, UnsubscribeStalls,
          UnsubscribeAll, UnsubscribeAllStalls, PeerCloses, PeerStalls, PeerReads, vars
  <2>2. CastsTyped'
    <3>1. CASE SenderPops
      BY <3>1 DEF SenderPops, NewCast, CastsTyped, Cast, TasksTyped, None
    <3>2. ASSUME NEW m \in DOMAIN casts, NEW c \in Cast, casts' = [casts EXCEPT ![m] = c]
          PROVE  CastsTyped'
      BY <3>2 DEF CastsTyped
    <3>3. ASSUME NEW m \in DOMAIN casts, Broadcast(m)
          PROVE  CastsTyped'
      <4>1. casts[m] \in Cast
        BY DEF CastsTyped
      <4>2. CASE BroadcastKeys(m)
        BY <3>2, <4>1, <4>2 DEF BroadcastKeys, Cast, StreamsTyped
      <4>3. CASE BroadcastCleans(m) \/ BroadcastEnds(m)
        BY <3>2, <4>1, <4>3 DEF BroadcastCleans, BroadcastEnds, Cast
      <4>4. ASSUME NEW uuid \in Uuids, BroadcastStalls(m, uuid) PROVE CastsTyped'
        BY <4>4 DEF BroadcastStalls, CastsTyped
      <4>5. ASSUME NEW uuid \in Uuids, BroadcastSends(m, uuid) PROVE CastsTyped'
        BY <3>2, <4>1, <4>5 DEF BroadcastSends, Cast
      <4>6. ASSUME NEW uuid \in Uuids, BroadcastDropsFailed(m, uuid) PROVE CastsTyped'
        BY <3>2, <4>1, <4>6 DEF BroadcastDropsFailed, Cast
      <4> QED
        BY <3>3, <4>2, <4>3, <4>4, <4>5, <4>6 DEF Broadcast
    <3>4. CASE UNCHANGED casts
      BY <3>4 DEF CastsTyped
    <3> QED
      BY <3>1, <3>3, <3>4
      DEF Next, CoreSends, CoreDrops, Receive, ReceiverEnds, Store, Wake, SenderWakes, Subscribe,
          Unsubscribe, UnsubscribeStalls, UnsubscribeAll, UnsubscribeAllStalls,
          PeerCloses, PeerStalls, PeerReads, vars
  <2>3. StreamsTyped'
    <3>1. ASSUME NEW m \in DOMAIN casts, NEW uuid \in Uuids, BroadcastSends(m, uuid)
          PROVE  StreamsTyped'
      <4>1. m \in Msgs
        BY DEF CastsTyped
      <4> QED
        BY <3>1, <4>1, DeliveredShape DEF BroadcastSends, StreamsTyped
    <3>2. ASSUME NEW m \in DOMAIN casts, NEW uuid \in Uuids, BroadcastDropsFailed(m, uuid)
          PROVE  StreamsTyped'
      BY <3>2, UnsubscribeImplShape DEF BroadcastDropsFailed
    <3>3. ASSUME NEW uuid \in Uuids, Unsubscribe(uuid) PROVE StreamsTyped'
      BY <3>3, UnsubscribeImplShape DEF Unsubscribe
    <3>4. ASSUME NEW uuid \in Uuids, Subscribe(uuid) PROVE StreamsTyped'
      <4>1. [state |-> "ok", got |-> <<>>] \in Stream
        BY DEF Stream
      <4>2. streams' \in Seq(Stream) /\ DOMAIN streams \cup {Len(streams) + 1} \subseteq DOMAIN streams'
        BY <3>4, <4>1 DEF Subscribe, StreamsTyped
      <4> QED
        BY <3>4, <4>2 DEF Subscribe, StreamsTyped
    <3>5. ASSUME NEW s \in DOMAIN streams, PeerCloses(s) \/ PeerStalls(s) \/ PeerReads(s)
          PROVE  StreamsTyped'
      <4>1. PICK state \in {"ok", "stalled", "broken"} :
              streams' = [streams EXCEPT ![s].state = state]
        BY <3>5 DEF PeerCloses, PeerStalls, PeerReads
      <4>2. streams[s] \in Stream
        BY DEF StreamsTyped
      <4>3. [streams[s] EXCEPT !.state = state] \in Stream
        BY <4>2 DEF Stream
      <4> QED
        BY <3>5, <4>1, <4>3 DEF PeerCloses, PeerStalls, PeerReads, StreamsTyped
    <3>6. CASE UNCHANGED <<clients, streams>>
      BY <3>6 DEF StreamsTyped
    <3> QED
      BY <3>1, <3>2, <3>3, <3>4, <3>5, <3>6, UnsubscribeAllShape
      DEF Next, CoreSends, CoreDrops, Receive, ReceiverEnds, Store, Wake, SenderWakes, SenderPops,
          Broadcast, BroadcastKeys, BroadcastCleans, BroadcastEnds, BroadcastStalls,
          UnsubscribeStalls, UnsubscribeAllStalls, clientVars, vars
  <2> QED
    BY <2>1, <2>2, <2>3
<1> QED
  BY <1>1, <1>2, TypeParts, PTL DEF Spec

-----------------------------------------------------------------------------
(* What is written to the streams. *)

Wrote(s, m) == \E i \in DOMAIN streams[s].got : streams[s].got[i] = m

(***************************************************************************)
(* A stream serves one client, and the one that a client has was not       *)
(* closed.  A message is written by its own broadcast, after that has      *)
(* listed the clients, and not yet to those that are left on the list.     *)
(***************************************************************************)
StreamsOwned == \A u, v \in DOMAIN clients : clients[u] = clients[v] => u = v

ClientsOpen == \A u \in DOMAIN clients : ~Wrote(clients[u], CloseMsg)

OnlyCast ==
  \A s \in DOMAIN streams : \A m \in Msgs :
    Wrote(s, m) => m \in DOMAIN casts /\ casts[m].pc # "keys"

StillToCome ==
  \A m \in DOMAIN casts : casts[m].pc = "send" =>
    \A u \in casts[m].todo \cap DOMAIN clients : ~Wrote(clients[u], m)

WrittenInv == StreamsOwned /\ ClientsOpen /\ OnlyCast /\ StillToCome /\ AtMostOnce /\ NothingAfterClose

\* The step writes msg to the streams in T and nothing to any other.
Writes(T, msg) ==
  /\ DOMAIN streams' = DOMAIN streams
  /\ \A s \in DOMAIN streams :
       streams'[s].got = IF s \in T THEN Append(streams[s].got, msg) ELSE streams[s].got

\* The step starts no broadcast twice, and takes no one back to its list of clients.
CastsGoOn ==
  /\ DOMAIN casts \subseteq DOMAIN casts'
  /\ \A m \in DOMAIN casts' \ DOMAIN casts : casts'[m].pc = "keys"
  /\ \A m \in DOMAIN casts :
       /\ casts[m].pc # "keys" => casts'[m].pc # "keys"
       /\ casts'[m].pc = "send" => casts[m].pc = "send" /\ casts'[m].todo \subseteq casts[m].todo

\* A write to one stream is one.
LEMMA DeliveredWrites ==
  ASSUME StreamsTyped, NEW s \in DOMAIN streams, NEW msg \in Msgs \cup {CloseMsg},
         streams' = Delivered(s, msg)
  PROVE  Writes({s}, msg)
<1>1. /\ DOMAIN streams' = DOMAIN streams
      /\ streams'[s].got = Append(streams[s].got, msg)
      /\ \A t \in DOMAIN streams \ {s} : streams'[t] = streams[t]
  BY DeliveredShape DEF StreamsTyped
<1> QED
  BY <1>1 DEF Writes

\* What a write does to the set of messages and to their order.
LEMMA WhatWritesWrote ==
  ASSUME StreamsTyped, NEW T, NEW msg, Writes(T, msg), NEW s \in DOMAIN streams
  PROVE  /\ \A m : Wrote(s, m)' <=> Wrote(s, m) \/ (s \in T /\ m = msg)
         /\ s \in T => Len(streams'[s].got) = Len(streams[s].got) + 1
                       /\ streams'[s].got[Len(streams[s].got) + 1] = msg
         /\ s \notin T => Len(streams'[s].got) = Len(streams[s].got)
         /\ \A i \in DOMAIN streams[s].got : streams'[s].got[i] = streams[s].got[i]
         /\ DOMAIN streams[s].got = 1..Len(streams[s].got) /\ Len(streams[s].got) \in Nat
         /\ DOMAIN streams'[s].got = 1..Len(streams'[s].got)
<1> DEFINE got == streams[s].got
           after == streams'[s].got
<1>1. got \in Seq(Msgs \cup {CloseMsg})
  <2>1. streams[s] \in Stream
    BY DEF StreamsTyped
  <2> QED
    BY <2>1 DEF Stream
<1>2. after = IF s \in T THEN Append(got, msg) ELSE got
  BY DEF Writes
<1> HIDE DEF got, after
<1>3. /\ DOMAIN got = 1..Len(got) /\ Len(got) \in Nat
      /\ DOMAIN after = 1..Len(after)
      /\ s \in T => Len(after) = Len(got) + 1 /\ after[Len(got) + 1] = msg
      /\ s \notin T => after = got
      /\ \A i \in DOMAIN got : after[i] = got[i]
  BY <1>1, <1>2
<1>4. ASSUME NEW m
      PROVE  (\E i \in DOMAIN after : after[i] = m)
               <=> (\E i \in DOMAIN got : got[i] = m) \/ (s \in T /\ m = msg)
  <2>1. CASE s \in T
    <3>1. DOMAIN after = DOMAIN got \cup {Len(got) + 1}
      BY <1>3, <2>1
    <3> QED
      BY <1>3, <2>1, <3>1
  <2>2. CASE s \notin T
    BY <1>3, <2>2
  <2> QED
    BY <2>1, <2>2
<1> QED
  BY <1>3, <1>4 DEF Wrote, got, after

\* A message that is new to the streams it is written to keeps the order of each.
LEMMA WritesKeepOrder ==
  ASSUME StreamsTyped, NEW T, NEW msg, Writes(T, msg), AtMostOnce, NothingAfterClose,
         \A s \in T \cap DOMAIN streams :
           ~Wrote(s, CloseMsg) /\ (msg = CloseMsg \/ ~Wrote(s, msg))
  PROVE  AtMostOnce' /\ NothingAfterClose'
<1>1. DOMAIN streams' = DOMAIN streams
  BY DEF Writes
<1>2. ASSUME NEW s \in DOMAIN streams, NEW i \in DOMAIN streams'[s].got, NEW j \in DOMAIN streams'[s].got,
             i < j, streams'[s].got[i] = streams'[s].got[j]
      PROVE  streams'[s].got[i] = CloseMsg
  <2> USE <1>2, WhatWritesWrote
  <2>1. i \in DOMAIN streams[s].got
    OBVIOUS
  <2>2. CASE j \in DOMAIN streams[s].got
    BY <2>1, <2>2 DEF AtMostOnce
  <2>3. CASE j \notin DOMAIN streams[s].got
    <3>1. s \in T /\ streams'[s].got[j] = msg
      BY <2>3
    <3>2. Wrote(s, msg)
      BY <2>1, <3>1 DEF Wrote
    <3> QED
      BY <3>1, <3>2
  <2> QED
    BY <2>2, <2>3
<1>3. ASSUME NEW s \in DOMAIN streams, NEW i \in DOMAIN streams'[s].got, streams'[s].got[i] = CloseMsg
      PROVE  i = Len(streams'[s].got)
  <2> USE <1>3, WhatWritesWrote
  <2>1. CASE s \in T
    <3>1. i \notin DOMAIN streams[s].got
      BY <2>1 DEF Wrote
    <3> QED
      BY <2>1, <3>1
  <2>2. CASE s \notin T
    BY <2>2 DEF NothingAfterClose
  <2> QED
    BY <2>1, <2>2
<1> QED
  BY <1>1, <1>2, <1>3 DEF AtMostOnce, NothingAfterClose

(***************************************************************************)
(* A step that writes nothing but Close, and only to streams whose client  *)
(* it forgets.  With T = {} it is any step that leaves the streams alone.  *)
(***************************************************************************)
LEMMA ClosesKeepWrittenInv ==
  ASSUME StreamsTyped, CastsTyped, WrittenInv, CastsGoOn,
         NEW T \in SUBSET {clients[u] : u \in DOMAIN clients}, Writes(T, CloseMsg),
         \A u \in DOMAIN clients' : u \in DOMAIN clients /\ clients'[u] = clients[u] /\ clients[u] \notin T
  PROVE  WrittenInv'
<1>1. \A u \in DOMAIN clients : clients[u] \in DOMAIN streams
  BY DEF StreamsTyped
<1>2. AtMostOnce' /\ NothingAfterClose'
  <2>1. \A s \in T : ~Wrote(s, CloseMsg)
    BY DEF WrittenInv, ClientsOpen
  <2> QED
    BY <2>1, WritesKeepOrder DEF WrittenInv
<1>3. StreamsOwned'
  BY DEF WrittenInv, StreamsOwned
<1>4. ClientsOpen'
  BY <1>1, WhatWritesWrote DEF WrittenInv, ClientsOpen
<1>5. OnlyCast'
  <2>1. ASSUME NEW s \in DOMAIN streams, NEW m \in Msgs, Wrote(s, m)' PROVE Wrote(s, m)
    BY <2>1, WhatWritesWrote DEF Msgs, CloseMsg
  <2> QED
    BY <2>1 DEF WrittenInv, OnlyCast, CastsGoOn, Writes
<1>6. StillToCome'
  <2> SUFFICES ASSUME NEW m \in DOMAIN casts', casts'[m].pc = "send",
                      NEW u \in casts'[m].todo \cap DOMAIN clients'
               PROVE  ~Wrote(clients[u], m)'
    BY DEF StillToCome
  <2>1. m \in DOMAIN casts /\ casts[m].pc = "send" /\ u \in casts[m].todo \cap DOMAIN clients
    BY DEF CastsGoOn
  <2>2. ~Wrote(clients[u], m) /\ clients'[u] = clients[u] /\ clients[u] \notin T
    BY <2>1 DEF WrittenInv, StillToCome
  <2> QED
    BY <1>1, <2>1, <2>2, WhatWritesWrote
<1> QED
  BY <1>2, <1>3, <1>4, <1>5, <1>6 DEF WrittenInv

\* A broadcast writes its message to a stream that has not got it yet.
LEMMA SendKeepsWrittenInv ==
  ASSUME StreamsTyped, CastsTyped, WrittenInv,
         NEW m \in DOMAIN casts, NEW uuid \in Uuids, BroadcastSends(m, uuid)
  PROVE  WrittenInv'
<1>1. m \in Msgs /\ casts[m] \in Cast /\ casts[m].pc = "send" /\ uuid \in casts[m].todo
  BY DEF BroadcastSends, CastsTyped
<1>2. /\ DOMAIN casts' = DOMAIN casts
      /\ \A k \in DOMAIN casts :
           casts'[k].pc = casts[k].pc
           /\ casts'[k].todo = IF k = m THEN casts[k].todo \ {uuid} ELSE casts[k].todo
  BY <1>1 DEF BroadcastSends, CastsTyped, Cast
<1>3. CastsGoOn
  BY <1>2 DEF CastsGoOn
<1>4. clients' = clients /\ m # CloseMsg
  BY <1>1 DEF BroadcastSends, Msgs, CloseMsg
<1>5. CASE streams' = streams
  <2>1. Writes({}, CloseMsg)
    BY <1>5 DEF Writes
  <2> QED
    BY <1>3, <1>4, <2>1, ClosesKeepWrittenInv
<1>6. CASE streams' # streams
  <2> DEFINE s == clients[uuid]
  <2>1. uuid \in DOMAIN clients /\ streams' = Delivered(s, m)
    BY <1>6 DEF BroadcastSends
  <2>2. s \in DOMAIN streams /\ \A u \in DOMAIN clients : clients[u] \in DOMAIN streams
    BY <2>1 DEF StreamsTyped
  <2>3. Writes({s}, m)
    BY <1>1, <2>1, <2>2, DeliveredWrites
  <2>4. ~Wrote(s, m) /\ ~Wrote(s, CloseMsg)
    BY <1>1, <2>1 DEF WrittenInv, StillToCome, ClientsOpen
  <2>5. AtMostOnce' /\ NothingAfterClose'
    BY <2>3, <2>4, WritesKeepOrder DEF WrittenInv
  <2> HIDE DEF s
  <2>6. StreamsOwned'
    BY <1>4 DEF WrittenInv, StreamsOwned
  <2>7. ClientsOpen'
    BY <1>4, <2>2, <2>3, WhatWritesWrote DEF WrittenInv, ClientsOpen
  <2>8. OnlyCast'
    <3>1. ASSUME NEW t \in DOMAIN streams, NEW k \in Msgs, Wrote(t, k)'
          PROVE  k \in DOMAIN casts' /\ casts'[k].pc # "keys"
      <4>1. Wrote(t, k) \/ k = m
        BY <2>3, <3>1, WhatWritesWrote
      <4> QED
        BY <1>1, <1>2, <4>1 DEF WrittenInv, OnlyCast
    <3> QED
      BY <2>3, <3>1 DEF OnlyCast, Writes
  <2>9. StillToCome'
    <3> SUFFICES ASSUME NEW k \in DOMAIN casts', casts'[k].pc = "send",
                        NEW u \in casts'[k].todo \cap DOMAIN clients'
                 PROVE  ~Wrote(clients[u], k)'
      BY DEF StillToCome
    <3>1. k \in DOMAIN casts /\ casts[k].pc = "send" /\ u \in casts[k].todo \cap DOMAIN clients
      BY <1>2, <1>4
    <3>2. ~Wrote(clients[u], k)
      BY <3>1 DEF WrittenInv, StillToCome
    <3>3. ~(clients[u] = s /\ k = m)
      BY <1>2, <2>1, <3>1 DEF WrittenInv, StreamsOwned, s
    <3> QED
      BY <1>4, <2>2, <2>3, <3>1, <3>2, <3>3, WhatWritesWrote
  <2> QED
    BY <2>5, <2>6, <2>7, <2>8, <2>9 DEF WrittenInv
<1> QED
  BY <1>5, <1>6

\* unsubscribe_impl closes the stream of the client that it removes, or does nothing.
LEMMA UnsubscribeImplCloses ==
  ASSUME StreamsTyped, WrittenInv, NEW uuid \in Uuids, UnsubscribeImpl(uuid)
  PROVE  \E T \in SUBSET {clients[u] : u \in DOMAIN clients} :
           /\ Writes(T, CloseMsg)
           /\ \A u \in DOMAIN clients' :
                u \in DOMAIN clients /\ clients'[u] = clients[u] /\ clients[u] \notin T
<1>1. CASE uuid \in DOMAIN clients /\ StateOf(uuid) = "ok"
  <2>1. /\ streams' = Delivered(clients[uuid], CloseMsg)
        /\ clients' = Without(clients, uuid)
    BY <1>1 DEF UnsubscribeImpl
  <2>2. clients[uuid] \in DOMAIN streams
    BY <1>1 DEF StreamsTyped
  <2>3. Writes({clients[uuid]}, CloseMsg)
    BY <2>1, <2>2, DeliveredWrites
  <2>4. \A u \in DOMAIN clients' :
          u \in DOMAIN clients /\ clients'[u] = clients[u] /\ clients[u] \notin {clients[uuid]}
    BY <1>1, <2>1 DEF Without, WrittenInv, StreamsOwned
  <2> QED
    BY <1>1, <2>3, <2>4
<1>2. CASE ~(uuid \in DOMAIN clients /\ StateOf(uuid) = "ok")
  <2>1. Writes({}, CloseMsg)
    BY <1>2 DEF UnsubscribeImpl, Writes
  <2> QED
    BY <1>2, <2>1 DEF UnsubscribeImpl
<1> QED
  BY <1>1, <1>2

(***************************************************************************)
(* Every step keeps WrittenInv.  That no broadcast starts twice for a      *)
(* message is what BufferIsLatestRegister says of the buffer.              *)
(***************************************************************************)
LEMMA WrittenStep ==
  ASSUME TasksTyped, StreamsTyped, CastsTyped, BufferIsLatestRegister, WrittenInv, [Next]_vars
  PROVE  WrittenInv'
<1>1. ASSUME UNCHANGED <<clients, streams>>, CastsGoOn PROVE WrittenInv'
  <2>1. Writes({}, CloseMsg)
    BY <1>1 DEF Writes
  <2> QED
    BY <1>1, <2>1, ClosesKeepWrittenInv
<1>2. ASSUME casts' = casts PROVE CastsGoOn
  BY <1>2 DEF CastsGoOn
<1>3. CASE SenderPops
  <2>1. buf[idx] = None \/ buf[idx] \notin DOMAIN casts
    BY DEF BufferIsLatestRegister, TasksTyped, None, Msgs
  <2>2. CastsGoOn
    BY <1>3, <2>1 DEF SenderPops, CastsGoOn, NewCast
  <2> QED
    BY <1>1, <1>3, <2>2 DEF SenderPops, clientVars
<1>4. ASSUME NEW m \in DOMAIN casts, BroadcastKeys(m) PROVE WrittenInv'
  <2>1. /\ DOMAIN casts' = DOMAIN casts /\ casts[m].pc = "keys" /\ casts'[m].pc = "send"
        /\ \A k \in DOMAIN casts \ {m} : casts'[k] = casts[k]
        /\ clients' = clients /\ streams' = streams
    BY <1>4 DEF BroadcastKeys, CastsTyped, Cast, clientVars
  <2>2. \A s \in DOMAIN streams : \A k : Wrote(s, k)' <=> Wrote(s, k)
    BY <2>1 DEF Wrote
  <2>3. \A u \in DOMAIN clients : clients[u] \in DOMAIN streams /\ ~Wrote(clients[u], m)
    BY <2>1 DEF WrittenInv, OnlyCast, StreamsTyped, CastsTyped
  <2>4. OnlyCast'
    BY <2>1, <2>2 DEF WrittenInv, OnlyCast
  <2>5. StillToCome'
    <3> SUFFICES ASSUME NEW k \in DOMAIN casts', casts'[k].pc = "send",
                        NEW u \in casts'[k].todo \cap DOMAIN clients'
                 PROVE  ~Wrote(clients[u], k)'
      BY DEF StillToCome
    <3> QED
      BY <2>1, <2>2, <2>3 DEF WrittenInv, StillToCome
  <2>6. StreamsOwned' /\ AtMostOnce' /\ NothingAfterClose'
    BY <2>1 DEF WrittenInv, StreamsOwned, AtMostOnce, NothingAfterClose
  <2>7. ClientsOpen'
    BY <2>1, <2>2, <2>3 DEF WrittenInv, ClientsOpen
  <2> QED
    BY <2>4, <2>5, <2>6, <2>7 DEF WrittenInv
<1>5. ASSUME NEW m \in DOMAIN casts, BroadcastCleans(m) \/ BroadcastEnds(m) PROVE WrittenInv'
  <2>1. CastsGoOn
    BY <1>5 DEF BroadcastCleans, BroadcastEnds, CastsGoOn, CastsTyped, Cast
  <2> QED
    BY <1>1, <1>5, <2>1 DEF BroadcastCleans, BroadcastEnds
<1>6. ASSUME NEW m \in DOMAIN casts, NEW uuid \in Uuids, BroadcastDropsFailed(m, uuid)
      PROVE  WrittenInv'
  <2>1. CastsGoOn
    BY <1>6 DEF BroadcastDropsFailed, CastsGoOn, CastsTyped, Cast
  <2> QED
    BY <1>6, <2>1, UnsubscribeImplCloses, ClosesKeepWrittenInv DEF BroadcastDropsFailed
<1>7. ASSUME NEW uuid \in Uuids, Unsubscribe(uuid) PROVE WrittenInv'
  <2>1. CastsGoOn
    BY <1>2, <1>7 DEF Unsubscribe
  <2> QED
    BY <1>7, <2>1, UnsubscribeImplCloses, ClosesKeepWrittenInv DEF Unsubscribe
<1>8. CASE UnsubscribeAll
  <2>1. PICK told \in SUBSET DOMAIN clients :
          streams' = [s \in DOMAIN streams |->
                        IF \E u \in told : clients[u] = s
                          THEN [streams[s] EXCEPT !.got = Append(@, CloseMsg)]
                          ELSE streams[s]]
    BY <1>8 DEF UnsubscribeAll
  <2> DEFINE T == {clients[u] : u \in told}
  <2>2. \A s \in DOMAIN streams : streams[s] \in Stream
    BY DEF StreamsTyped
  <2>3. Writes(T, CloseMsg)
    BY <2>1, <2>2 DEF Writes, Stream
  <2>4. T \in SUBSET {clients[u] : u \in DOMAIN clients}
    OBVIOUS
  <2>5. DOMAIN clients' = {} /\ CastsGoOn
    BY <1>2, <1>8 DEF UnsubscribeAll
  <2> HIDE DEF T
  <2> QED
    BY <2>3, <2>4, <2>5, ClosesKeepWrittenInv
<1>9. ASSUME NEW s \in DOMAIN streams, PeerCloses(s) \/ PeerStalls(s) \/ PeerReads(s)
      PROVE  WrittenInv'
  <2>1. \A t \in DOMAIN streams : streams[t] \in Stream
    BY DEF StreamsTyped
  <2>2. Writes({}, CloseMsg)
    BY <1>9, <2>1 DEF PeerCloses, PeerStalls, PeerReads, Writes, Stream
  <2>3. CastsGoOn /\ clients' = clients
    BY <1>2, <1>9 DEF PeerCloses, PeerStalls, PeerReads
  <2> QED
    BY <2>2, <2>3, ClosesKeepWrittenInv
<1>10. ASSUME NEW uuid \in Uuids, Subscribe(uuid) PROVE WrittenInv'
  <2>1. PICK new \in Nat :
        /\ new = Len(streams) + 1
        /\ new \notin DOMAIN streams /\ DOMAIN streams' = DOMAIN streams \cup {new}
        /\ \A s \in DOMAIN streams : streams'[s] = streams[s]
        /\ streams'[new].got = <<>>
    BY <1>10 DEF Subscribe, StreamsTyped
  <2>2. /\ DOMAIN clients' = DOMAIN clients \cup {uuid} /\ clients'[uuid] = new
        /\ \A u \in DOMAIN clients \ {uuid} : clients'[u] = clients[u]
        /\ \A u \in DOMAIN clients : clients[u] \in DOMAIN streams
        /\ casts' = casts
    BY <1>10, <2>1 DEF Subscribe, StreamsTyped
  <2>3. /\ \A s \in DOMAIN streams : \A k : Wrote(s, k)' <=> Wrote(s, k)
        /\ \A k : ~Wrote(new, k)'
    BY <2>1 DEF Wrote
  <2>4. StreamsOwned'
    BY <2>1, <2>2 DEF WrittenInv, StreamsOwned
  <2>5. ClientsOpen'
    <3> SUFFICES ASSUME NEW u \in DOMAIN clients' PROVE (~Wrote(clients[u], CloseMsg))'
      BY DEF ClientsOpen
    <3> QED
      BY <2>2, <2>3 DEF WrittenInv, ClientsOpen
  <2>6. OnlyCast'
    BY <2>1, <2>2, <2>3 DEF WrittenInv, OnlyCast
  <2>7. StillToCome'
    <3> SUFFICES ASSUME NEW k \in DOMAIN casts', casts'[k].pc = "send",
                        NEW u \in casts'[k].todo \cap DOMAIN clients'
                 PROVE  (~Wrote(clients[u], k))'
      BY DEF StillToCome
    <3> QED
      BY <2>2, <2>3 DEF WrittenInv, StillToCome
  <2>8. AtMostOnce' /\ NothingAfterClose'
    BY <2>1 DEF WrittenInv, AtMostOnce, NothingAfterClose
  <2> QED
    BY <2>4, <2>5, <2>6, <2>7, <2>8 DEF WrittenInv
<1>11. CASE UNCHANGED <<casts, clients, streams>>
  BY <1>1, <1>2, <1>11
<1> QED
  BY <1>3, <1>4, <1>5, <1>6, <1>7, <1>8, <1>9, <1>10, <1>11, SendKeepsWrittenInv
  DEF Next, CoreSends, CoreDrops, Receive, ReceiverEnds, Store, Wake, SenderWakes,
      Broadcast, BroadcastStalls, UnsubscribeStalls, UnsubscribeAllStalls, clientVars, vars

\* WrittenInv is an invariant.
LEMMA WrittenAlways == Spec => []WrittenInv
<1>1. Init => WrittenInv
  BY DEF Init, WrittenInv, StreamsOwned, ClientsOpen, OnlyCast, StillToCome, AtMostOnce, NothingAfterClose
<1>2. TypeOK /\ BufferIsLatestRegister /\ WrittenInv /\ [Next]_vars => WrittenInv'
  BY WrittenStep, TypeParts
<1> QED
  BY <1>1, <1>2, TypesOfTheNotifier, BufferRegister, PTL DEF Spec

(***************************************************************************)
(* No stream gets a message twice, for any number of broadcasts under way  *)
(* and of clients that fail and come back between them.                    *)
(***************************************************************************)
THEOREM NoStreamIsToldTwice == Spec => []AtMostOnce
<1>1. WrittenInv => AtMostOnce
  BY DEF WrittenInv
<1> QED
  BY <1>1, WrittenAlways, PTL

(***************************************************************************)
(* No stream gets anything after its Close: the three places that write    *)
(* one forget the client in the same step, and a broadcast that has listed *)
(* it looks again.                                                         *)
(***************************************************************************)
THEOREM CloseIsLast == Spec => []NothingAfterClose
<1>1. WrittenInv => NothingAfterClose
  BY DEF WrittenInv
<1> QED
  BY <1>1, WrittenAlways, PTL
=============================================================================
