---------------------------- MODULE ServerProofs ----------------------------
(***************************************************************************)
(* That the server's queues, handlers, streams and Notifiers stay in step  *)
(* with each other and with the core, for any number of keys, clients,     *)
(* connections and requests, and every fault.                              *)
(***************************************************************************)
EXTENDS Server, TLAPS

\* A value with the fields of a connection, and one with those of a Notifier.
IsConnection(c) ==
  c \in [req : {c.req}, pc : {c.pc}, answer : {c.answer}, peer : {c.peer},
         mayStall : {c.mayStall}, since : {c.since}, told : {c.told}]

IsNotifier(e) ==
  e \in [slot : {e.slot}, chan : {e.chan}, taken : {e.taken}, casts : {e.casts},
         clients : {e.clients}, failed : {e.failed}, held : {e.held}]

ConnsOK ==
  /\ \E S : conns \in Seq(S)
  /\ \A h \in Handlers :
       /\ IsConnection(conns[h])
       /\ conns[h].req \in Requests
       /\ conns[h].pc \in {"queued", "replied", "answered", "streaming", "closed"}
       /\ conns[h].peer \in {"reads", "stalls", "gone"}

EntriesOK == Subscribed \subseteq Keys /\ \A k \in Subscribed : IsNotifier(entries[k])

(***************************************************************************)
(* A request is in one place: the queue of its kind, once, or with the     *)
(* loop.  Nothing is queued for a loop that has ended.                     *)
(***************************************************************************)
Waits(h, op) == conns[h].pc = "queued" /\ conns[h].req.op = op

QueuesOK ==
  /\ queues \in [Ops -> Seq(Handlers)]
  /\ \A op \in Ops :
       /\ \A i \in 1..Len(queues[op]) : Waits(queues[op][i], op)
       /\ \A i, j \in 1..Len(queues[op]) : queues[op][i] = queues[op][j] => i = j
  /\ loop.pc = "ended" => \A op \in Ops : queues[op] = <<>>

LoopOK ==
  /\ loop \in [pc : {"select", "join", "ended"}, conn : Handlers \cup {0}]
  /\ loop.pc = "join" =>
       /\ loop.conn \in Handlers /\ Waits(loop.conn, "subscribe")
       /\ conns[loop.conn].req.key \in Subscribed
       /\ \A i \in 1..Len(queues["subscribe"]) : queues["subscribe"][i] # loop.conn

\* A client of a Notifier is a stream of its key and of that uuid.
ClientsStream ==
  \A k \in Subscribed : \A u \in DOMAIN entries[k].clients :
    LET h == entries[k].clients[u]
    IN h \in Handlers /\ conns[h].pc = "streaming" /\ conns[h].req.key = k /\ conns[h].req.uuid = u

Inv == ConnsOK /\ EntriesOK /\ QueuesOK /\ LoopOK /\ ClientsStream /\ StreamsAreServed

-----------------------------------------------------------------------------
(* What a step may do to the connections, the map and the queues. *)

\* The connections after a step that adds none: their requests stay.
Rewritten ==
  /\ conns' = [h \in Handlers |-> conns'[h]]
  /\ \A h \in Handlers :
       /\ IsConnection(conns'[h])
       /\ conns'[h].req = conns[h].req
       /\ conns'[h].pc \in {"queued", "replied", "answered", "streaming", "closed"}
       /\ conns'[h].peer \in {"reads", "stalls", "gone"}

\* The handlers are the numbers from 1.
LEMMA HandlersAreNumbered ==
  ASSUME ConnsOK
  PROVE  Len(conns) \in Nat /\ Handlers = 1..Len(conns) /\ 0 \notin Handlers
BY DEF ConnsOK, Handlers

\* Connections that are rewritten are connections.
LEMMA RewrittenConns ==
  ASSUME ConnsOK, Rewritten
  PROVE  ConnsOK' /\ Handlers' = Handlers
<1>1. Handlers' = Handlers
  BY DEF Rewritten, Handlers
<1>2. Len(conns) \in Nat /\ Handlers = 1..Len(conns)
  BY HandlersAreNumbered
<1>3. conns' \in [1..Len(conns) -> {conns'[h] : h \in Handlers}]
  BY <1>2 DEF Rewritten
<1>4. conns' \in Seq({conns'[h] : h \in Handlers})
  BY <1>2, <1>3
<1>5. (\E S : conns \in Seq(S))'
  BY <1>4
<1> QED
  BY <1>1, <1>5 DEF ConnsOK, Rewritten

\* One connection changes, and its request does not.
LEMMA OneRewritten ==
  ASSUME ConnsOK, NEW h \in Handlers, NEW c, IsConnection(c), c.req = conns[h].req,
         c.pc \in {"queued", "replied", "answered", "streaming", "closed"},
         c.peer \in {"reads", "stalls", "gone"},
         conns' = [conns EXCEPT ![h] = c]
  PROVE  Rewritten /\ \A g \in Handlers : conns'[g] = IF g = h THEN c ELSE conns[g]
BY DEF ConnsOK, Rewritten, Handlers

\* A dropped connection is a closed one with the request and the answer it had.
LEMMA DroppedConnection ==
  ASSUME NEW c
  PROVE  /\ IsConnection(Dropped(c)) /\ Dropped(c).req = c.req /\ Dropped(c).answer = c.answer
         /\ Dropped(c).pc = "closed" /\ Dropped(c).peer = "reads"
BY DEF Dropped, Connection, IsConnection

\* One more connection arrives.
LEMMA OneMore ==
  ASSUME ConnsOK, NEW req \in Requests, NEW pc \in {"queued", "answered", "closed"}, NEW ok,
         conns' = Append(conns, Connection(req, pc, ok))
  PROVE  /\ ConnsOK' /\ Handlers' = Handlers \cup {Len(conns) + 1} /\ Len(conns) + 1 \notin Handlers
         /\ \A h \in Handlers : conns'[h] = conns[h]
         /\ conns'[Len(conns) + 1] = Connection(req, pc, ok)
<1> DEFINE c == Connection(req, pc, ok)
<1>1. PICK S : conns \in Seq(S)
  BY DEF ConnsOK
<1>2. conns' \in Seq(S \cup {c})
  BY <1>1
<1>3. Len(conns') = Len(conns) + 1 /\ Len(conns) \in Nat
  BY <1>1
<1>4. Handlers' = 1..Len(conns') /\ Handlers = 1..Len(conns)
  BY <1>1, <1>2 DEF Handlers
<1>5. Handlers' = Handlers \cup {Len(conns) + 1} /\ Len(conns) + 1 \notin Handlers
  BY <1>3, <1>4
<1>6. /\ \A h \in Handlers : conns'[h] = conns[h]
      /\ conns'[Len(conns) + 1] = c
  BY <1>1, <1>4
<1>7. IsConnection(c) /\ c.req = req /\ c.pc = pc /\ c.peer = "reads"
  BY DEF Connection, IsConnection
<1>8. (\E T : conns \in Seq(T))'
  BY <1>2
<1>9. ASSUME NEW h \in Handlers'
      PROVE  /\ IsConnection(conns'[h]) /\ conns'[h].req \in Requests
             /\ conns'[h].pc \in {"queued", "replied", "answered", "streaming", "closed"}
             /\ conns'[h].peer \in {"reads", "stalls", "gone"}
  <2>1. CASE h \in Handlers
    BY <1>6, <2>1 DEF ConnsOK
  <2>2. CASE h = Len(conns) + 1
    BY <1>6, <1>7, <2>2
  <2> QED
    BY <1>5, <2>1, <2>2
<1> QED
  BY <1>5, <1>6, <1>8, <1>9 DEF ConnsOK

\* One Notifier changes.
LEMMA OneEntry ==
  ASSUME EntriesOK, NEW k \in Subscribed, NEW e, IsNotifier(e), entries' = [entries EXCEPT ![k] = e]
  PROVE  /\ EntriesOK' /\ Subscribed' = Subscribed
         /\ \A j \in Subscribed : entries'[j] = IF j = k THEN e ELSE entries[j]
BY DEF EntriesOK, Subscribed

\* The Notifiers that are sent a message, and the others, keep all else.
LEMMA InformedEntries ==
  ASSUME EntriesOK, NEW C, NEW msg, NEW n, entries' = Informed(C, msg, n)
  PROVE  /\ EntriesOK' /\ Subscribed' = Subscribed
         /\ \A k \in Subscribed :
              /\ entries'[k].slot = IF entries[k].slot \in Slots(n) THEN entries[k].slot ELSE NoSlot
              /\ entries'[k].chan = IF entries[k].slot \in C THEN Append(entries[k].chan, msg)
                                                             ELSE entries[k].chan
              /\ entries'[k].taken = entries[k].taken /\ entries'[k].casts = entries[k].casts
              /\ entries'[k].clients = entries[k].clients /\ entries'[k].held = entries[k].held
<1>1. Subscribed' = Subscribed
  BY DEF Informed, Subscribed
<1>2. ASSUME NEW k \in Subscribed
      PROVE  entries'[k] =
               [slot |-> IF entries[k].slot \in Slots(n) THEN entries[k].slot ELSE NoSlot,
                chan |-> IF entries[k].slot \in C THEN Append(entries[k].chan, msg)
                                                  ELSE entries[k].chan,
                taken |-> entries[k].taken, casts |-> entries[k].casts,
                clients |-> entries[k].clients, failed |-> entries[k].failed,
                held |-> entries[k].held]
  <2>1. entries'[k] = [entries[k] EXCEPT
          !.chan = IF entries[k].slot \in C THEN Append(entries[k].chan, msg) ELSE entries[k].chan,
          !.slot = IF entries[k].slot \in Slots(n) THEN entries[k].slot ELSE NoSlot]
    BY <1>2 DEF Informed, Subscribed, EntriesOK, IsNotifier
  <2> QED
    BY <1>2, <2>1 DEF EntriesOK, IsNotifier
<1>3. ASSUME NEW k \in Subscribed
      PROVE  /\ IsNotifier(entries'[k])
             /\ entries'[k].slot = IF entries[k].slot \in Slots(n) THEN entries[k].slot ELSE NoSlot
             /\ entries'[k].chan = IF entries[k].slot \in C THEN Append(entries[k].chan, msg)
                                                            ELSE entries[k].chan
             /\ entries'[k].taken = entries[k].taken /\ entries'[k].casts = entries[k].casts
             /\ entries'[k].clients = entries[k].clients /\ entries'[k].held = entries[k].held
  <2> DEFINE slot == IF entries[k].slot \in Slots(n) THEN entries[k].slot ELSE NoSlot
             chan == IF entries[k].slot \in C THEN Append(entries[k].chan, msg) ELSE entries[k].chan
  <2>1. entries'[k] = [slot |-> slot, chan |-> chan, taken |-> entries[k].taken,
                       casts |-> entries[k].casts, clients |-> entries[k].clients,
                       failed |-> entries[k].failed, held |-> entries[k].held]
    BY <1>2, <1>3
  <2> HIDE DEF slot, chan
  <2>2. /\ IsNotifier(entries'[k])
        /\ entries'[k].slot = slot /\ entries'[k].chan = chan
        /\ entries'[k].taken = entries[k].taken /\ entries'[k].casts = entries[k].casts
        /\ entries'[k].clients = entries[k].clients /\ entries'[k].held = entries[k].held
    BY <2>1 DEF IsNotifier
  <2> QED
    BY <2>2 DEF slot, chan
<1>4. EntriesOK'
  BY <1>1, <1>3 DEF EntriesOK
<1> QED
  BY <1>1, <1>3, <1>4

(***************************************************************************)
(* A queue that keeps its requests, or gives up the first of them, is      *)
(* still in order when those left in it still wait.                        *)
(***************************************************************************)
LEMMA TakenFromQueue ==
  ASSUME Inv, NEW op \in Ops, NEW h, Takes(op, h), Handlers' = Handlers
  PROVE  /\ h \in Handlers /\ Waits(h, op) /\ loop.pc = "select"
         /\ queues' \in [Ops -> Seq(Handlers')]
         /\ \A o \in Ops :
              /\ \A i \in 1..Len(queues'[o]) : queues'[o][i] # h /\ Waits(queues'[o][i], o)
              /\ \A i, j \in 1..Len(queues'[o]) : queues'[o][i] = queues'[o][j] => i = j
<1> DEFINE q == queues[op]
<1>1. q \in Seq(Handlers) /\ q # <<>> /\ h = q[1] /\ Len(q) \in Nat \ {0} /\ loop.pc = "select"
  BY DEF Inv, QueuesOK, Takes
<1>2. h \in Handlers /\ Waits(h, op)
  BY <1>1 DEF Inv, QueuesOK
<1>3. \A o \in Ops : queues'[o] = IF o = op THEN Tail(q) ELSE queues[o]
  BY DEF Takes, Inv, QueuesOK
<1>4. /\ Tail(q) \in Seq(Handlers) /\ Len(Tail(q)) = Len(q) - 1
      /\ \A i \in 1..Len(Tail(q)) : Tail(q)[i] = q[i + 1]
  BY <1>1
<1>5. queues' \in [Ops -> Seq(Handlers')]
  BY <1>4 DEF Takes, Inv, QueuesOK
<1>6. ASSUME NEW i \in 1..Len(Tail(q)) PROVE i + 1 \in 1..Len(q) /\ i + 1 # 1 /\ 1 \in 1..Len(q)
  BY <1>1, <1>4
<1>7. /\ \A i \in 1..Len(Tail(q)) : Tail(q)[i] # h /\ Waits(Tail(q)[i], op)
      /\ \A i, j \in 1..Len(Tail(q)) : Tail(q)[i] = Tail(q)[j] => i = j
  <2> HIDE DEF q
  <2>1. /\ \A i \in 1..Len(q) : Waits(q[i], op)
        /\ \A i, j \in 1..Len(q) : q[i] = q[j] => i = j
    BY DEF Inv, QueuesOK, q
  <2>2. ASSUME NEW i \in 1..Len(Tail(q)) PROVE Tail(q)[i] # h /\ Waits(Tail(q)[i], op)
    BY <1>1, <1>4, <1>6, <2>1, <2>2
  <2>3. ASSUME NEW i \in 1..Len(Tail(q)), NEW j \in 1..Len(Tail(q)), Tail(q)[i] = Tail(q)[j]
        PROVE  i = j
    <3>1. q[i + 1] = q[j + 1] /\ i + 1 \in 1..Len(q) /\ j + 1 \in 1..Len(q)
      BY <1>4, <1>6, <2>3
    <3>2. i + 1 = j + 1
      BY <2>1, <3>1
    <3> QED
      BY <3>2
  <2> QED
    BY <2>2, <2>3
<1>8. ASSUME NEW o \in Ops, o # op, NEW i \in 1..Len(queues[o])
      PROVE  queues[o][i] # h /\ Waits(queues[o][i], o)
  BY <1>2, <1>8 DEF Inv, QueuesOK, Waits
<1>9. \A o \in Ops : \A i, j \in 1..Len(queues[o]) : queues[o][i] = queues[o][j] => i = j
  BY DEF Inv, QueuesOK
<1>10. ASSUME NEW o \in Ops
       PROVE  /\ \A i \in 1..Len(queues'[o]) : queues'[o][i] # h /\ Waits(queues'[o][i], o)
              /\ \A i, j \in 1..Len(queues'[o]) : queues'[o][i] = queues'[o][j] => i = j
  <2>1. CASE o = op
    BY <1>3, <1>7, <2>1
  <2>2. CASE o # op
    BY <1>3, <1>8, <1>9, <2>2
  <2> QED
    BY <2>1, <2>2
<1> QED
  BY <1>1, <1>2, <1>5, <1>10

\* Taking the first request of a queue leaves every other request in its one place.
LEMMA QueueTaken ==
  ASSUME Inv, NEW op \in Ops, NEW h, Takes(op, h), Handlers' = Handlers, loop'.pc # "ended",
         \A g \in Handlers \ {h} : conns'[g] = conns[g]
  PROVE  QueuesOK'
<1>1. ASSUME NEW o \in Ops, NEW i \in 1..Len(queues'[o])
      PROVE  conns'[queues'[o][i]].pc = "queued" /\ conns'[queues'[o][i]].req.op = o
  <2> DEFINE g == queues'[o][i]
  <2>1. g \in Handlers /\ g # h /\ Waits(g, o)
    BY TakenFromQueue
  <2> HIDE DEF g
  <2>2. conns'[g].pc = "queued" /\ conns'[g].req.op = o
    BY <2>1 DEF Waits
  <2> QED
    BY <2>2 DEF g
<1>2. \A o \in Ops : \A i \in 1..Len(queues'[o]) : Waits(queues[o][i], o)'
  BY <1>1 DEF Waits
<1>3. \A o \in Ops : \A i, j \in 1..Len(queues'[o]) : queues'[o][i] = queues'[o][j] => i = j
  BY TakenFromQueue
<1>4. queues' \in [Ops -> Seq(Handlers')]
  BY TakenFromQueue
<1> QED
  BY <1>2, <1>3, <1>4 DEF QueuesOK

\* Queues that nobody touches stay in order while the requests in them wait.
LEMMA QueuesKept ==
  ASSUME Inv, queues' = queues, Handlers \subseteq Handlers', loop'.pc = loop.pc \/ loop'.pc # "ended",
         \A o \in Ops : \A i \in 1..Len(queues[o]) : Waits(queues[o][i], o)'
  PROVE  QueuesOK'
<1>1. queues' \in [Ops -> Seq(Handlers')]
  <2>1. \A o \in Ops : queues[o] \in Seq(Handlers')
    <3> SUFFICES ASSUME NEW o \in Ops PROVE queues[o] \in Seq(Handlers')
      OBVIOUS
    <3>1. queues[o] \in Seq(Handlers)
      BY DEF Inv, QueuesOK
    <3> QED
      BY <3>1
  <2> QED
    BY <2>1 DEF Inv, QueuesOK
<1> QED
  BY <1>1 DEF Inv, QueuesOK

(***************************************************************************)
(* The streams stay with the Notifiers when no stream opens or closes and  *)
(* no Notifier takes or loses a client.                                    *)
(***************************************************************************)
LEMMA StreamsKept ==
  ASSUME Inv, Handlers \subseteq Handlers', Subscribed \subseteq Subscribed',
         \A h \in Handlers : conns'[h].req = conns[h].req /\
                             (conns'[h].pc = "streaming" <=> conns[h].pc = "streaming"),
         \A h \in Handlers' \ Handlers : conns'[h].pc # "streaming",
         \A k \in Subscribed : entries'[k].clients = entries[k].clients,
         \A k \in Subscribed' \ Subscribed : DOMAIN entries'[k].clients = {}
  PROVE  ClientsStream' /\ StreamsAreServed'
<1>1. ClientsStream'
  BY DEF Inv, ClientsStream
<1>2. StreamsAreServed'
  BY DEF Inv, StreamsAreServed
<1> QED
  BY <1>1, <1>2

-----------------------------------------------------------------------------
(* Each kind of step keeps Inv. *)

\* A request arrives, whatever its kind and its reception.
LEMMA RequestKeepsInv ==
  ASSUME Inv, NEW req \in Requests, HandleRequest(req)
  PROVE  Inv'
<1> DEFINE h == Len(conns) + 1
<1>0. loop' = loop /\ entries' = entries
  BY DEF HandleRequest, HandleQueued, HandleRefused, HandleDirectly, HandleMalformed
<1>1. PICK pc \in {"queued", "answered", "closed"}, ok \in BOOLEAN :
        /\ conns' = Append(conns, Connection(req, pc, ok))
        /\ \/ queues' = queues
           \/ /\ pc = "queued" /\ req.op \in Ops /\ loop.pc # "ended"
              /\ queues' = [queues EXCEPT ![req.op] = Append(@, h)]
  BY DEF HandleRequest, HandleQueued, HandleRefused, HandleDirectly, HandleMalformed, Arrived
<1>2. /\ ConnsOK' /\ Handlers' = Handlers \cup {h} /\ h \notin Handlers
      /\ \A g \in Handlers : conns'[g] = conns[g]
      /\ conns'[h] = Connection(req, pc, ok)
  BY <1>1, OneMore DEF Inv
<1> HIDE DEF h
<1>3. conns'[h].pc = pc /\ conns'[h].req = req /\ conns'[h].pc # "streaming"
  BY <1>2 DEF Connection
<1>4. EntriesOK'
  BY <1>0 DEF Inv, EntriesOK, Subscribed
<1>5. ClientsStream' /\ StreamsAreServed'
  <2>1. Subscribed' = Subscribed
    BY <1>0 DEF Subscribed
  <2> QED
    BY <1>0, <1>2, <1>3, <2>1, StreamsKept
<1>6. \A o \in Ops : \A i \in 1..Len(queues[o]) :
        /\ queues[o][i] \in Handlers /\ queues[o][i] # h
        /\ Waits(queues[o][i], o)
        /\ conns'[queues[o][i]].pc = "queued" /\ conns'[queues[o][i]].req.op = o
  BY <1>2 DEF Inv, QueuesOK, Waits
<1>7. QueuesOK'
  <2>1. CASE queues' = queues
    <3>1. \A o \in Ops : \A i \in 1..Len(queues[o]) : Waits(queues[o][i], o)'
      BY <1>6, <2>1 DEF Waits
    <3> QED
      BY <1>0, <1>2, <2>1, <3>1, QueuesKept
  <2>2. CASE pc = "queued" /\ req.op \in Ops /\ loop.pc # "ended"
             /\ queues' = [queues EXCEPT ![req.op] = Append(@, h)]
    <3> DEFINE q == queues[req.op]
    <3>1. q \in Seq(Handlers) /\ h \in Handlers' /\ Len(q) \in Nat
      BY <1>2, <2>2 DEF Inv, QueuesOK
    <3>2. \A o \in Ops : queues[o] \in Seq(Handlers')
      <4> SUFFICES ASSUME NEW o \in Ops PROVE queues[o] \in Seq(Handlers')
        OBVIOUS
      <4>1. queues[o] \in Seq(Handlers) /\ Handlers \subseteq Handlers'
        BY <1>2 DEF Inv, QueuesOK
      <4> QED
        BY <4>1
    <3>3. Append(q, h) \in Seq(Handlers') /\ Len(Append(q, h)) = Len(q) + 1
          /\ Append(q, h)[Len(q) + 1] = h /\ \A i \in 1..Len(q) : Append(q, h)[i] = q[i]
      BY <2>2, <3>1, <3>2
    <3>4. queues' \in [Ops -> Seq(Handlers')]
      BY <2>2, <3>2, <3>3 DEF Inv, QueuesOK
    <3>5. \A o \in Ops : queues'[o] = IF o = req.op THEN Append(q, h) ELSE queues[o]
      BY <2>2 DEF Inv, QueuesOK
    <3>6. /\ \A i \in 1..Len(q) : q[i] # h
          /\ \A i, j \in 1..Len(q) : q[i] = q[j] => i = j
      BY <1>6, <2>2 DEF Inv, QueuesOK
    <3>7. /\ \A i \in 1..Len(q) + 1 :
               conns'[Append(q, h)[i]].pc = "queued" /\ conns'[Append(q, h)[i]].req.op = req.op
          /\ \A i, j \in 1..Len(q) + 1 : Append(q, h)[i] = Append(q, h)[j] => i = j
      <4>1. \A i \in 1..Len(q) : conns'[q[i]].pc = "queued" /\ conns'[q[i]].req.op = req.op
        BY <1>6, <2>2
      <4>2. \A i \in 1..Len(q) + 1 : i \in 1..Len(q) \/ i = Len(q) + 1
        BY <3>1
      <4> HIDE DEF q
      <4> QED
        BY <1>3, <2>2, <3>3, <3>6, <4>1, <4>2
    <3>8. ASSUME NEW o \in Ops
          PROVE  /\ \A i \in 1..Len(queues'[o]) :
                      conns'[queues'[o][i]].pc = "queued" /\ conns'[queues'[o][i]].req.op = o
                 /\ \A i, j \in 1..Len(queues'[o]) : queues'[o][i] = queues'[o][j] => i = j
      <4>1. CASE o = req.op
        BY <3>3, <3>5, <3>7, <4>1
      <4>2. CASE o # req.op
        <5>1. queues'[o] = queues[o]
          BY <3>5, <4>2
        <5>2. \A i, j \in 1..Len(queues[o]) : queues[o][i] = queues[o][j] => i = j
          BY DEF Inv, QueuesOK
        <5> QED
          BY <1>6, <5>1, <5>2
      <4> QED
        BY <4>1, <4>2
    <3> QED
      BY <1>0, <2>2, <3>4, <3>8 DEF QueuesOK, Waits
  <2> QED
    BY <1>1, <2>1, <2>2
<1>8. LoopOK'
  <2>1. loop \in [pc : {"select", "join", "ended"}, conn : Handlers \cup {0}]
    BY DEF Inv, LoopOK
  <2>2. loop' \in [pc : {"select", "join", "ended"}, conn : Handlers' \cup {0}]
    BY <1>0, <1>2, <2>1
  <2>3. ASSUME loop.pc = "join"
        PROVE  /\ loop.conn \in Handlers /\ Waits(loop.conn, "subscribe")
               /\ conns[loop.conn].req.key \in Subscribed
               /\ \A i \in 1..Len(queues["subscribe"]) : queues["subscribe"][i] # loop.conn
               /\ conns'[loop.conn] = conns[loop.conn]
    BY <1>2, <2>3 DEF Inv, LoopOK
  <2>4. ASSUME loop.pc = "join", NEW i \in 1..Len(queues'["subscribe"])
        PROVE  queues'["subscribe"][i] # loop.conn
    <3> DEFINE q == queues["subscribe"]
    <3>1. q \in Seq(Handlers) /\ h # loop.conn /\ \A j \in 1..Len(q) : q[j] # loop.conn
      BY <1>2, <2>3, <2>4 DEF Inv, QueuesOK, Ops
    <3>2. queues'["subscribe"] = q \/ queues'["subscribe"] = Append(q, h)
      BY <1>1 DEF Inv, QueuesOK, Ops, h
    <3>3. \A j \in 1..Len(Append(q, h)) : Append(q, h)[j] # loop.conn
      BY <3>1
    <3> QED
      BY <3>1, <3>2, <3>3
  <2>5. loop.pc = "join" => /\ loop.conn \in Handlers'
                            /\ conns'[loop.conn].pc = "queued" /\ conns'[loop.conn].req.op = "subscribe"
                            /\ conns'[loop.conn].req.key \in Subscribed
    BY <1>2, <2>3 DEF Waits
  <2> QED
    BY <1>0, <2>2, <2>4, <2>5 DEF LoopOK, Waits, Subscribed
<1> QED
  BY <1>2, <1>4, <1>5, <1>7, <1>8 DEF Inv

\* The loop answers a request, whatever it has done to the map for it.
LEMMA AnswerKeepsInv ==
  ASSUME Inv, NEW op \in Ops, NEW h, Takes(op, h), NEW ok, NEW data, Answers(h, ok, data), loop' = loop,
         EntriesOK', Subscribed' = Subscribed,
         \A k \in Subscribed : entries'[k].clients = entries[k].clients
  PROVE  Inv'
<1> DEFINE answer == [ok |-> ok, data |-> data]
           c == [conns[h] EXCEPT !.pc = "replied", !.answer = answer]
<1>1. h \in Handlers /\ Waits(h, op) /\ loop.pc = "select"
  <2>1. queues[op] \in Seq(Handlers) /\ queues[op] # <<>> /\ h = Head(queues[op])
    BY DEF Takes, Inv, QueuesOK
  <2>2. h = queues[op][1] /\ 1 \in 1..Len(queues[op])
    BY <2>1
  <2> QED
    BY <2>1, <2>2 DEF Takes, Inv, QueuesOK
<1>2. IsConnection(c) /\ c.req = conns[h].req /\ c.pc = "replied" /\ c.peer = conns[h].peer
  <2> DEFINE old == conns[h]
  <2>1. IsConnection(old)
    BY <1>1 DEF Inv, ConnsOK
  <2> HIDE DEF answer
  <2>2. c = [old EXCEPT !.pc = "replied", !.answer = answer]
    OBVIOUS
  <2> HIDE DEF old, c
  <2>3. IsConnection(c) /\ c.req = old.req /\ c.pc = "replied" /\ c.peer = old.peer
    BY <2>1, <2>2 DEF IsConnection
  <2> QED
    BY <2>3 DEF old
<1>3. conns' = [conns EXCEPT ![h] = c]
  BY DEF Answers
<1> HIDE DEF c
<1>4. Rewritten /\ \A g \in Handlers : conns'[g] = IF g = h THEN c ELSE conns[g]
  BY <1>1, <1>2, <1>3, OneRewritten DEF Inv, ConnsOK
<1>5. ConnsOK' /\ Handlers' = Handlers
  BY <1>4, RewrittenConns DEF Inv
<1>6. QueuesOK'
  BY <1>1, <1>4, <1>5, QueueTaken
<1>7. LoopOK'
  BY <1>1, <1>5 DEF Inv, LoopOK
<1>8. ClientsStream' /\ StreamsAreServed'
  BY <1>1, <1>2, <1>4, <1>5, StreamsKept DEF Waits
<1> QED
  BY <1>5, <1>6, <1>7, <1>8 DEF Inv

\* The loop takes a subscription whose key has a Notifier now.
LEMMA FindKeepsInv ==
  ASSUME Inv, NEW h, Takes("subscribe", h), conns' = conns, loop' = [pc |-> "join", conn |-> h],
         EntriesOK', Subscribed \subseteq Subscribed', conns[h].req.key \in Subscribed',
         \A k \in Subscribed : entries'[k].clients = entries[k].clients,
         \A k \in Subscribed' \ Subscribed : DOMAIN entries'[k].clients = {}
  PROVE  Inv'
<1>0. "subscribe" \in Ops
  BY DEF Ops
<1>1. ConnsOK' /\ Handlers' = Handlers
  BY DEF Inv, ConnsOK, Handlers
<1>2. h \in Handlers /\ Waits(h, "subscribe")
      /\ \A i \in 1..Len(queues'["subscribe"]) : queues'["subscribe"][i] # h
  BY <1>0, <1>1, TakenFromQueue
<1>3. QueuesOK'
  BY <1>0, <1>1, QueueTaken
<1>4. LoopOK'
  BY <1>1, <1>2 DEF LoopOK, Waits
<1>5. ClientsStream' /\ StreamsAreServed'
  BY <1>1, StreamsKept
<1> QED
  BY <1>1, <1>3, <1>4, <1>5 DEF Inv

\* A step of the loop that serves a request.
LEMMA ServingKeepsInv ==
  ASSUME Inv, NEW h, LoopServes(h)
  PROVE  Inv'
<1>0. Ops = {"put", "get", "delete", "subscribe", "unsubscribe", "trace"}
  BY DEF Ops
<1>1. CASE LoopPut(h) \/ LoopDelete(h) \/ LoopUnsubscribe(h)
  <2>1. PICK op \in Ops : \E ok, data : Takes(op, h) /\ Answers(h, ok, data) /\ loop' = loop
    BY <1>0, <1>1 DEF LoopPut, LoopDelete, LoopUnsubscribe
  <2>2. entries' = entries \/ \E C, msg, n : entries' = Informed(C, msg, n)
    <3>1. CASE LoopPut(h)
      BY <3>1 DEF LoopPut
    <3>2. CASE LoopDelete(h)
      BY <3>2 DEF LoopDelete
    <3>3. CASE LoopUnsubscribe(h)
      BY <3>3 DEF LoopUnsubscribe
    <3> QED
      BY <1>1, <3>1, <3>2, <3>3
  <2>3. EntriesOK' /\ Subscribed' = Subscribed
        /\ \A k \in Subscribed : entries'[k].clients = entries[k].clients
    <3>1. CASE entries' = entries
      BY <3>1 DEF Inv, EntriesOK, Subscribed
    <3>2. CASE \E C, msg, n : entries' = Informed(C, msg, n)
      BY <3>2, InformedEntries DEF Inv
    <3> QED
      BY <2>2, <3>1, <3>2
  <2> QED
    BY <2>1, <2>3, AnswerKeepsInv
<1>2. CASE LoopGet(h) \/ LoopTrace(h)
  <2>1. PICK op \in Ops : \E ok, data : Takes(op, h) /\ Answers(h, ok, data) /\ loop' = loop
    BY <1>0, <1>2 DEF LoopGet, LoopTrace
  <2>2. entries' = entries
    BY <1>2 DEF LoopGet, LoopTrace
  <2>3. EntriesOK' /\ Subscribed' = Subscribed
    BY <2>2 DEF Inv, EntriesOK, Subscribed
  <2> QED
    BY <2>1, <2>2, <2>3, AnswerKeepsInv
<1>3. CASE LoopFindsNotifier(h)
  <2>1. entries' = entries
    BY <1>3 DEF LoopFindsNotifier
  <2>2. EntriesOK' /\ Subscribed' = Subscribed
    BY <2>1 DEF Inv, EntriesOK, Subscribed
  <2> QED
    BY <1>3, <2>1, <2>2, FindKeepsInv DEF LoopFindsNotifier
<1>4. CASE LoopMakesNotifier(h)
  <2> DEFINE key == conns[h].req.key
  <2>1. Takes("subscribe", h) /\ key \notin Subscribed /\ conns' = conns
        /\ loop' = [pc |-> "join", conn |-> h]
    BY <1>4 DEF LoopMakesNotifier
  <2>2. PICK new, msgs : entries' = WithNotifier(key, new, msgs)
    BY <1>4 DEF LoopMakesNotifier
  <2>3. PICK slot : entries' = [k \in Subscribed \cup {key} |->
                                  IF k = key THEN Notifier(slot, msgs) ELSE entries[k]]
    BY <2>2 DEF WithNotifier
  <2>4. key \in Keys
    <3>1. Handlers' = Handlers /\ "subscribe" \in Ops
      BY <1>0, <2>1 DEF Handlers
    <3>2. h \in Handlers
      BY <2>1, <3>1, TakenFromQueue
    <3> QED
      BY <3>2, RequestsAssumption DEF Inv, ConnsOK
  <2> HIDE DEF key
  <2>5. Subscribed' = Subscribed \cup {key}
    BY <2>3 DEF Subscribed
  <2>6. IsNotifier(Notifier(slot, msgs)) /\ DOMAIN Notifier(slot, msgs).clients = {}
    BY DEF Notifier, IsNotifier
  <2>7. EntriesOK'
    BY <2>3, <2>4, <2>5, <2>6 DEF Inv, EntriesOK
  <2>8. \A k \in Subscribed : entries'[k].clients = entries[k].clients
    BY <2>1, <2>3
  <2>9. \A k \in Subscribed' \ Subscribed : DOMAIN entries'[k].clients = {}
    BY <2>3, <2>5, <2>6
  <2> QED
    BY <2>1, <2>5, <2>7, <2>8, <2>9, FindKeepsInv DEF key
<1>5. CASE LoopRefusesSubscription(h)
  <2>1. /\ Takes("subscribe", h) /\ conns' = [conns EXCEPT ![h] = Dropped(conns[h])]
        /\ loop' = loop /\ entries' = entries
    BY <1>5 DEF LoopRefusesSubscription
  <2>2. "subscribe" \in Ops /\ Handlers' = Handlers
    BY <1>0, <2>1 DEF Handlers
  <2>3. h \in Handlers /\ Waits(h, "subscribe") /\ loop.pc = "select"
    BY <2>1, <2>2, TakenFromQueue
  <2>4. Rewritten /\ \A g \in Handlers : conns'[g] = IF g = h THEN Dropped(conns[h]) ELSE conns[g]
    BY <2>1, <2>3, DroppedConnection, OneRewritten DEF Inv
  <2>5. ConnsOK'
    BY <2>4, RewrittenConns DEF Inv
  <2>6. QueuesOK'
    BY <2>1, <2>2, <2>3, <2>4, QueueTaken
  <2>7. LoopOK' /\ EntriesOK' /\ Subscribed' = Subscribed
    BY <2>1, <2>2, <2>3 DEF Inv, LoopOK, EntriesOK, Subscribed
  <2>8. ClientsStream' /\ StreamsAreServed'
    BY <2>1, <2>2, <2>3, <2>4, <2>7, DroppedConnection, StreamsKept DEF Waits
  <2> QED
    BY <2>5, <2>6, <2>7, <2>8 DEF Inv
<1> QED
  BY <1>1, <1>2, <1>3, <1>4, <1>5 DEF LoopServes

(***************************************************************************)
(* Steps that open and close no stream, move no request and change no list *)
(* of clients.                                                             *)
(***************************************************************************)
LEMMA RewrittenKeepsInv ==
  ASSUME Inv, Rewritten, UNCHANGED <<queues, loop>>, EntriesOK', Subscribed' = Subscribed,
         \A k \in Subscribed : entries'[k].clients = entries[k].clients,
         \A h \in Handlers : conns'[h].pc = "streaming" <=> conns[h].pc = "streaming",
         \A h \in Handlers : conns[h].pc = "queued" => conns'[h].pc = "queued" \/ loop.pc = "ended"
  PROVE  Inv'
<1>1. ConnsOK' /\ Handlers' = Handlers /\ \A h \in Handlers : conns'[h].req = conns[h].req
  BY RewrittenConns DEF Inv, Rewritten
<1>2. ASSUME NEW o \in Ops, NEW i \in 1..Len(queues[o]) PROVE Waits(queues[o][i], o)'
  <2> DEFINE g == queues[o][i]
  <2>1. g \in Handlers /\ Waits(g, o) /\ queues[o] # <<>>
    BY DEF Inv, QueuesOK
  <2>2. loop.pc # "ended"
    BY <2>1 DEF Inv, QueuesOK
  <2> HIDE DEF g
  <2>3. conns'[g].pc = "queued" /\ conns'[g].req.op = o
    BY <1>1, <2>1, <2>2 DEF Waits
  <2> QED
    BY <2>3 DEF g, Waits
<1>3. QueuesOK'
  BY <1>1, <1>2, QueuesKept
<1>4. LoopOK'
  <2>1. loop' \in [pc : {"select", "join", "ended"}, conn : Handlers' \cup {0}]
    BY <1>1 DEF Inv, LoopOK
  <2>2. loop.pc = "join" => conns'[loop.conn].pc = "queued" /\ conns'[loop.conn].req = conns[loop.conn].req
    BY <1>1 DEF Inv, LoopOK, Waits
  <2> QED
    BY <1>1, <2>1, <2>2 DEF Inv, LoopOK, Waits
<1>5. ClientsStream' /\ StreamsAreServed'
  BY <1>1, StreamsKept
<1> QED
  BY <1>1, <1>3, <1>4, <1>5 DEF Inv

\* The map stays as it is.
LEMMA EntriesUnchanged ==
  ASSUME EntriesOK, entries' = entries
  PROVE  EntriesOK' /\ Subscribed' = Subscribed
BY DEF EntriesOK, Subscribed

\* So do the connections.
LEMMA ConnsUnchanged ==
  ASSUME ConnsOK, conns' = conns
  PROVE  Rewritten
BY DEF ConnsOK, Rewritten, Handlers

\* A handler writes the response, or panics because nobody will answer.
LEMMA HandlerKeepsInv ==
  ASSUME Inv, NEW h \in Handlers, WriteResponse(h) \/ HandlerPanics(h)
  PROVE  Inv'
<1> DEFINE old == conns[h]
           written == [old EXCEPT !.pc = "answered"]
<1>0. IsConnection(old) /\ old.peer \in {"reads", "stalls", "gone"}
  BY DEF Inv, ConnsOK
<1>1. CASE WriteResponse(h)
  <2>1. conns' = [conns EXCEPT ![h] = written] /\ old.pc = "replied"
        /\ UNCHANGED <<queues, loop, entries>>
    BY <1>1 DEF WriteResponse
  <2> HIDE DEF old
  <2>2. IsConnection(written) /\ written.req = old.req /\ written.pc = "answered" /\ written.peer = old.peer
    BY <1>0 DEF IsConnection
  <2> HIDE DEF written
  <2>3. Rewritten /\ \A g \in Handlers : conns'[g] = IF g = h THEN written ELSE conns[g]
    BY <1>0, <2>1, <2>2, OneRewritten DEF Inv, old
  <2> QED
    BY <2>1, <2>2, <2>3, EntriesUnchanged, RewrittenKeepsInv DEF Inv, old
<1>2. CASE HandlerPanics(h)
  <2>1. conns' = [conns EXCEPT ![h] = Dropped(old)] /\ old.pc = "queued" /\ loop.pc = "ended"
        /\ UNCHANGED <<queues, loop, entries>>
    BY <1>2 DEF HandlerPanics
  <2>2. Rewritten /\ \A g \in Handlers : conns'[g] = IF g = h THEN Dropped(old) ELSE conns[g]
    BY <2>1, DroppedConnection, OneRewritten DEF Inv
  <2> QED
    BY <2>1, <2>2, DroppedConnection, EntriesUnchanged, RewrittenKeepsInv DEF Inv
<1> QED
  BY <1>1, <1>2

\* The peer of a stream stalls, reads again or goes.
LEMMA PeerKeepsInv ==
  ASSUME Inv, NEW h \in Handlers, NEW p \in {"reads", "stalls", "gone"}, PeerBecomes(h, p)
  PROVE  Inv'
<1> DEFINE old == conns[h]
           mayStall == old.mayStall /\ p # "stalls"
           new == [old EXCEPT !.peer = p, !.mayStall = mayStall]
<1>0. IsConnection(old)
  BY DEF Inv, ConnsOK
<1>1. conns' = [conns EXCEPT ![h] = new] /\ old.pc = "streaming" /\ UNCHANGED <<queues, loop, entries>>
  BY DEF PeerBecomes
<1> HIDE DEF old, mayStall
<1>2. IsConnection(new) /\ new.req = old.req /\ new.pc = old.pc /\ new.peer = p
  BY <1>0 DEF IsConnection
<1> HIDE DEF new
<1>3. Rewritten /\ \A g \in Handlers : conns'[g] = IF g = h THEN new ELSE conns[g]
  <2>1. /\ new.pc \in {"queued", "replied", "answered", "streaming", "closed"}
        /\ new.peer \in {"reads", "stalls", "gone"} /\ new.req = conns[h].req
    BY <1>1, <1>2 DEF old
  <2> QED
    BY <1>1, <1>2, <2>1, OneRewritten DEF Inv
<1> QED
  BY <1>1, <1>2, <1>3, EntriesUnchanged, RewrittenKeepsInv DEF Inv, old

\* A broadcast changes only what its clients were told.
LEMMA WrittenConns ==
  ASSUME ConnsOK, NEW e, NEW i, Written(e, i)
  PROVE  /\ Rewritten
         /\ \A h \in Handlers : /\ conns'[h].pc = conns[h].pc /\ conns'[h].peer = conns[h].peer
                                /\ conns'[h].answer = conns[h].answer
<1>1. ASSUME NEW h \in Handlers
      PROVE  /\ IsConnection(conns'[h]) /\ conns'[h].req = conns[h].req /\ conns'[h].pc = conns[h].pc
             /\ conns'[h].peer = conns[h].peer /\ conns'[h].answer = conns[h].answer
  <2> DEFINE c == conns[h]
             told == IF i > c.told THEN i ELSE c.told
  <2>1. IsConnection(c)
    BY DEF ConnsOK
  <2>2. conns'[h] = c \/ conns'[h] = [c EXCEPT !.told = told]
    BY DEF Written, Handlers
  <2> HIDE DEF c, told
  <2>3. conns'[h] = c \/ (/\ IsConnection(conns'[h]) /\ conns'[h].req = c.req /\ conns'[h].pc = c.pc
                          /\ conns'[h].peer = c.peer /\ conns'[h].answer = c.answer)
    BY <2>1, <2>2 DEF IsConnection
  <2> QED
    BY <2>1, <2>3 DEF c
<1>2. conns' = [h \in Handlers |-> conns'[h]]
  BY DEF Written, Handlers
<1>3. \A h \in Handlers : /\ conns[h].pc \in {"queued", "replied", "answered", "streaming", "closed"}
                          /\ conns[h].peer \in {"reads", "stalls", "gone"}
  BY DEF ConnsOK
<1> QED
  BY <1>1, <1>2, <1>3 DEF Rewritten

\* The broadcasts of a Notifier.
LEMMA CastKeepsInv ==
  ASSUME Inv, NEW k \in Subscribed, NEW i, CastStarts(k) \/ CastStalls(k, i) \/ CastWrites(k, i)
  PROVE  Inv'
<1> DEFINE e == entries[k]
<1>1. IsNotifier(e)
  BY DEF Inv, EntriesOK
<1>2. PICK new : /\ IsNotifier(new) /\ new.clients = e.clients
                 /\ entries' = [entries EXCEPT ![k] = new]
  <2>1. CASE CastStarts(k)
    <3>1. PICK j : entries' = [entries EXCEPT ![k].taken = j, ![k].casts = @ \cup {j}]
      BY <2>1 DEF CastStarts
    <3> DEFINE casts == e.casts \cup {j}
               new == [e EXCEPT !.taken = j, !.casts = casts]
    <3>2. entries' = [entries EXCEPT ![k] = new]
      BY <3>1
    <3> HIDE DEF e, casts
    <3>3. IsNotifier(new) /\ new.clients = e.clients
      BY <1>1 DEF IsNotifier
    <3> QED
      BY <3>2, <3>3 DEF e
  <2>2. CASE CastStalls(k, i)
    <3> DEFINE new == [e EXCEPT !.held = i]
    <3>1. entries' = [entries EXCEPT ![k] = new]
      BY <2>2 DEF CastStalls
    <3> HIDE DEF e
    <3>2. IsNotifier(new) /\ new.clients = e.clients
      BY <1>1 DEF IsNotifier
    <3> QED
      BY <3>1, <3>2 DEF e
  <2>3. CASE CastWrites(k, i)
    <3> DEFINE casts == e.casts \ {i}
               failed == e.failed \cup Peers(e, "gone")
               new == [e EXCEPT !.casts = casts, !.held = 0, !.failed = failed]
    <3>1. entries' = [entries EXCEPT ![k] = new]
      BY <2>3 DEF CastWrites
    <3> HIDE DEF e, casts, failed
    <3>2. IsNotifier(new) /\ new.clients = e.clients
      BY <1>1 DEF IsNotifier
    <3> QED
      BY <3>1, <3>2 DEF e
  <2> QED
    BY <2>1, <2>2, <2>3
<1>3. /\ EntriesOK' /\ Subscribed' = Subscribed
      /\ \A j \in Subscribed : entries'[j] = IF j = k THEN new ELSE entries[j]
  BY <1>2, OneEntry DEF Inv
<1>4. /\ Rewritten /\ \A h \in Handlers : conns'[h].pc = conns[h].pc
      /\ UNCHANGED <<queues, loop>>
  <2>1. CASE CastStarts(k) \/ CastStalls(k, i)
    BY <2>1, ConnsUnchanged DEF CastStarts, CastStalls, Inv
  <2>2. CASE CastWrites(k, i)
    BY <2>2, WrittenConns DEF CastWrites, Inv
  <2> QED
    BY <2>1, <2>2
<1> QED
  BY <1>2, <1>3, <1>4, RewrittenKeepsInv

(***************************************************************************)
(* The clean-up drops a stream and takes it off the list, or does neither. *)
(***************************************************************************)
LEMMA CleanUpKeepsInv ==
  ASSUME Inv, NEW k \in Subscribed, NEW u, CleanUp(k, u)
  PROVE  Inv'
<1> DEFINE e == entries[k]
           failed == e.failed \ {u}
           reads == u \in Peers(e, "reads")
           clients == IF reads THEN [w \in DOMAIN e.clients \ {u} |-> e.clients[w]] ELSE e.clients
           new == [e EXCEPT !.failed = failed, !.clients = clients]
           h == e.clients[u]
<1>1. IsNotifier(e)
  BY DEF Inv, EntriesOK
<1>2. /\ entries' = [entries EXCEPT ![k] = new] /\ UNCHANGED <<queues, loop>>
      /\ conns' = IF reads THEN [conns EXCEPT ![h] = Dropped(conns[h])] ELSE conns
  BY DEF CleanUp
<1>3. IsNotifier(new) /\ new.clients = clients
  <2> HIDE DEF e, failed, clients
  <2> QED
    BY <1>1 DEF IsNotifier
<1>4. /\ EntriesOK' /\ Subscribed' = Subscribed
      /\ \A j \in Subscribed : entries'[j] = IF j = k THEN new ELSE entries[j]
  <2> HIDE DEF new
  <2> QED
    BY <1>2, <1>3, OneEntry DEF Inv
<1>5. CASE ~reads
  <2>1. conns' = conns /\ new.clients = e.clients
    BY <1>2, <1>3, <1>5
  <2> HIDE DEF new
  <2>2. Rewritten
    BY <2>1, ConnsUnchanged DEF Inv
  <2> QED
    BY <1>2, <1>4, <2>1, <2>2, RewrittenKeepsInv
<1>6. CASE reads
  <2>1. /\ u \in DOMAIN e.clients /\ h \in Handlers
        /\ conns[h].pc = "streaming" /\ conns[h].req.key = k /\ conns[h].req.uuid = u
    BY <1>6 DEF Peers, Inv, ClientsStream
  <2>2. conns' = [conns EXCEPT ![h] = Dropped(conns[h])]
    BY <1>2, <1>6
  <2>3. Rewritten /\ \A g \in Handlers : conns'[g] = IF g = h THEN Dropped(conns[h]) ELSE conns[g]
    <3> DEFINE c == Dropped(conns[h])
    <3> HIDE DEF h
    <3>1. IsConnection(c) /\ c.req = conns[h].req /\ c.pc = "closed" /\ c.peer = "reads"
      BY DroppedConnection
    <3> HIDE DEF c
    <3>2. Rewritten /\ \A g \in Handlers : conns'[g] = IF g = h THEN c ELSE conns[g]
      BY <2>1, <2>2, <3>1, OneRewritten DEF Inv, c
    <3> QED
      BY <3>2 DEF c
  <2>4. ConnsOK' /\ Handlers' = Handlers
    BY <2>3, RewrittenConns DEF Inv
  <2>5. \A o \in Ops : \A i \in 1..Len(queues[o]) : Waits(queues[o][i], o)'
    <3> SUFFICES ASSUME NEW o \in Ops, NEW i \in 1..Len(queues[o]) PROVE Waits(queues[o][i], o)'
      OBVIOUS
    <3>1. queues[o][i] \in Handlers /\ Waits(queues[o][i], o)
      BY DEF Inv, QueuesOK
    <3>2. conns'[queues[o][i]] = conns[queues[o][i]]
      BY <2>1, <2>3, <3>1 DEF Waits
    <3> QED
      BY <1>2, <3>1, <3>2 DEF Waits
  <2>6. QueuesOK'
    BY <1>2, <2>4, <2>5, QueuesKept
  <2>7. LoopOK'
    <3> HIDE DEF h, new
    <3>1. loop' \in [pc : {"select", "join", "ended"}, conn : Handlers' \cup {0}]
      BY <1>2, <2>4 DEF Inv, LoopOK
    <3>2. loop.pc = "join" => conns'[loop.conn] = conns[loop.conn]
      BY <2>1, <2>3 DEF Inv, LoopOK, Waits
    <3> QED
      BY <1>2, <1>4, <2>4, <3>1, <3>2 DEF Inv, LoopOK, Waits
  <2>8. /\ DOMAIN clients = DOMAIN e.clients \ {u}
        /\ \A w \in DOMAIN clients : clients[w] = e.clients[w]
    BY <1>6
  <2> HIDE DEF new, clients, reads, h
  <2>9. \A j \in Subscribed : \A w :
          w \in DOMAIN entries'[j].clients <=> w \in DOMAIN entries[j].clients /\ ~(j = k /\ w = u)
    BY <1>3, <1>4, <2>8
  <2>10. \A j \in Subscribed : \A w \in DOMAIN entries'[j].clients :
          entries'[j].clients[w] = entries[j].clients[w]
    BY <1>3, <1>4, <2>8
  <2>11. \A g \in Handlers : g # h => conns'[g] = conns[g]
    BY <2>3
  <2>12. conns'[h].pc # "streaming"
    BY <2>1, <2>3, DroppedConnection
  <2>13. ClientsStream'
    <3> SUFFICES ASSUME NEW j \in Subscribed, NEW w \in DOMAIN entries'[j].clients
                 PROVE  LET g == entries'[j].clients[w]
                        IN g \in Handlers /\ conns'[g].pc = "streaming" /\ conns'[g].req.key = j
                           /\ conns'[g].req.uuid = w
      BY <1>4, <2>4 DEF ClientsStream
    <3> DEFINE g == entries[j].clients[w]
    <3>1. w \in DOMAIN entries[j].clients /\ ~(j = k /\ w = u) /\ entries'[j].clients[w] = g
      BY <2>9, <2>10
    <3>2. g \in Handlers /\ conns[g].pc = "streaming" /\ conns[g].req.key = j /\ conns[g].req.uuid = w
      BY <3>1 DEF Inv, ClientsStream
    <3>3. g # h
      BY <2>1, <3>1, <3>2
    <3> QED
      BY <2>11, <3>1, <3>2, <3>3
  <2>14. StreamsAreServed'
    <3> SUFFICES ASSUME NEW g \in Handlers, conns'[g].pc = "streaming"
                 PROVE  /\ conns'[g].req.key \in Subscribed
                        /\ conns'[g].req.uuid \in DOMAIN entries'[conns'[g].req.key].clients
                        /\ entries'[conns'[g].req.key].clients[conns'[g].req.uuid] = g
      BY <1>4, <2>4 DEF StreamsAreServed
    <3>1. g # h /\ conns'[g] = conns[g]
      BY <2>11, <2>12
    <3>2. /\ conns[g].req.key \in Subscribed
          /\ conns[g].req.uuid \in DOMAIN entries[conns[g].req.key].clients
          /\ entries[conns[g].req.key].clients[conns[g].req.uuid] = g
      BY <3>1 DEF Inv, StreamsAreServed
    <3> DEFINE key == conns[g].req.key
               uuid == conns[g].req.uuid
    <3> HIDE DEF key, uuid
    <3>3. uuid \in DOMAIN entries'[key].clients /\ entries'[key].clients[uuid] = g
      <4>1. key \in Subscribed /\ uuid \in DOMAIN entries[key].clients
            /\ entries[key].clients[uuid] = g
        BY <3>2 DEF key, uuid
      <4>2. ~(key = k /\ uuid = u)
        BY <3>1, <4>1 DEF h
      <4> QED
        BY <2>9, <2>10, <4>1, <4>2
    <3> QED
      BY <3>1, <3>2, <3>3 DEF key, uuid
  <2> QED
    BY <1>4, <2>4, <2>6, <2>7, <2>13, <2>14 DEF Inv
<1> QED
  BY <1>5, <1>6

(***************************************************************************)
(* The connection that joins becomes a stream, and the one that it         *)
(* replaces, if there is one, is closed.                                   *)
(***************************************************************************)
LEMMA JoinedConns ==
  ASSUME Inv, LoopJoins
  PROVE  LET h == loop.conn
             e == entries[conns[h].req.key]
             uuid == conns[h].req.uuid
         IN /\ Rewritten /\ h \in Handlers /\ Waits(h, "subscribe") /\ conns[h].req.key \in Subscribed
            /\ conns'[h].pc = "streaming"
            /\ \A g \in Handlers \ {h} :
                 conns'[g] = IF uuid \in DOMAIN e.clients /\ g = e.clients[uuid]
                               THEN Dropped(conns[g]) ELSE conns[g]
<1> DEFINE h == loop.conn
           key == conns[h].req.key
           uuid == conns[h].req.uuid
           e == entries[key]
           since == Len(e.chan)
           new == [conns[h] EXCEPT !.pc = "streaming", !.since = since]
           out == {g \in Handlers : uuid \in DOMAIN e.clients /\ g = e.clients[uuid]}
<1>1. h \in Handlers /\ Waits(h, "subscribe") /\ key \in Subscribed
  BY DEF LoopJoins, Inv, LoopOK
<1>2. conns' = [g \in Handlers |-> IF g = h THEN new ELSE IF g \in out THEN Dropped(conns[g]) ELSE conns[g]]
  BY DEF LoopJoins, Handlers
<1>3. IsConnection(new) /\ new.req = conns[h].req /\ new.pc = "streaming" /\ new.peer = conns[h].peer
  <2> DEFINE old == conns[h]
  <2>1. IsConnection(old)
    BY <1>1 DEF Inv, ConnsOK
  <2>2. new = [old EXCEPT !.pc = "streaming", !.since = since]
    OBVIOUS
  <2> HIDE DEF old, new, since
  <2>3. IsConnection(new) /\ new.req = old.req /\ new.pc = "streaming" /\ new.peer = old.peer
    BY <2>1, <2>2 DEF IsConnection
  <2> QED
    BY <2>3 DEF old
<1> HIDE DEF new
<1>4. ASSUME NEW g \in Handlers
      PROVE  /\ IsConnection(conns'[g]) /\ conns'[g].req = conns[g].req
             /\ conns'[g].pc \in {"queued", "replied", "answered", "streaming", "closed"}
             /\ conns'[g].peer \in {"reads", "stalls", "gone"}
             /\ conns'[g] = IF g = h THEN new ELSE IF g \in out THEN Dropped(conns[g]) ELSE conns[g]
  <2> HIDE DEF out, h
  <2>1. CASE g = h
    BY <1>1, <1>2, <1>3, <2>1 DEF Inv, ConnsOK
  <2>2. CASE g # h /\ g \in out
    BY <1>2, <2>2, DroppedConnection
  <2>3. CASE g # h /\ g \notin out
    BY <1>2, <2>3 DEF Inv, ConnsOK
  <2> QED
    BY <2>1, <2>2, <2>3
<1>5. Rewritten
  <2>1. conns' = [g \in Handlers |-> conns'[g]]
    BY <1>2
  <2> QED
    BY <1>4, <2>1 DEF Rewritten
<1>6. \A g \in Handlers : g \in out <=> uuid \in DOMAIN e.clients /\ g = e.clients[uuid]
  OBVIOUS
<1> HIDE DEF out
<1>7. \A g \in Handlers \ {h} :
        conns'[g] = IF uuid \in DOMAIN e.clients /\ g = e.clients[uuid] THEN Dropped(conns[g]) ELSE conns[g]
  BY <1>4, <1>6
<1> QED
  BY <1>1, <1>3, <1>4, <1>5, <1>7

\* The stream of the new client replaces its old one, which is closed.
LEMMA JoinKeepsInv ==
  ASSUME Inv, LoopJoins
  PROVE  Inv'
<1> DEFINE h == loop.conn
           key == conns[h].req.key
           uuid == conns[h].req.uuid
           e == entries[key]
           clients == [u \in DOMAIN e.clients \cup {uuid} |-> IF u = uuid THEN h ELSE e.clients[u]]
           new == [e EXCEPT !.clients = clients]
           replaced == {g \in Handlers : uuid \in DOMAIN e.clients /\ g = e.clients[uuid]}
<1>1. /\ Rewritten /\ h \in Handlers /\ Waits(h, "subscribe") /\ key \in Subscribed
      /\ conns'[h].pc = "streaming"
      /\ \A g \in Handlers \ {h} :
           conns'[g] = IF g \in replaced THEN Dropped(conns[g]) ELSE conns[g]
  BY JoinedConns
<1>2. ConnsOK' /\ Handlers' = Handlers /\ \A g \in Handlers : conns'[g].req = conns[g].req
  BY <1>1, RewrittenConns DEF Inv, Rewritten
<1>3. loop' = Idle /\ queues' = queues /\ loop.pc = "join"
      /\ entries' = [entries EXCEPT ![key] = new]
  BY DEF LoopJoins
<1>4. IsNotifier(new) /\ new.clients = clients
  <2>1. IsNotifier(e)
    BY <1>1 DEF Inv, EntriesOK
  <2> HIDE DEF e, clients
  <2> QED
    BY <2>1 DEF IsNotifier
<1> HIDE DEF new
<1>5. /\ EntriesOK' /\ Subscribed' = Subscribed
      /\ \A j \in Subscribed : entries'[j] = IF j = key THEN new ELSE entries[j]
  <2>1. key \in Subscribed /\ IsNotifier(new) /\ entries' = [entries EXCEPT ![key] = new] /\ EntriesOK
    BY <1>1, <1>3, <1>4 DEF Inv
  <2> HIDE DEF key, clients, e, h, uuid, replaced
  <2> QED
    BY <2>1, OneEntry
<1>6. \A g \in replaced : /\ conns[g].pc = "streaming" /\ conns[g].req.key = key
                          /\ conns[g].req.uuid = uuid /\ g # h
                          /\ g = e.clients[uuid] /\ uuid \in DOMAIN e.clients
  BY <1>1 DEF Inv, ClientsStream, Waits
<1>7. \A o \in Ops : \A i \in 1..Len(queues[o]) : Waits(queues[o][i], o)'
  <2> SUFFICES ASSUME NEW o \in Ops, NEW i \in 1..Len(queues[o]) PROVE Waits(queues[o][i], o)'
    OBVIOUS
  <2> DEFINE g == queues[o][i]
  <2>1. g \in Handlers /\ Waits(g, o)
    BY DEF Inv, QueuesOK
  <2>2. g # h
    <3>1. o = "subscribe" => g # h
      BY <1>3 DEF Inv, LoopOK
    <3> QED
      BY <1>1, <2>1, <3>1 DEF Waits
  <2>3. g \notin replaced
    BY <1>6, <2>1 DEF Waits
  <2> HIDE DEF g, replaced
  <2>4. conns'[g].pc = "queued" /\ conns'[g].req.op = o
    BY <1>1, <2>1, <2>2, <2>3 DEF Waits
  <2> QED
    BY <1>3, <2>4 DEF Waits, g
<1>8. QueuesOK'
  BY <1>2, <1>3, <1>7, QueuesKept DEF Idle
<1>9. LoopOK'
  BY <1>2, <1>3 DEF LoopOK, Idle
<1>10. /\ DOMAIN clients = DOMAIN e.clients \cup {uuid} /\ clients[uuid] = h
       /\ \A u \in DOMAIN e.clients \ {uuid} : clients[u] = e.clients[u]
  OBVIOUS
<1>11. ClientsStream'
  <2> SUFFICES ASSUME NEW j \in Subscribed, NEW w \in DOMAIN entries'[j].clients
               PROVE  LET g == entries'[j].clients[w]
                      IN g \in Handlers /\ conns'[g].pc = "streaming" /\ conns'[g].req.key = j
                         /\ conns'[g].req.uuid = w
    BY <1>2, <1>5 DEF ClientsStream
  <2>1. CASE j = key /\ w = uuid
    <3>1. entries'[j].clients[w] = h
      BY <1>4, <1>5, <1>10, <2>1
    <3> QED
      BY <1>1, <1>2, <2>1, <3>1
  <2>2. CASE ~(j = key /\ w = uuid)
    <3> DEFINE g == entries[j].clients[w]
    <3>1. w \in DOMAIN entries[j].clients /\ entries'[j].clients[w] = g
      <4> HIDE DEF clients, e
      <4>1. CASE j = key
        BY <1>4, <1>5, <1>10, <2>2, <4>1 DEF e
      <4>2. CASE j # key
        BY <1>5, <4>2
      <4> QED
        BY <4>1, <4>2
    <3>2. g \in Handlers /\ conns[g].pc = "streaming" /\ conns[g].req.key = j /\ conns[g].req.uuid = w
      BY <3>1 DEF Inv, ClientsStream
    <3>3. g # h /\ g \notin replaced
      BY <1>1, <1>6, <2>2, <3>2 DEF Waits
    <3> HIDE DEF replaced, h
    <3>4. conns'[g] = conns[g]
      BY <1>1, <3>2, <3>3
    <3> QED
      BY <3>1, <3>2, <3>4
  <2> QED
    BY <2>1, <2>2
<1>12. StreamsAreServed'
  <2> SUFFICES ASSUME NEW g \in Handlers, conns'[g].pc = "streaming"
               PROVE  LET k == conns[g].req.key
                          u == conns[g].req.uuid
                      IN k \in Subscribed /\ u \in DOMAIN entries'[k].clients /\ entries'[k].clients[u] = g
    BY <1>2, <1>5 DEF StreamsAreServed
  <2>1. CASE g = h
    BY <1>1, <1>4, <1>5, <1>10, <2>1
  <2>2. CASE g # h
    <3> DEFINE k == conns[g].req.key
               u == conns[g].req.uuid
    <3>1. g \notin replaced
      <4> HIDE DEF replaced, h
      <4> QED
        BY <1>1, <2>2, DroppedConnection
    <3>2. conns'[g] = conns[g]
      <4> HIDE DEF replaced, h
      <4> QED
        BY <1>1, <2>2, <3>1
    <3>3. k \in Subscribed /\ u \in DOMAIN entries[k].clients /\ entries[k].clients[u] = g
      BY <3>2 DEF Inv, StreamsAreServed
    <3>4. ~(k = key /\ u = uuid)
      BY <3>1, <3>3
    <3> HIDE DEF k, u, clients, key, uuid, e
    <3>5. u \in DOMAIN entries'[k].clients /\ entries'[k].clients[u] = g
      <4>1. CASE k = key
        BY <1>4, <1>5, <1>10, <3>3, <3>4, <4>1 DEF e
      <4>2. CASE k # key
        BY <1>5, <3>3, <4>2
      <4> QED
        BY <4>1, <4>2
    <3> QED
      BY <3>3, <3>5 DEF k, u
  <2> QED
    BY <2>1, <2>2
<1> QED
  BY <1>2, <1>5, <1>8, <1>9, <1>11, <1>12 DEF Inv

\* The loop ends with nothing queued.
LEMMA CancelKeepsInv ==
  ASSUME Inv, LoopCancelled
  PROVE  Inv'
<1>1. /\ loop' = [Idle EXCEPT !.pc = "ended"] /\ queues' = [op \in Ops |-> <<>>]
      /\ conns' = conns /\ entries' = entries
  BY DEF LoopCancelled
<1>2. ConnsOK' /\ EntriesOK' /\ Handlers' = Handlers /\ Subscribed' = Subscribed
  BY <1>1 DEF Inv, ConnsOK, EntriesOK, Handlers, Subscribed
<1>3. QueuesOK'
  <2>1. <<>> \in Seq(Handlers') /\ Len(<<>>) = 0
    OBVIOUS
  <2> QED
    BY <1>1, <2>1 DEF QueuesOK
<1>4. LoopOK'
  BY <1>1 DEF LoopOK, Idle
<1>5. ClientsStream' /\ StreamsAreServed'
  BY <1>1, <1>2, StreamsKept
<1> QED
  BY <1>2, <1>3, <1>4, <1>5 DEF Inv

\* After a restart there are the connections that had their answer, and closed ones.
LEMMA RestartKeepsInv ==
  ASSUME Inv, Restart
  PROVE  /\ Inv' /\ Handlers' = Handlers
         /\ \A h \in Handlers :
              conns'[h] = IF conns[h].pc = "answered" THEN conns[h] ELSE Dropped(conns[h])
<1>1. /\ conns' = [h \in Handlers |-> IF conns[h].pc = "answered" THEN conns[h] ELSE Dropped(conns[h])]
      /\ queues' = [op \in Ops |-> <<>>] /\ loop' = Idle /\ entries' = <<>>
  BY DEF Restart, Handlers
<1>2. \A h \in Handlers :
        conns'[h] = IF conns[h].pc = "answered" THEN conns[h] ELSE Dropped(conns[h])
  BY <1>1
<1>3. Rewritten
  <2>1. conns' = [h \in Handlers |-> conns'[h]]
    BY <1>1
  <2>2. ASSUME NEW h \in Handlers
        PROVE  /\ IsConnection(conns'[h]) /\ conns'[h].req = conns[h].req
               /\ conns'[h].pc \in {"queued", "replied", "answered", "streaming", "closed"}
               /\ conns'[h].peer \in {"reads", "stalls", "gone"}
    BY <1>2, DroppedConnection DEF Inv, ConnsOK
  <2> QED
    BY <2>1, <2>2 DEF Rewritten
<1>4. ConnsOK' /\ Handlers' = Handlers
  BY <1>3, RewrittenConns DEF Inv
<1>5. Subscribed' = {} /\ EntriesOK'
  BY <1>1 DEF Subscribed, EntriesOK
<1>6. QueuesOK'
  <2>1. <<>> \in Seq(Handlers') /\ Len(<<>>) = 0
    OBVIOUS
  <2> QED
    BY <1>1, <2>1 DEF QueuesOK
<1>7. LoopOK'
  BY <1>1 DEF LoopOK, Idle
<1>8. \A h \in Handlers : conns'[h].pc # "streaming"
  BY <1>2, DroppedConnection
<1>9. ClientsStream' /\ StreamsAreServed'
  BY <1>4, <1>5, <1>8 DEF ClientsStream, StreamsAreServed
<1> QED
  BY <1>2, <1>4, <1>5, <1>6, <1>7, <1>9 DEF Inv

\* No connection, no entry, empty queues.
LEMMA InvInit == Init => Inv
<1> SUFFICES ASSUME Init PROVE Inv
  OBVIOUS
<1>1. conns = <<>> /\ Handlers = {} /\ Subscribed = {} /\ loop = Idle /\ queues = [op \in Ops |-> <<>>]
  BY DEF Init, Handlers, Subscribed
<1>2. ConnsOK
  <2>1. conns \in Seq({})
    BY <1>1
  <2> QED
    BY <1>1, <2>1 DEF ConnsOK
<1>3. QueuesOK
  <2>1. <<>> \in Seq(Handlers) /\ Len(<<>>) = 0
    OBVIOUS
  <2> QED
    BY <1>1, <2>1 DEF QueuesOK
<1> QED
  BY <1>1, <1>2, <1>3 DEF Inv, EntriesOK, LoopOK, Idle, ClientsStream, StreamsAreServed

\* Each action of the handlers, the peers, the loop and the tasks keeps Inv.
LEMMA InvStep ==
  ASSUME Inv, [Next]_vars
  PROVE  Inv'
<1>1. ASSUME NEW req \in Requests, HandleRequest(req) PROVE Inv'
  BY <1>1, RequestKeepsInv
<1>2. ASSUME NEW h \in DOMAIN conns,
             PeerStalls(h) \/ PeerReads(h) \/ PeerGoes(h)
      PROVE  Inv'
  <2>1. PICK p \in {"reads", "stalls", "gone"} : PeerBecomes(h, p)
    BY <1>2 DEF PeerStalls, PeerReads, PeerGoes
  <2> QED
    BY <2>1, PeerKeepsInv DEF Handlers
<1>3. ASSUME NEW h \in DOMAIN conns, LoopServes(h) \/ WriteResponse(h) \/ HandlerPanics(h)
      PROVE  Inv'
  BY <1>3, ServingKeepsInv, HandlerKeepsInv DEF Handlers
<1>4. ASSUME NEW k \in Subscribed,
             \/ CastStarts(k)
             \/ \E i \in entries[k].casts : CastStalls(k, i) \/ CastWrites(k, i)
             \/ \E u \in entries[k].failed : CleanUp(k, u)
      PROVE  Inv'
  <2>1. CASE \E i : CastStarts(k) \/ CastStalls(k, i) \/ CastWrites(k, i)
    BY <2>1, CastKeepsInv
  <2>2. CASE \E u : CleanUp(k, u)
    BY <2>2, CleanUpKeepsInv
  <2> QED
    BY <1>4, <2>1, <2>2
<1>5. CASE ServeReturns \/ UNCHANGED vars
  <2>1. UNCHANGED <<conns, queues, loop, entries>>
    BY <1>5 DEF ServeReturns, vars
  <2>2. Rewritten /\ EntriesOK' /\ Subscribed' = Subscribed
    BY <2>1, ConnsUnchanged, EntriesUnchanged DEF Inv
  <2> QED
    BY <2>1, <2>2, RewrittenKeepsInv
<1> QED
  BY <1>1, <1>2, <1>3, <1>4, <1>5, JoinKeepsInv, CancelKeepsInv, RestartKeepsInv DEF Next

\* The requests, the queues, the loop, the map and the streams stay in step.
THEOREM InvAlways == Spec => []Inv
BY InvInit, InvStep, PTL DEF Spec

(***************************************************************************)
(* A stream that stays open is in the list of the Notifier of its key,     *)
(* under its uuid, and so is written to.                                   *)
(***************************************************************************)
THEOREM OpenStreamsAreServed == Spec => []StreamsAreServed
<1>1. Inv => StreamsAreServed
  BY DEF Inv
<1> QED
  BY <1>1, InvAlways, PTL

=============================================================================
