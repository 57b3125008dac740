------------------------------- MODULE Server -------------------------------
(***************************************************************************)
(* src/srv.rs: the server.  serve accepts connections and starts a handler *)
(* for each; the handler reads one request and passes it to the loop       *)
(* through one of six queues; the loop, the only task that touches the     *)
(* core, serves the queues in any order and answers the handler, which     *)
(* writes the response.  A subscription hands its connection over to the   *)
(* loop, which keeps a Notifier for every subscribed key.                  *)
(*                                                                         *)
(* The core is the one of module NkvCore.  The tasks of a Notifier, which  *)
(* module Notifier has in detail, appear as the register they implement:   *)
(* a broadcast takes any message that came after those taken before, the   *)
(* ones in between are never broadcast, and broadcasts end in any order.   *)
(***************************************************************************)
EXTENDS Naturals, Sequences, FiniteSets, Functions

CONSTANTS
  Wildcard, Starred, Keys, Malformed, Uuids, Values, Empty, Durable, IOErrors,  \* of NkvCore
  Requests,  \* what clients send: [op, key, uuid, value]
  MaxConns,  \* bound: connections
  Stalls,    \* BOOLEAN: subscribers may stop reading for a while, once each
  Breaks,    \* BOOLEAN: a subscriber may go away
  Stops      \* BOOLEAN: the server may be cancelled, or end and start again

Ops == {"put", "get", "delete", "subscribe", "unsubscribe", "trace"}

ASSUME RequestsAssumption ==
  Requests \subseteq [op : Ops \cup {"health", "version", "malformed"},
                      key : Keys, uuid : Uuids, value : Values]
ASSUME StarAssumption == Wildcard \in Starred
ASSUME PathsAssumption == Keys \subseteq Seq(UNION {Range(key) : key \in Keys}) \ {<<>>}
ASSUME NoValueAssumption == Empty \in Values /\ IOErrors \in BOOLEAN
ASSUME ServerBoundsAssumption ==
  MaxConns \in Nat /\ Stalls \in BOOLEAN /\ Breaks \in BOOLEAN /\ Stops \in BOOLEAN

VARIABLES
  notifiers, objects, storage, chans, reply,  \* of NkvCore
  conns,    \* the connections so far
  queues,   \* the six queues of requests
  loop,     \* the loop's task
  serving,  \* serve accepts connections
  entries   \* the loop's map notifiers: key -> Notifier

coreVars == <<notifiers, objects, storage, chans, reply>>
vars == <<coreVars, conns, queues, loop, serving, entries>>

(***************************************************************************)
(* The receivers of the core's channels belong to tasks of Notifiers that  *)
(* read until the channel is closed, so no receiver is dropped early.      *)
(***************************************************************************)
Core == INSTANCE NkvCore WITH Drops <- FALSE

\* The keys of the subscriptions; everything a connection can be.
Subscribed == DOMAIN entries

NoAnswer == [ok |-> FALSE, data |-> {}]

Connection(req, pc, ok) ==
  [req |-> req, pc |-> pc, answer |-> [NoAnswer EXCEPT !.ok = ok],
   peer |-> "reads",  \* of a stream: "reads", "stalls" or "gone"
   mayStall |-> Stalls,  \* bound: a peer stops reading once at most
   since |-> 0,       \* how many messages its Notifier's channel had when it joined
   told |-> 0]        \* the number of the newest message written to it

\* Whatever its peer did is of no more interest.
Dropped(c) == [Connection(c.req, "closed", FALSE) EXCEPT !.answer = c.answer]

Idle == [pc |-> "select", conn |-> 0]

Init ==
  /\ Core!Init
  /\ conns = <<>>
  /\ queues = [op \in Ops |-> <<>>]
  /\ loop = Idle
  /\ serving = TRUE
  /\ entries = <<>>

-----------------------------------------------------------------------------
(* serve and handle_request: accept, read the request, dispatch it. *)

Arrived(req, pc, ok) ==
  /\ serving /\ Len(conns) < MaxConns
  /\ conns' = Append(conns, Connection(req, pc, ok))

HandleQueued(req) ==
  /\ req.op \in Ops /\ loop.pc # "ended"
  /\ Arrived(req, "queued", FALSE)
  /\ queues' = [queues EXCEPT ![req.op] = Append(@, Len(conns) + 1)]
  /\ UNCHANGED <<coreVars, loop, serving, entries>>

\* The loop's receivers are gone: a failed response, and none to a subscription.
HandleRefused(req) ==
  /\ req.op \in Ops /\ loop.pc = "ended"
  /\ Arrived(req, IF req.op = "subscribe" THEN "closed" ELSE "answered", FALSE)
  /\ UNCHANGED <<coreVars, queues, loop, serving, entries>>

\* handle_health and handle_version do not ask the loop.
HandleDirectly(req) ==
  /\ req.op \in {"health", "version"}
  /\ Arrived(req, "answered", TRUE)
  /\ UNCHANGED <<coreVars, queues, loop, serving, entries>>

\* A request that does not parse is logged and gets no response.
HandleMalformed(req) ==
  /\ req.op = "malformed"
  /\ Arrived(req, "closed", FALSE)
  /\ UNCHANGED <<coreVars, queues, loop, serving, entries>>

HandleRequest(req) ==
  HandleQueued(req) \/ HandleRefused(req) \/ HandleDirectly(req) \/ HandleMalformed(req)

\* Faulty variant: every handler that waits gets the answer.
WriteResponseToAll(h) ==
  /\ conns[h].pc = "replied"
  /\ conns' = [c \in DOMAIN conns |->
                 IF c = h \/ (conns[c].pc = "queued" /\ conns[c].req.op = conns[h].req.op)
                   THEN [conns[c] EXCEPT !.pc = "answered", !.answer = conns[h].answer]
                   ELSE conns[c]]
  /\ UNCHANGED <<coreVars, queues, loop, serving, entries>>

WriteResponse(h) ==
  /\ conns[h].pc = "replied"
  /\ conns' = [conns EXCEPT ![h].pc = "answered"]
  /\ UNCHANGED <<coreVars, queues, loop, serving, entries>>

\* resp_rx.recv().await.unwrap() on the channel of a request nobody will answer.
HandlerPanics(h) ==
  /\ conns[h].pc = "queued" /\ loop.pc = "ended"
  /\ conns' = [conns EXCEPT ![h] = Dropped(@)]
  /\ UNCHANGED <<coreVars, queues, loop, serving, entries>>

-----------------------------------------------------------------------------
(* The loop. *)

NoSlot == <<>>

Hello == [kind |-> "hello"]
Update(key, value) == [kind |-> "update", key |-> key, value |-> value]
Close(key) == [kind |-> "close", key |-> key]

Slots(n) == Core!ChansAt(n, DOMAIN n)

\* A message for the core channels C, of which those not in n any more are then closed.
Informed(C, msg, n) ==
  [k \in Subscribed |->
     [entries[k] EXCEPT !.chan = IF entries[k].slot \in C THEN Append(@, msg) ELSE @,
                        !.slot = IF @ \in Slots(n) THEN @ ELSE NoSlot]]

OnWay(key) ==
  Core!ChansAt(notifiers, Core!Selected(DOMAIN notifiers, key) \cup Core!OnPath(DOMAIN notifiers, key))

\* The loop takes the request of connection h from its queue.
Takes(op, h) ==
  /\ loop.pc = "select"
  /\ queues[op] # <<>> /\ h = Head(queues[op])
  /\ queues' = [queues EXCEPT ![op] = Tail(@)]

Answers(h, ok, data) ==
  conns' = [conns EXCEPT ![h].pc = "replied", ![h].answer = [ok |-> ok, data |-> data]]

\* Faulty variant: Ok whatever put returned.
LoopPutOk(h) ==
  LET req == conns[h].req
  IN /\ Takes("put", h)
     /\ Core!Put(req.key, req.value)
     /\ Answers(h, TRUE, {})
     /\ entries' = IF reply'.ok THEN Informed(OnWay(req.key), Update(req.key, req.value), notifiers)
                                ELSE entries
     /\ UNCHANGED <<loop, serving>>

LoopPut(h) ==
  LET req == conns[h].req
  IN /\ Takes("put", h)
     /\ Core!Put(req.key, req.value)
     /\ Answers(h, reply'.ok, {})
     /\ entries' = IF reply'.ok THEN Informed(OnWay(req.key), Update(req.key, req.value), notifiers)
                                ELSE entries
     /\ UNCHANGED <<loop, serving>>

LoopGet(h) ==
  /\ Takes("get", h)
  /\ Core!Get(conns[h].req.key)
  /\ Answers(h, reply'.data # {}, reply'.data)
  /\ UNCHANGED <<loop, serving, entries>>

LoopDelete(h) ==
  LET key == conns[h].req.key
  IN /\ Takes("delete", h)
     /\ Core!Delete(key)
     /\ Answers(h, reply'.ok, {})
     /\ entries' = Informed(OnWay(key), Close(key), notifiers')
     /\ UNCHANGED <<loop, serving>>

LoopUnsubscribe(h) ==
  LET req == conns[h].req
      selected == Core!Selected(DOMAIN notifiers, req.key)
  IN /\ Takes("unsubscribe", h)
     /\ Core!Unsubscribe(req.key, req.uuid)
     /\ Answers(h, reply'.ok, {})
     /\ entries' = Informed({<<d, req.uuid>> : d \in {e \in selected : selected = {e}}},
                            Close(req.key), notifiers')
     /\ UNCHANGED <<loop, serving>>

LoopTrace(h) ==
  /\ Takes("trace", h)
  /\ Core!Trace(conns[h].req.key)
  /\ Answers(h, reply'.data # {}, reply'.data)
  /\ UNCHANGED <<loop, serving, entries>>

(***************************************************************************)
(* A subscription joins the Notifier of its key, or makes one of a new     *)
(* subscription in the core.  Notifier::new starts its tasks, and          *)
(* Notifier::subscribe waits for the mutex of the clients, so that tasks   *)
(* may broadcast before the loop goes on to LoopJoins.                     *)
(***************************************************************************)
LoopFindsNotifier(h) ==
  /\ Takes("subscribe", h)
  /\ conns[h].req.key \in Subscribed
  /\ loop' = [pc |-> "join", conn |-> h]
  /\ UNCHANGED <<coreVars, conns, serving, entries>>

Notifier(slot, msgs) ==
  [slot |-> slot,    \* the core subscription that it reads, NoSlot when the core has ended it
   chan |-> msgs,    \* all messages of that subscription so far
   taken |-> 0,      \* the number of the last one that a broadcast has taken
   casts |-> {},     \* the numbers of those being broadcast
   clients |-> <<>>, \* uuid -> connection
   failed |-> {},    \* the uuids that a broadcast failed to write to and will clean up
   held |-> 0]       \* the broadcast that waits with the mutex for a client that does not read

\* The map with a Notifier of key that reads the new subscription, if there is one.
WithNotifier(key, new, msgs) ==
  [k \in Subscribed \cup {key} |->
     IF k = key THEN Notifier(IF new = {} THEN NoSlot ELSE CHOOSE c \in new : TRUE, msgs)
                ELSE entries[k]]

\* Faulty variant: nothing is done with what the core has sent so far.
NewChannelHello(key) == {<<Hello>>}

\* The Hello of a new channel and the values of the keys, in HashMap order.
NewChannel(key) ==
  LET found == Core!Found(key)
      n == Cardinality(found)
  IN {<<Hello>> \o [i \in 1..n |-> Update(order[i][1], order[i][2])] :
        order \in {s \in [1..n -> found] : \A d \in found : \E i \in 1..n : s[i] = d}}

\* Faulty variant: the map is not asked for a Notifier of the key.
LoopMakesNotifierAgain(h) ==
  LET req == conns[h].req
  IN /\ Takes("subscribe", h)
     /\ Core!Subscribe(req.key, req.uuid) /\ reply'.ok
     /\ \E msgs \in NewChannel(req.key) :
          entries' = WithNotifier(req.key, Slots(notifiers') \ Slots(notifiers), msgs)
     /\ loop' = [pc |-> "join", conn |-> h]
     /\ UNCHANGED <<conns, serving>>

LoopMakesNotifier(h) ==
  LET req == conns[h].req
  IN /\ Takes("subscribe", h)
     /\ req.key \notin Subscribed
     /\ Core!Subscribe(req.key, req.uuid) /\ reply'.ok
     /\ \E msgs \in NewChannel(req.key) :
          entries' = WithNotifier(req.key, Slots(notifiers') \ Slots(notifiers), msgs)
     /\ loop' = [pc |-> "join", conn |-> h]
     /\ UNCHANGED <<conns, serving>>

\* The core refuses: the error is sent to nobody and the connection is dropped.
LoopRefusesSubscription(h) ==
  LET req == conns[h].req
  IN /\ Takes("subscribe", h)
     /\ req.key \notin Subscribed
     /\ Core!Subscribe(req.key, req.uuid) /\ ~reply'.ok
     /\ conns' = [conns EXCEPT ![h] = Dropped(@)]
     /\ UNCHANGED <<loop, serving, entries>>

\* Faulty variant: the stream of the same uuid is neither replaced nor dropped.
LoopJoinsBeside ==
  LET h == loop.conn
      e == entries[conns[h].req.key]
  IN /\ loop.pc = "join" /\ e.held = 0
     /\ entries' = IF conns[h].req.uuid \in DOMAIN e.clients THEN entries
                   ELSE [entries EXCEPT ![conns[h].req.key].clients =
                           [u \in DOMAIN @ \cup {conns[h].req.uuid} |->
                              IF u \in DOMAIN @ THEN @[u] ELSE h]]
     /\ conns' = [conns EXCEPT ![h].pc = "streaming", ![h].since = Len(e.chan)]
     /\ loop' = Idle
     /\ UNCHANGED <<coreVars, queues, serving>>

\* A stream of the same uuid is replaced, which closes its connection.
LoopJoins ==
  LET h == loop.conn
      key == conns[h].req.key
      uuid == conns[h].req.uuid
      e == entries[key]
  IN /\ loop.pc = "join" /\ e.held = 0
     /\ entries' = [entries EXCEPT ![key].clients =
                      [u \in DOMAIN e.clients \cup {uuid} |-> IF u = uuid THEN h ELSE e.clients[u]]]
     /\ conns' = [c \in DOMAIN conns |->
                    IF c = h THEN [conns[h] EXCEPT !.pc = "streaming", !.since = Len(e.chan)]
                    ELSE IF uuid \in DOMAIN e.clients /\ c = e.clients[uuid]
                      THEN Dropped(conns[c])
                      ELSE conns[c]]
     /\ loop' = Idle
     /\ UNCHANGED <<coreVars, queues, serving>>

\* The loop returns and drops its queues, and the core, whose channels close.
LoopCancelled ==
  /\ Stops /\ loop.pc = "select"
  /\ loop' = [Idle EXCEPT !.pc = "ended"]
  /\ queues' = [op \in Ops |-> <<>>]
  /\ UNCHANGED <<coreVars, conns, serving, entries>>

ServeReturns ==
  /\ serving /\ loop.pc = "ended"
  /\ serving' = FALSE
  /\ UNCHANGED <<coreVars, conns, queues, loop, entries>>

LoopServes(h) ==
  \/ LoopPut(h) \/ LoopGet(h) \/ LoopDelete(h) \/ LoopTrace(h) \/ LoopUnsubscribe(h)
  \/ LoopFindsNotifier(h) \/ LoopMakesNotifier(h) \/ LoopRefusesSubscription(h)

-----------------------------------------------------------------------------
(* The Notifiers and the peers of their streams. *)

Peers(e, p) == {u \in DOMAIN e.clients : conns[e.clients[u]].peer = p}

CastStarts(k) ==
  /\ \E i \in entries[k].taken + 1..Len(entries[k].chan) :
       entries' = [entries EXCEPT ![k].taken = i, ![k].casts = @ \cup {i}]
  /\ UNCHANGED <<coreVars, conns, queues, loop, serving>>

\* A client that does not read keeps the broadcast, which keeps the mutex.
CastStalls(k, i) ==
  LET e == entries[k]
  IN /\ e.held = 0 /\ Peers(e, "stalls") # {}
     /\ entries' = [entries EXCEPT ![k].held = i]
     /\ UNCHANGED <<coreVars, conns, queues, loop, serving>>

\* Faulty variant: only the first client of the list is written to.
WrittenToOne(e, i) ==
  conns' = [c \in DOMAIN conns |->
              IF Peers(e, "reads") # {} /\ c = e.clients[CHOOSE u \in Peers(e, "reads") : TRUE]
                THEN [conns[c] EXCEPT !.told = IF i > @ THEN i ELSE @] ELSE conns[c]]

Written(e, i) ==
  conns' = [c \in DOMAIN conns |->
              IF \E u \in Peers(e, "reads") : e.clients[u] = c
                THEN [conns[c] EXCEPT !.told = IF i > @ THEN i ELSE @] ELSE conns[c]]

\* Faulty variant: the mutex stays with the broadcast.
CastWritesLocked(k, i) ==
  LET e == entries[k]
  IN /\ e.held \in {0, i} /\ Peers(e, "stalls") = {}
     /\ Written(e, i)
     /\ entries' = [entries EXCEPT ![k].casts = @ \ {i},
                                   ![k].failed = @ \cup Peers(e, "gone")]
     /\ UNCHANGED <<coreVars, queues, loop, serving>>

(***************************************************************************)
(* The writes of a broadcast are one step: a client that comes, leaves or  *)
(* fails between two of them could as well have done so before or after.   *)
(***************************************************************************)
CastWrites(k, i) ==
  LET e == entries[k]
  IN /\ e.held \in {0, i} /\ Peers(e, "stalls") = {}
     /\ Written(e, i)
     /\ entries' = [entries EXCEPT ![k].casts = @ \ {i}, ![k].held = 0,
                                   ![k].failed = @ \cup Peers(e, "gone")]
     /\ UNCHANGED <<coreVars, queues, loop, serving>>

(***************************************************************************)
(* The clean-up after a failed write finds the stream by uuid: a newer one *)
(* gets a Close and is dropped, the broken one fails again and stays.      *)
(***************************************************************************)
CleanUp(k, u) ==
  LET e == entries[k]
  IN /\ u \in e.failed /\ u \notin Peers(e, "stalls") /\ e.held = 0
     /\ entries' = [entries EXCEPT
          ![k].failed = @ \ {u},
          ![k].clients = IF u \in Peers(e, "reads")
                           THEN [w \in DOMAIN @ \ {u} |-> @[w]] ELSE @]
     /\ conns' = IF u \in Peers(e, "reads")
                   THEN [conns EXCEPT ![e.clients[u]] = Dropped(@)] ELSE conns
     /\ UNCHANGED <<coreVars, queues, loop, serving>>

PeerBecomes(h, p) ==
  /\ conns[h].pc = "streaming"
  /\ conns' = [conns EXCEPT ![h].peer = p, ![h].mayStall = @ /\ p # "stalls"]
  /\ UNCHANGED <<coreVars, queues, loop, serving, entries>>

PeerStalls(h) == conns[h].mayStall /\ conns[h].peer = "reads" /\ PeerBecomes(h, "stalls")
PeerReads(h) == conns[h].peer = "stalls" /\ PeerBecomes(h, "reads")
PeerGoes(h) == Breaks /\ conns[h].peer # "gone" /\ PeerBecomes(h, "gone")

-----------------------------------------------------------------------------
\* The process ends, whatever it was doing, and a new one starts.
Restart ==
  /\ Stops
  /\ Core!Restart
  /\ conns' = [c \in DOMAIN conns |->
                 IF conns[c].pc = "answered" THEN conns[c] ELSE Dropped(conns[c])]
  /\ queues' = [op \in Ops |-> <<>>]
  /\ loop' = Idle
  /\ serving' = TRUE
  /\ entries' = <<>>

Next ==
  \/ \E req \in Requests : HandleRequest(req)
  \/ \E h \in DOMAIN conns :
       \/ LoopServes(h)
       \/ WriteResponse(h) \/ HandlerPanics(h)
       \/ PeerStalls(h) \/ PeerReads(h) \/ PeerGoes(h)
  \/ LoopJoins \/ LoopCancelled \/ ServeReturns
  \/ \E k \in Subscribed :
       \/ CastStarts(k)
       \/ \E i \in entries[k].casts : CastStalls(k, i) \/ CastWrites(k, i)
       \/ \E u \in entries[k].failed : CleanUp(k, u)
  \/ Restart

Spec == Init /\ [][Next]_vars

(***************************************************************************)
(* tokio polls a task again after what it waits for has happened; select!  *)
(* tries the queues in random order and passes none over for ever.  A peer *)
(* that stalls is assumed to read again, or to go away: without that, the  *)
(* loop may wait for a mutex for ever.  Nothing is assumed of the clients' *)
(* requests and of cancellation.                                           *)
(***************************************************************************)
Fairness ==
  /\ \A h \in 1..MaxConns :
       /\ WF_vars(h \in DOMAIN conns /\ LoopServes(h))
       /\ WF_vars(h \in DOMAIN conns /\ (WriteResponse(h) \/ HandlerPanics(h)))
       /\ WF_vars(h \in DOMAIN conns /\ PeerReads(h))
  /\ WF_vars(LoopJoins)
  /\ \A k \in Keys :
       /\ WF_vars(k \in Subscribed /\ CastStarts(k))
       /\ WF_vars(k \in Subscribed /\ \E i \in entries[k].casts : CastWrites(k, i))

FairSpec == Spec /\ Fairness

-----------------------------------------------------------------------------
(* Properties. *)

Handlers == DOMAIN conns

\* The shapes of the connections, the queues, the loop and the map of Notifiers.
TypeOK ==
  /\ Core!TypeOK
  /\ \A h \in Handlers :
       /\ conns[h].req \in Requests
       /\ conns[h].pc \in {"queued", "replied", "answered", "streaming", "closed"}
       /\ conns[h].peer \in {"reads", "stalls", "gone"}
  /\ queues \in [Ops -> Seq(Handlers)]
  /\ loop \in [pc : {"select", "join", "ended"}, conn : Handlers \cup {0}]
  /\ Subscribed \subseteq Keys
  /\ \A k \in Subscribed :
       LET e == entries[k]
       IN /\ e.slot \in Core!Slots \cup {NoSlot}
          /\ DOMAIN e.clients \subseteq Uuids /\ Range(e.clients) \subseteq Handlers
          /\ e.casts \cup {e.taken} \subseteq 0..Len(e.chan) /\ e.held \in e.casts \cup {0}

(***************************************************************************)
(* Every subscription of the core is read by exactly one Notifier of the   *)
(* map, although entries are never removed, keys with wildcards join the   *)
(* node of another key, and deletes end subscriptions behind the map's     *)
(* back: no channel fills up unread and no receiver is ever dropped.       *)
(***************************************************************************)
EverySubscriptionIsRead ==
  loop.pc # "ended" =>
    /\ Slots(notifiers) = {entries[k].slot : k \in Subscribed} \ {NoSlot}
    /\ \A j, k \in Subscribed : entries[j].slot = entries[k].slot /\ j # k => entries[j].slot = NoSlot

(***************************************************************************)
(* One of the messages that a Notifier has been sent gives the present     *)
(* value of the stored key it is subscribed at, and none that was sent     *)
(* later gives another or takes the key away, whatever was put, deleted,   *)
(* unsubscribed and subscribed again through other connections.            *)
(***************************************************************************)
About(msg, d) ==
  \/ msg.kind = "update" /\ msg.key = d
  \/ msg.kind = "close" /\ Core!Selects(msg.key, d)

ChannelIsCurrent ==
  \A k \in Subscribed :
    LET e == entries[k]
        d == e.slot[1]
        present == Update(d, storage[d])
    IN e.slot # NoSlot /\ d \in DOMAIN storage
         => \E i \in 1..Len(e.chan) :
              /\ e.chan[i] = present
              /\ \A j \in i..Len(e.chan) : About(e.chan[j], d) => e.chan[j] = present

(***************************************************************************)
(* A stream belongs to a client of the Notifier of its key, and to one     *)
(* only: a client that comes again, on the same key or another, is never   *)
(* left with a connection that stays open and that nobody writes to.       *)
(***************************************************************************)
StreamsAreServed ==
  \A h \in Handlers :
    conns[h].pc = "streaming" =>
      /\ conns[h].req.key \in Subscribed
      /\ conns[h].req.uuid \in DOMAIN entries[conns[h].req.key].clients
      /\ entries[conns[h].req.key].clients[conns[h].req.uuid] = h

Phase(c) ==
  CASE c.pc = "queued" -> "called"
    [] c.pc = "replied" -> "done"
    [] c.pc = "answered" -> "returned"
    [] c.pc \in {"streaming", "closed"} -> "lost"

Calls == [h \in Handlers |-> [req |-> conns[h].req, phase |-> Phase(conns[h]),
                               answer |-> conns[h].answer]]

Promise == INSTANCE Service WITH db <- storage, last <- reply, calls <- Calls

(***************************************************************************)
(* The queues, the handlers and the loop together are the service that     *)
(* module Service describes: each put, get and delete takes effect once,   *)
(* between its arrival and its answer, and gets its own answer.            *)
(***************************************************************************)
ImplementsService == Promise!Spec

(***************************************************************************)
(* Every request comes to an answer, a stream or a closed connection, as   *)
(* long as peers that stop reading do not do so for ever: also those that  *)
(* are still queued when the loop is cancelled, and those that arrive      *)
(* behind a subscription that waits for the mutex of a slow Notifier.      *)
(***************************************************************************)
EveryRequestEnds ==
  \A h \in 1..MaxConns :
    (h \in Handlers /\ conns[h].pc \in {"queued", "replied"})
      ~> (h \in Handlers /\ conns[h].pc \in {"answered", "streaming", "closed"})

(***************************************************************************)
(* "nkv clients recieve latest state and transitional states might be lost *)
(* due to load" (README.md): a subscriber that reads is told of every      *)
(* message that its Notifier gets after it joined, or of a newer one (that *)
(* an older one may follow it is the business of module Notifier).         *)
(***************************************************************************)
Behind(h) ==
  /\ h \in Handlers /\ conns[h].pc = "streaming" /\ conns[h].peer = "reads"
  /\ LET n == Len(entries[conns[h].req.key].chan)
     IN n > conns[h].since /\ n > conns[h].told

ReadersKeepUp == \A h \in 1..MaxConns : Behind(h) ~> ~Behind(h)

(***************************************************************************)
(* "We want subscriber to recieve value if it was there before" (nkv.rs,   *)
(* subscribe): a subscriber of a key that is stored is told of something.  *)
(***************************************************************************)
Uninformed(h) ==
  /\ h \in Handlers /\ conns[h].pc = "streaming" /\ conns[h].peer = "reads"
  /\ conns[h].told = 0 /\ conns[h].req.key \in DOMAIN storage

SubscribersLearn == \A h \in 1..MaxConns : Uninformed(h) ~> ~Uninformed(h)
=============================================================================
