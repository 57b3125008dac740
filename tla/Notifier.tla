------------------------------ MODULE Notifier ------------------------------
(***************************************************************************)
(* src/notifier.rs: the Notifier that carries the messages of one core     *)
(* channel to the sockets of the clients.  Three kinds of tasks run        *)
(* concurrently: the receiver (channel to buffer), the sender (buffer to   *)
(* broadcasts) and one spawned task per broadcast; the server's own task   *)
(* calls subscribe.  A step is what a task does between two awaits that    *)
(* can suspend it.                                                         *)
(*                                                                         *)
(* Messages are the numbers 1, 2, ... in the order the core sent them.  A  *)
(* stream is one connection of a client; it is "ok", "stalled" (the peer   *)
(* does not read, so a send to it stays pending) or "broken".              *)
(***************************************************************************)
EXTENDS Naturals, Sequences

CONSTANTS
  Uuids,       \* the clients
  MaxMsgs,     \* bound: messages the core sends
  MaxStreams,  \* bound: connections the clients make
  Stalls       \* BOOLEAN: a peer may stop reading

ASSUME BoundsAssumption == MaxMsgs \in Nat /\ MaxStreams \in Nat /\ Stalls \in BOOLEAN

None == 0             \* Option::None in the buffer

CloseMsg == 0         \* the Close that the Notifier itself writes to a stream

Msgs == 1..MaxMsgs

VARIABLES
  sent,      \* how many messages the core has sent
  inbox,     \* notifier_rx
  open,      \* the core still holds the sender of that channel
  recv,      \* the receiver task: [pc, msg]
  buf, idx,  \* StateBuf
  changed,   \* the watch channel has an unseen value
  sender,    \* the sender task: "wait" or "pop"
  casts,     \* the broadcast tasks: message -> [pc, todo, failed]
  clients,   \* uuid -> stream
  streams,   \* the streams so far: [state, got]
  lock       \* the mutex of clients, when held across an await: <<m, uuid>> during
             \* a pending send of broadcast m, <<m>> during its clean-up, with
             \* m = CloseMsg for the calls unsubscribe and unsubscribe_all; else <<>>

receiverVars == <<inbox, open, recv>>
bufferVars == <<buf, idx, changed>>
clientVars == <<clients, streams, lock>>
vars == <<sent, receiverVars, bufferVars, sender, casts, clientVars>>

Init ==
  /\ sent = 0
  /\ inbox = <<>>
  /\ open = TRUE
  /\ recv = [pc |-> "recv", msg |-> None]
  /\ buf = [i \in {0, 1} |-> None]
  /\ idx = 0
  /\ changed = FALSE
  /\ sender = "wait"
  /\ casts = <<>>
  /\ clients = <<>>
  /\ streams = <<>>
  /\ lock = <<>>

-----------------------------------------------------------------------------
(* The core's end of the channel. *)

CoreSends ==
  /\ open /\ sent < MaxMsgs
  /\ sent' = sent + 1
  /\ inbox' = Append(inbox, sent + 1)
  /\ UNCHANGED <<open, recv, bufferVars, sender, casts, clientVars>>

CoreDrops ==
  /\ open
  /\ open' = FALSE
  /\ UNCHANGED <<sent, inbox, recv, bufferVars, sender, casts, clientVars>>

-----------------------------------------------------------------------------
(* The receiver task: recv, store, then wake the sender. *)

Receive ==
  /\ recv.pc = "recv" /\ inbox # <<>>
  /\ recv' = [pc |-> "store", msg |-> Head(inbox)]
  /\ inbox' = Tail(inbox)
  /\ UNCHANGED <<sent, open, bufferVars, sender, casts, clientVars>>

\* The channel is empty and closed: the task ends and drops the watch sender.
ReceiverEnds ==
  /\ recv.pc = "recv" /\ inbox = <<>> /\ ~open
  /\ recv' = [recv EXCEPT !.pc = "ended"]
  /\ UNCHANGED <<sent, inbox, open, bufferVars, sender, casts, clientVars>>

\* Faulty variant: store writes to the other element of the buffer.
StoredOther(b, i, msg) == [b EXCEPT ![1 - i] = msg]

Stored(b, i, msg) == [b EXCEPT ![i] = msg]

Store ==
  /\ recv.pc = "store"
  /\ buf' = Stored(buf, idx, recv.msg)
  /\ recv' = [recv EXCEPT !.pc = "wake"]
  /\ UNCHANGED <<sent, inbox, open, idx, changed, sender, casts, clientVars>>

\* Faulty variant: the task ends without waking the sender.
WakeForgotten ==
  /\ recv.pc = "wake"
  /\ recv' = [pc |-> "recv", msg |-> None]
  /\ UNCHANGED <<sent, inbox, open, bufferVars, sender, casts, clientVars>>

Wake ==
  /\ recv.pc = "wake"
  /\ changed' = TRUE
  /\ recv' = [pc |-> "recv", msg |-> None]
  /\ UNCHANGED <<sent, inbox, open, buf, idx, sender, casts, clientVars>>

-----------------------------------------------------------------------------
(* The sender task: wait for a change, pop, spawn a broadcast. *)

\* changed() returns at once, with an error nobody looks at, after the receiver ended.
SenderWakes ==
  /\ sender = "wait"
  /\ changed \/ recv.pc = "ended"
  /\ changed' = FALSE
  /\ sender' = "pop"
  /\ UNCHANGED <<sent, receiverVars, buf, idx, casts, clientVars>>

NewCast == [pc |-> "keys", todo |-> {}, failed |-> {}]

\* Faulty variant: the index does not wrap around.
FlippedNoWrap(i) == i + 1

Flipped(i) == IF i = 0 THEN 1 ELSE 0

SenderPops ==
  /\ sender = "pop"
  /\ buf' = [buf EXCEPT ![idx] = None]
  /\ idx' = Flipped(idx)
  /\ casts' = IF buf[idx] = None
                THEN casts
                ELSE [m \in DOMAIN casts \cup {buf[idx]} |->
                        IF m = buf[idx] THEN NewCast ELSE casts[m]]
  /\ sender' = "wait"
  /\ UNCHANGED <<sent, receiverVars, changed, clientVars>>

-----------------------------------------------------------------------------
(* A broadcast task. *)

StateOf(uuid) == streams[clients[uuid]].state

Delivered(s, msg) == [streams EXCEPT ![s].got = Append(@, msg)]

Without(f, uuid) == [u \in DOMAIN f \ {uuid} |-> f[u]]

BroadcastKeys(m) ==
  /\ casts[m].pc = "keys" /\ lock = <<>>
  /\ casts' = [casts EXCEPT ![m].pc = "send", ![m].todo = DOMAIN clients]
  /\ UNCHANGED <<sent, receiverVars, bufferVars, sender, clientVars>>

\* The mutex is held while the send is pending, so a stalled peer holds it.
BroadcastStalls(m, uuid) ==
  /\ casts[m].pc = "send" /\ uuid \in casts[m].todo \cap DOMAIN clients
  /\ lock = <<>>
  /\ StateOf(uuid) = "stalled"
  /\ lock' = <<m, uuid>>
  /\ UNCHANGED <<sent, receiverVars, bufferVars, sender, casts, clients, streams>>

\* Faulty variant: the client stays on the list after the send.
BroadcastSendsAgain(m, uuid) ==
  /\ casts[m].pc = "send" /\ uuid \in casts[m].todo
  /\ lock = <<>>
  /\ uuid \in DOMAIN clients /\ StateOf(uuid) = "ok"
  /\ Len(streams[clients[uuid]].got) < 2
  /\ streams' = Delivered(clients[uuid], m)
  /\ UNCHANGED <<sent, receiverVars, bufferVars, sender, casts, clients, lock>>

BroadcastSends(m, uuid) ==
  /\ casts[m].pc = "send" /\ uuid \in casts[m].todo
  /\ lock \in {<<>>, <<m, uuid>>}
  /\ uuid \in DOMAIN clients => StateOf(uuid) # "stalled"
  /\ LET reached == uuid \in DOMAIN clients /\ StateOf(uuid) = "ok"
         failed == uuid \in DOMAIN clients /\ StateOf(uuid) = "broken"
     IN /\ streams' = IF reached THEN Delivered(clients[uuid], m) ELSE streams
        /\ casts' = [casts EXCEPT ![m].todo = @ \ {uuid},
                                  ![m].failed = IF failed THEN @ \cup {uuid} ELSE @]
  /\ lock' = <<>>
  /\ UNCHANGED <<sent, receiverVars, bufferVars, sender, clients>>

\* All clients served: one lock for the clean-up of the failed ones.
BroadcastCleans(m) ==
  /\ casts[m].pc = "send" /\ casts[m].todo = {} /\ lock = <<>>
  /\ casts' = [casts EXCEPT ![m].pc = "clean"]
  /\ lock' = <<m>>
  /\ UNCHANGED <<sent, receiverVars, bufferVars, sender, clients, streams>>

(***************************************************************************)
(* unsubscribe_impl of one failed uuid: Close is written first, and only   *)
(* if that works is the client removed.  The stream it finds may be a      *)
(* newer one than the stream that failed.                                  *)
(***************************************************************************)
\* Faulty variant: the client is told but not removed.
UnsubscribeImplKeeps(uuid) ==
  /\ UNCHANGED clients
  /\ streams' = IF uuid \in DOMAIN clients /\ StateOf(uuid) = "ok"
                  THEN Delivered(clients[uuid], CloseMsg) ELSE streams

UnsubscribeImpl(uuid) ==
  IF uuid \in DOMAIN clients /\ StateOf(uuid) = "ok"
    THEN /\ streams' = Delivered(clients[uuid], CloseMsg)
         /\ clients' = Without(clients, uuid)
    ELSE UNCHANGED <<clients, streams>>

BroadcastDropsFailed(m, uuid) ==
  /\ casts[m].pc = "clean" /\ uuid \in casts[m].failed
  /\ uuid \in DOMAIN clients => StateOf(uuid) # "stalled"
  /\ UnsubscribeImpl(uuid)
  /\ casts' = [casts EXCEPT ![m].failed = @ \ {uuid}]
  /\ UNCHANGED <<sent, receiverVars, bufferVars, sender, lock>>

\* Faulty variant: the mutex is not given back.
BroadcastEndsLocked(m) ==
  /\ casts[m].pc = "clean" /\ casts[m].failed = {}
  /\ casts' = [casts EXCEPT ![m].pc = "ended"]
  /\ UNCHANGED <<sent, receiverVars, bufferVars, sender, clientVars>>

BroadcastEnds(m) ==
  /\ casts[m].pc = "clean" /\ casts[m].failed = {}
  /\ casts' = [casts EXCEPT ![m].pc = "ended"]
  /\ lock' = <<>>
  /\ UNCHANGED <<sent, receiverVars, bufferVars, sender, clients, streams>>

Broadcast(m) ==
  \/ BroadcastKeys(m)
  \/ BroadcastCleans(m)
  \/ BroadcastEnds(m)
  \/ \E uuid \in Uuids :
       BroadcastStalls(m, uuid) \/ BroadcastSends(m, uuid) \/ BroadcastDropsFailed(m, uuid)

-----------------------------------------------------------------------------
(* Calls of the server, and what clients do with their connections. *)

\* A stream is dropped by the server when another one takes its place.
Subscribe(uuid) ==
  /\ lock = <<>> /\ Len(streams) < MaxStreams
  /\ streams' = Append(streams, [state |-> "ok", got |-> <<>>])
  /\ clients' = [u \in DOMAIN clients \cup {uuid} |->
                   IF u = uuid THEN Len(streams) + 1 ELSE clients[u]]
  /\ UNCHANGED <<sent, receiverVars, bufferVars, sender, casts, lock>>

(***************************************************************************)
(* unsubscribe and unsubscribe_all write Close with the mutex held; on a   *)
(* stalled stream they wait with it.                                       *)
(***************************************************************************)
UnsubscribeStalls(uuid) ==
  /\ lock = <<>>
  /\ uuid \in DOMAIN clients /\ StateOf(uuid) = "stalled"
  /\ lock' = <<CloseMsg, uuid>>
  /\ UNCHANGED <<sent, receiverVars, bufferVars, sender, casts, clients, streams>>

Unsubscribe(uuid) ==
  /\ lock \in {<<>>, <<CloseMsg, uuid>>}
  /\ uuid \in DOMAIN clients /\ StateOf(uuid) # "stalled"
  /\ UnsubscribeImpl(uuid)
  /\ lock' = <<>>
  /\ UNCHANGED <<sent, receiverVars, bufferVars, sender, casts>>

UnsubscribeAllStalls ==
  /\ lock = <<>>
  /\ \E u \in DOMAIN clients : StateOf(u) = "stalled"
  /\ lock' = <<CloseMsg>>
  /\ UNCHANGED <<sent, receiverVars, bufferVars, sender, casts, clients, streams>>

(***************************************************************************)
(* unsubscribe_all drains the clients and writes Close to each, in HashMap *)
(* order, until a write fails.                                             *)
(***************************************************************************)
UnsubscribeAll ==
  /\ lock \in {<<>>, <<CloseMsg>>} /\ DOMAIN clients # {}
  /\ \A u \in DOMAIN clients : StateOf(u) # "stalled"
  /\ LET live == {u \in DOMAIN clients : StateOf(u) = "ok"}
     IN \E told \in IF live = DOMAIN clients THEN {live} ELSE SUBSET live :
          streams' = [s \in DOMAIN streams |->
                        IF \E u \in told : clients[u] = s
                          THEN [streams[s] EXCEPT !.got = Append(@, CloseMsg)]
                          ELSE streams[s]]
  /\ clients' = <<>>
  /\ lock' = <<>>
  /\ UNCHANGED <<sent, receiverVars, bufferVars, sender, casts>>

PeerCloses(s) ==
  /\ streams[s].state # "broken"
  /\ streams' = [streams EXCEPT ![s].state = "broken"]
  /\ UNCHANGED <<sent, receiverVars, bufferVars, sender, casts, clients, lock>>

PeerStalls(s) ==
  /\ Stalls /\ streams[s].state = "ok"
  /\ streams' = [streams EXCEPT ![s].state = "stalled"]
  /\ UNCHANGED <<sent, receiverVars, bufferVars, sender, casts, clients, lock>>

PeerReads(s) ==
  /\ streams[s].state = "stalled"
  /\ streams' = [streams EXCEPT ![s].state = "ok"]
  /\ UNCHANGED <<sent, receiverVars, bufferVars, sender, casts, clients, lock>>

Next ==
  \/ CoreSends \/ CoreDrops
  \/ Receive \/ ReceiverEnds \/ Store \/ Wake
  \/ SenderWakes \/ SenderPops
  \/ \E m \in DOMAIN casts : Broadcast(m)
  \/ \E uuid \in Uuids :
       Subscribe(uuid) \/ Unsubscribe(uuid) \/ UnsubscribeStalls(uuid)
  \/ UnsubscribeAll \/ UnsubscribeAllStalls
  \/ \E s \in DOMAIN streams : PeerCloses(s) \/ PeerStalls(s) \/ PeerReads(s)

Spec == Init /\ [][Next]_vars

(***************************************************************************)
(* The tasks run on tokio's scheduler, which polls a task again after it   *)
(* was woken.  Nothing is assumed of the core, the server and the peers.   *)
(***************************************************************************)
TaskFairness ==
  /\ WF_vars(Receive) /\ WF_vars(Store) /\ WF_vars(Wake)
  /\ WF_vars(SenderWakes) /\ WF_vars(SenderPops)

FairSpec == Spec /\ TaskFairness

\* The same for the broadcast tasks.
CastFairness == \A m \in Msgs : WF_vars(m \in DOMAIN casts /\ Broadcast(m))

FairCastSpec == FairSpec /\ CastFairness

-----------------------------------------------------------------------------
(* Properties. *)

\* The shapes of the tasks, the buffer, the clients and their streams.
TypeOK ==
  /\ sent \in 0..MaxMsgs /\ inbox \in Seq(Msgs) /\ open \in BOOLEAN
  /\ recv \in [pc : {"recv", "store", "wake", "ended"}, msg : Msgs \cup {None}]
  /\ buf \in [{0, 1} -> Msgs \cup {None}] /\ idx \in {0, 1} /\ changed \in BOOLEAN
  /\ sender \in {"wait", "pop"}
  /\ DOMAIN casts \subseteq Msgs
  /\ casts \in [DOMAIN casts -> [pc : {"keys", "send", "clean", "ended"},
                                 todo : SUBSET Uuids, failed : SUBSET Uuids]]
  /\ DOMAIN clients \subseteq Uuids
  /\ clients \in [DOMAIN clients -> DOMAIN streams]
  /\ streams \in Seq([state : {"ok", "stalled", "broken"}, got : Seq(Msgs \cup {CloseMsg})])

(***************************************************************************)
(* The two elements of StateBuf are one register that holds the newest     *)
(* message: pop, which flips the index even when it finds nothing, never   *)
(* strands a message in the other element, and no broadcast starts for a   *)
(* message older than one already on its way.                              *)
(***************************************************************************)
BufferIsLatestRegister ==
  /\ buf[1 - idx] = None
  /\ \A m \in DOMAIN casts : buf[idx] # None => m < buf[idx]
  /\ \A m \in DOMAIN casts \cup {buf[0], buf[1]} :
       recv.pc = "store" => m < recv.msg

(***************************************************************************)
(* No stream is sent the same message twice, however the broadcasts, the   *)
(* reconnections and the clean-ups interleave.                             *)
(***************************************************************************)
AtMostOnce ==
  \A s \in DOMAIN streams : \A i, j \in DOMAIN streams[s].got :
    i < j /\ streams[s].got[i] = streams[s].got[j] => streams[s].got[i] = CloseMsg

(***************************************************************************)
(* Close is the last thing that a stream gets from the Notifier: a         *)
(* broadcast that has already listed the client finds it removed.          *)
(***************************************************************************)
NothingAfterClose ==
  \A s \in DOMAIN streams : \A i \in DOMAIN streams[s].got :
    streams[s].got[i] = CloseMsg => i = Len(streams[s].got)

(***************************************************************************)
(* No lost wake-up: whatever the core sends, that message or a newer one   *)
(* is broadcast, also when the core drops its end right afterwards.        *)
(***************************************************************************)
NewestIsBroadcast ==
  \A m \in Msgs : (sent >= m) ~> (\E k \in DOMAIN casts : k >= m)

(***************************************************************************)
(* As long as peers read, every broadcast comes to its end: the mutex is   *)
(* always given back, and a client that fails, leaves or comes back while  *)
(* it is served does not hold the broadcast up.                            *)
(***************************************************************************)
BroadcastsEnd ==
  \A m \in Msgs : (m \in DOMAIN casts) ~> (m \in DOMAIN casts /\ casts[m].pc = "ended")
=============================================================================
