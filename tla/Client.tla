------------------------------- MODULE Client -------------------------------
(***************************************************************************)
(* src/lib.rs and the Subscriber of src/notifier.rs: the client library.   *)
(* A call of NkvClient opens a connection of its own and waits for one     *)
(* response.  subscribe starts two tasks and returns: the Subscriber keeps *)
(* a connection to the server, reads messages and puts each into a watch   *)
(* channel, which holds the newest only; the other task hands what it      *)
(* finds there to the user's handler.                                      *)
(*                                                                         *)
(* The server is the environment, as module Server describes it: a key has *)
(* a Notifier with one stream for this client, where a new one replaces    *)
(* the old one.  Its messages are numbered in the order in which they come *)
(* to be, the start of a Notifier included: they are the news of a key.    *)
(***************************************************************************)
EXTENDS Naturals, Sequences

CONSTANTS
  Keys,        \* the keys that are subscribed to
  MaxNews,     \* bound: news of a key, after which nobody changes it
  MaxFaults,   \* bound: lost connections and ends of the server
  MaxSubs,     \* bound: Subscribers
  Unreadable   \* the news whose message does not parse: an empty value

ASSUME BoundsAssumption == MaxNews \in Nat \ {0} /\ MaxFaults \in Nat /\ MaxSubs \in Nat
ASSUME UnreadableAssumption == Unreadable \subseteq Nat \ {0}

VARIABLES
  subscriptions,  \* the keys of the client's map subscriptions
  subscribers,    \* the pairs of tasks that subscribe has started
  call,           \* the request that the user waits for, or Nothing
  answer,         \* what the last call returned
  up,             \* the server runs
  news,           \* the number of the newest news of each key
  notifiers,      \* the server's Notifiers: [live, newest, stream]
  faults          \* how many faults there were

tasks == <<subscriptions, subscribers>>
user == <<call, answer>>
server == <<up, news, notifiers, faults>>
vars == <<tasks, user, server>>

Nothing == [op |-> "none"]

Running == DOMAIN subscribers

\* A Subscriber that has not connected, and its handler's task.
NewSubscriber(key) ==
  [key |-> key,
   pc |-> "connect",    \* "connect", "reads" or "sleeps"
   joined |-> FALSE,    \* the server has taken its SUB
   inbox |-> <<>>,      \* the messages in the connection
   sent |-> 0,          \* the newest that the server has sent there
   closed |-> FALSE,    \* the server's end of the connection is closed
   value |-> 0,         \* in the watch channel; 0 is Hello
   changed |-> FALSE,   \* the watch channel was sent to since changed() returned
   handler |-> "waits", \* "waits" for changed() or "borrows" the value
   handled |-> 0]       \* what the handler was called with last

Init ==
  /\ subscriptions = {} /\ subscribers = <<>>
  /\ call = Nothing /\ answer = "none"
  /\ up = TRUE /\ news = [key \in Keys |-> 0] /\ notifiers = <<>> /\ faults = 0

-----------------------------------------------------------------------------
(* The calls of the user, one at a time; a panic ends the user's task. *)

Free == call = Nothing /\ answer # "panic"

Started(key) ==
  /\ Len(subscribers) < MaxSubs
  /\ subscribers' = Append(subscribers, NewSubscriber(key))
  /\ subscriptions' = subscriptions \cup {key}
  /\ answer' = "ok"

\* Faulty variant: subscribe does not look whether the key is subscribed to.
SubscribeAlways(key) ==
  /\ Free
  /\ Started(key)
  /\ UNCHANGED <<call, server>>

\* "we subscribe only once during client lifetime"
Subscribe(key) ==
  /\ Free
  /\ IF key \in subscriptions THEN answer' = "failed" /\ UNCHANGED tasks ELSE Started(key)
  /\ UNCHANGED <<call, server>>

\* No request for a key that is not in the map.
UnsubscribeLocally(key) ==
  /\ Free /\ key \notin subscriptions
  /\ answer' = "failed"
  /\ UNCHANGED <<tasks, call, server>>

\* send_request connects, an error if nobody listens, and writes.
SendRequest(request) ==
  /\ Free
  /\ IF up THEN call' = request /\ UNCHANGED answer
           ELSE answer' = "error" /\ UNCHANGED call
  /\ UNCHANGED <<tasks, server>>

\* The key stays in the map, so that it is never subscribed to again.
Unsubscribe(key) == key \in subscriptions /\ SendRequest([op |-> "unsubscribe", key |-> key])

\* get, put, delete, trace, health and version.
Request == SendRequest([op |-> "other"])

\* A response that does not parse is an error, the end of the stream a panic.
Returns(result) ==
  /\ call' = Nothing
  /\ answer' = result
  /\ UNCHANGED tasks

ConnectionLost ==
  /\ call # Nothing /\ ~up
  /\ \E result \in {"error", "panic"} : Returns(result)
  /\ UNCHANGED server

-----------------------------------------------------------------------------
(* The Subscriber. *)

\* Faulty variant: start returns after an attempt that failed.
DisconnectedForGood(s, pc) ==
  [subscribers[s] EXCEPT !.pc = IF pc = "sleeps" THEN "ended" ELSE pc,
                         !.joined = FALSE, !.inbox = <<>>, !.sent = 0, !.closed = FALSE]

\* What an attempt leaves of the last connection: nothing.
Disconnected(s, pc) ==
  [subscribers[s] EXCEPT !.pc = pc, !.joined = FALSE, !.inbox = <<>>, !.sent = 0, !.closed = FALSE]

Connects(s) ==
  /\ subscribers[s].pc = "connect"
  /\ subscribers' = [subscribers EXCEPT ![s] = Disconnected(s, IF up THEN "reads" ELSE "sleeps")]
  /\ UNCHANGED <<subscriptions, user, server>>

\* The watch channel takes a message; what does not parse is logged.
Received(sub, msg) ==
  IF msg \in Unreadable THEN sub ELSE [sub EXCEPT !.value = msg, !.changed = TRUE]

\* Faulty variant: every message is parsed in a task of its own.
ReadsAny(s) ==
  LET inbox == subscribers[s].inbox
  IN /\ subscribers[s].pc = "reads"
     /\ \E i \in DOMAIN inbox :
          subscribers' = [subscribers EXCEPT
            ![s] = [Received(@, inbox[i]) EXCEPT
                      !.inbox = SubSeq(inbox, 1, i - 1) \o SubSeq(inbox, i + 1, Len(inbox))]]
     /\ UNCHANGED <<subscriptions, user, server>>

Reads(s) ==
  LET inbox == subscribers[s].inbox
  IN /\ subscribers[s].pc = "reads" /\ inbox # <<>>
     /\ subscribers' = [subscribers EXCEPT
          ![s] = [Received(@, Head(inbox)) EXCEPT !.inbox = Tail(inbox)]]
     /\ UNCHANGED <<subscriptions, user, server>>

\* The end of the stream, after the messages that came before it.
FindsEnd(s) ==
  /\ subscribers[s].pc = "reads" /\ subscribers[s].closed /\ subscribers[s].inbox = <<>>
  /\ subscribers' = [subscribers EXCEPT ![s] = Disconnected(s, "sleeps")]
  /\ UNCHANGED <<subscriptions, user, server>>

Wakes(s) ==
  /\ subscribers[s].pc = "sleeps"
  /\ subscribers' = [subscribers EXCEPT ![s].pc = "connect"]
  /\ UNCHANGED <<subscriptions, user, server>>

(***************************************************************************)
(* The handler's task: changed() marks the present value as seen, and a    *)
(* newer one may come before it is borrowed, which is then handled twice.  *)
(***************************************************************************)
Changes(s) ==
  /\ subscribers[s].handler = "waits" /\ subscribers[s].changed
  /\ subscribers' = [subscribers EXCEPT ![s].changed = FALSE, ![s].handler = "borrows"]
  /\ UNCHANGED <<subscriptions, user, server>>

\* Faulty variant: a call that a newer message overtook is left out, and its mark with it.
HandlesUnlessChanged(s) ==
  /\ subscribers[s].handler = "borrows"
  /\ subscribers' = [subscribers EXCEPT
       ![s].handler = "waits", ![s].changed = FALSE,
       ![s].handled = IF subscribers[s].changed THEN @ ELSE subscribers[s].value]
  /\ UNCHANGED <<subscriptions, user, server>>

Handles(s) ==
  /\ subscribers[s].handler = "borrows"
  /\ subscribers' = [subscribers EXCEPT ![s].handler = "waits", ![s].handled = subscribers[s].value]
  /\ UNCHANGED <<subscriptions, user, server>>

-----------------------------------------------------------------------------
(* The server. *)

ClosedStreams(S) ==
  [s \in Running |-> IF s \in S THEN [subscribers[s] EXCEPT !.closed = TRUE] ELSE subscribers[s]]

\* The stream s takes the place of the streams old, and was sent the news up to sent.
Joined(s, key, n, old, sent) ==
  /\ notifiers' = [k \in DOMAIN notifiers \cup {key} |-> IF k = key THEN n ELSE notifiers[k]]
  /\ subscribers' = [ClosedStreams(old) EXCEPT ![s].joined = TRUE, ![s].sent = sent]

(***************************************************************************)
(* A SUB makes the Notifier of the key, for whose first message the stream *)
(* may come too late, or joins it and gets what comes after; a stream of   *)
(* this client that it replaces is closed.                                 *)
(***************************************************************************)
ServerJoins(s) ==
  LET key == subscribers[s].key
      newest == news[key] + 1
  IN /\ up /\ subscribers[s].pc = "reads" /\ ~subscribers[s].joined /\ ~subscribers[s].closed
     /\ IF key \notin DOMAIN notifiers
          THEN /\ news' = [news EXCEPT ![key] = newest]
               /\ \E sent \in {news[key], newest} :
                    Joined(s, key, [live |-> TRUE, newest |-> newest, stream |-> s], {}, sent)
          ELSE /\ Joined(s, key, [notifiers[key] EXCEPT !.stream = s],
                         {notifiers[key].stream}, notifiers[key].newest)
               /\ UNCHANGED news
     /\ UNCHANGED <<subscriptions, user, up, faults>>

\* Broadcasts may pass over news, and are taken to be written in order.
ServerSends(s) ==
  LET key == subscribers[s].key
  IN /\ up /\ key \in DOMAIN notifiers /\ notifiers[key].stream = s
     /\ \E msg \in subscribers[s].sent + 1..notifiers[key].newest :
          subscribers' = [subscribers EXCEPT ![s].inbox = Append(@, msg), ![s].sent = msg]
     /\ UNCHANGED <<subscriptions, user, server>>

Told(key, live) ==
  [k \in DOMAIN notifiers |->
     IF k = key /\ notifiers[k].live
       THEN [notifiers[k] EXCEPT !.live = live, !.newest = news[key] + 1] ELSE notifiers[k]]

\* Somebody puts or deletes the key; a Close is the last that its Notifier gets.
KeyChanges(key) ==
  /\ up /\ news[key] < MaxNews
  /\ news' = [news EXCEPT ![key] = @ + 1]
  /\ \E live \in BOOLEAN : notifiers' = Told(key, live)
  /\ UNCHANGED <<tasks, user, up, faults>>

\* UNSUB ends the subscription in the core with a Close, or finds none.
ServerUnsubscribes ==
  LET key == call.key
  IN /\ up /\ call.op = "unsubscribe" /\ news[key] < MaxNews
     /\ IF key \in DOMAIN notifiers /\ notifiers[key].live
          THEN /\ news' = [news EXCEPT ![key] = @ + 1]
               /\ notifiers' = Told(key, FALSE)
          ELSE UNCHANGED <<news, notifiers>>
     /\ \E result \in {"ok", "failed"} : Returns(result)
     /\ UNCHANGED <<up, faults>>

\* A request that does not parse is dropped with its connection.
ServerResponds ==
  /\ up /\ call.op = "other"
  /\ \E result \in {"ok", "failed", "error", "panic"} : Returns(result)
  /\ UNCHANGED server

ServerEnds ==
  /\ up /\ faults < MaxFaults
  /\ up' = FALSE /\ notifiers' = <<>> /\ faults' = faults + 1
  /\ subscribers' = ClosedStreams(Running)
  /\ UNCHANGED <<subscriptions, user, news>>

ServerStarts ==
  /\ ~up
  /\ up' = TRUE
  /\ UNCHANGED <<tasks, user, news, notifiers, faults>>

(***************************************************************************)
(* An error of the connection, which loses what was under way, or the      *)
(* server's clean-up after an older one of the same uuid, which does not.  *)
(***************************************************************************)
ConnectionBreaks(s) ==
  /\ subscribers[s].pc = "reads" /\ faults < MaxFaults
  /\ faults' = faults + 1
  /\ \E inbox \in {<<>>, subscribers[s].inbox} :
       subscribers' = [subscribers EXCEPT ![s].inbox = inbox, ![s].closed = TRUE]
  /\ notifiers' = [k \in DOMAIN notifiers |->
                     IF notifiers[k].stream = s THEN [notifiers[k] EXCEPT !.stream = 0] ELSE notifiers[k]]
  /\ UNCHANGED <<subscriptions, user, up, news>>

-----------------------------------------------------------------------------
Calls == Request \/ \E key \in Keys : Subscribe(key) \/ UnsubscribeLocally(key) \/ Unsubscribe(key)

Task(s) == Connects(s) \/ Reads(s) \/ FindsEnd(s) \/ Wakes(s)

Handler(s) == Changes(s) \/ Handles(s)

Next ==
  \/ Calls \/ ConnectionLost
  \/ \E s \in Running :
       Task(s) \/ Handler(s) \/ ServerJoins(s) \/ ServerSends(s) \/ ConnectionBreaks(s)
  \/ \E key \in Keys : KeyChanges(key)
  \/ ServerUnsubscribes \/ ServerResponds \/ ServerEnds \/ ServerStarts

Spec == Init /\ [][Next]_vars

(***************************************************************************)
(* tokio polls the two tasks when they can go on, sleep included.  Of the  *)
(* server it is assumed that it takes a SUB and tells a stream the newest, *)
(* which module Server shows (EveryRequestEnds, ReadersKeepUp), and that   *)
(* somebody starts it again.                                               *)
(***************************************************************************)
Fairness ==
  /\ \A s \in 1..MaxSubs :
       /\ WF_vars(s \in Running /\ Task(s))
       /\ WF_vars(s \in Running /\ Handler(s))
       /\ WF_vars(s \in Running /\ ServerJoins(s))
       /\ WF_vars(s \in Running /\ ServerSends(s))
  /\ WF_vars(ServerStarts)

FairSpec == Spec /\ Fairness

-----------------------------------------------------------------------------
(* Properties. *)

\* Every start of the server may add a Notifier and its first message.
LastNews == MaxNews + MaxFaults + 1

\* The shapes of the tasks, the user's call and the server.
TypeOK ==
  /\ subscriptions \subseteq Keys
  /\ subscribers \in Seq([key : Keys, pc : {"connect", "reads", "sleeps"}, joined : BOOLEAN,
                          inbox : Seq(1..LastNews), sent : 0..LastNews, closed : BOOLEAN,
                          value : 0..LastNews, changed : BOOLEAN,
                          handler : {"waits", "borrows"}, handled : 0..LastNews])
  /\ call = Nothing \/ call.op \in {"unsubscribe", "other"}
  /\ answer \in {"none", "ok", "failed", "error", "panic"}
  /\ up \in BOOLEAN /\ news \in [Keys -> 0..LastNews] /\ faults \in 0..MaxFaults
  /\ notifiers \in [DOMAIN notifiers -> [live : BOOLEAN, newest : 1..LastNews, stream : 0..MaxSubs]]

(***************************************************************************)
(* A handler never goes back to older news, whatever the connection, the   *)
(* server and the watch channel do: what a broken connection still held is *)
(* gone before the next one is made, and a message that overtakes the call *)
(* of the handler is only handled twice.                                   *)
(***************************************************************************)
NeverGoesBack ==
  [][\A s \in Running : subscribers'[s].handled >= subscribers[s].handled]_vars

(***************************************************************************)
(* No wake-up is lost between the two tasks of a subscription: what is in  *)
(* the watch channel was handed to the handler, or the handler's task is   *)
(* about to borrow it, or changed() has yet to return.  A message that     *)
(* comes between changed() and borrow() is the case that counts.           *)
(***************************************************************************)
NothingIsLost ==
  \A s \in Running :
    LET sub == subscribers[s]
    IN sub.handled # sub.value => sub.changed \/ sub.handler = "borrows"

(***************************************************************************)
(* After the faults have stopped, every key that the user subscribed to    *)
(* has a stream that stays, and its handler was called with the newest     *)
(* news that came: Subscribers reconnect for ever and never take each      *)
(* other's stream, and no wake-up of the handler is lost.                  *)
(***************************************************************************)
Settled(s) ==
  LET sub == subscribers[s]
  IN /\ sub.pc = "reads" /\ sub.joined /\ ~sub.closed
     /\ notifiers[sub.key].stream = s
     /\ sub.sent = notifiers[sub.key].newest /\ sub.inbox = <<>>
     /\ sub.handled = sub.value

EverythingSettles == <>[](\A s \in Running : Settled(s))
=============================================================================
