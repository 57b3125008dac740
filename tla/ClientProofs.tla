---------------------------- MODULE ClientProofs ----------------------------
(***************************************************************************)
(* That a handler never goes back to older news and misses no wake-up, for *)
(* any number of keys, Subscribers, news and faults.                       *)
(***************************************************************************)
EXTENDS Client, TLAPS

\* A Subscriber and a Notifier, but for the bounds that NewsCounted gives.
Sub == [key : Keys, pc : {"connect", "reads", "sleeps"}, joined : BOOLEAN,
        inbox : Seq(Nat), sent : Nat, closed : BOOLEAN,
        value : Nat, changed : BOOLEAN, handler : {"waits", "borrows"}, handled : Nat]

Shape ==
  /\ subscriptions \subseteq Keys
  /\ subscribers \in Seq(Sub) /\ Len(subscribers) <= MaxSubs
  /\ call = Nothing \/ call.op \in {"unsubscribe", "other"}
  /\ answer \in {"none", "ok", "failed", "error", "panic"}
  /\ up \in BOOLEAN /\ news \in [Keys -> Nat] /\ faults \in 0..MaxFaults
  /\ DOMAIN notifiers \subseteq Keys
  /\ notifiers \in [DOMAIN notifiers -> [live : BOOLEAN, newest : Nat \ {0}, stream : 0..MaxSubs]]

(***************************************************************************)
(* A Notifier is new for a key once per run of the server, and adds one to *)
(* its news then.  It knows no later news than there are.                  *)
(***************************************************************************)
NewsCounted ==
  \A key \in Keys : news[key] <= MaxNews + faults + (IF key \in DOMAIN notifiers THEN 1 ELSE 0)

NewestIsNews == \A key \in DOMAIN notifiers : notifiers[key].newest <= news[key]

\* The stream of a Notifier, if any, is a connection that is open, and of its key.
StreamsOpen ==
  \A key \in DOMAIN notifiers :
    /\ notifiers[key].stream \in Running \cup {0}
    /\ \A s \in Running :
         notifiers[key].stream = s =>
           subscribers[s].joined /\ ~subscribers[s].closed /\ subscribers[s].key = key

(***************************************************************************)
(* News move from the Notifier through the connection and the watch        *)
(* channel to the handler, and those further on are older.  The watch      *)
(* channel outlives the connection: what it holds is not newer than what   *)
(* any Notifier of its key knows, a later one included.                    *)
(***************************************************************************)
KnownBy(sub, newest) == sub.sent <= newest /\ sub.value <= newest

Ordered(sub) ==
  /\ sub.handled <= sub.value
  /\ \A i \in 1..Len(sub.inbox) : sub.value < sub.inbox[i] /\ sub.inbox[i] <= sub.sent
  /\ \A i, j \in 1..Len(sub.inbox) : i < j => sub.inbox[i] < sub.inbox[j]
  /\ IF sub.joined THEN sub.value <= sub.sent ELSE sub.inbox = <<>> /\ sub.sent = 0
  /\ sub.pc # "reads" => ~sub.joined
  /\ KnownBy(sub, news[sub.key])
  /\ sub.key \in DOMAIN notifiers => KnownBy(sub, notifiers[sub.key].newest)

\* NothingIsLost, of one Subscriber.
Woken(sub) == sub.handled # sub.value => sub.changed \/ sub.handler = "borrows"

Inv ==
  /\ Shape /\ NewsCounted /\ NewestIsNews /\ StreamsOpen
  /\ \A s \in Running : Ordered(subscribers[s]) /\ Woken(subscribers[s])

\* What NeverGoesBack says of a step.
Forward == \A s \in Running : subscribers'[s].handled >= subscribers[s].handled

\* The shape of one Subscriber, as far as the order compares it.
LEMMA HandledIsNat ==
  ASSUME Inv, NEW s \in Running
  PROVE  /\ subscribers[s] \in Sub /\ Ordered(subscribers[s]) /\ Woken(subscribers[s])
         /\ subscribers[s].handled \in Nat /\ subscribers[s].value \in Nat
         /\ subscribers[s].handled >= subscribers[s].handled
         /\ subscribers[s].value >= subscribers[s].handled
<1>1. subscribers[s] \in Sub /\ Ordered(subscribers[s]) /\ Woken(subscribers[s])
  BY DEF Inv, Shape, Running
<1>2. subscribers[s].handled \in Nat /\ subscribers[s].value \in Nat
  BY <1>1 DEF Sub
<1>3. subscribers[s].handled <= subscribers[s].value
  BY <1>1 DEF Ordered
<1> QED
  BY <1>1, <1>2, <1>3

(***************************************************************************)
(* A step of one Subscriber that leaves the server alone.                  *)
(***************************************************************************)
LEMMA OneSubscriberKeepsInv ==
  ASSUME Inv, NEW s \in Running, NEW sub \in Sub,
         subscribers' = [subscribers EXCEPT ![s] = sub],
         UNCHANGED <<subscriptions, user, server>>,
         sub.key = subscribers[s].key,
         Ordered(sub), Woken(sub), sub.handled >= subscribers[s].handled,
         subscribers[s].joined /\ ~subscribers[s].closed => sub.joined /\ ~sub.closed
  PROVE  Inv' /\ Forward
<1>1. /\ subscribers' \in Seq(Sub) /\ Len(subscribers') = Len(subscribers) /\ Running' = Running
      /\ subscribers'[s] = sub /\ \A t \in Running \ {s} : subscribers'[t] = subscribers[t]
  BY DEF Inv, Shape, Running
<1>2. Shape' /\ NewsCounted' /\ NewestIsNews'
  BY <1>1 DEF Inv, Shape, NewsCounted, NewestIsNews, user, server
<1>3. StreamsOpen'
  BY <1>1 DEF Inv, StreamsOpen, server
<1>4. \A t \in Running' : Woken(subscribers'[t])
  BY <1>1 DEF Inv
<1>5. ASSUME NEW t \in Running PROVE Ordered(subscribers[t])'
  <2>1. Ordered(subscribers'[t])
    BY <1>1 DEF Inv
  <2> QED
    BY <2>1 DEF Ordered, server
<1>6. Forward
  BY <1>1, HandledIsNat DEF Forward
<1> QED
  BY <1>1, <1>2, <1>3, <1>4, <1>5, <1>6 DEF Inv, Woken

\* A Subscriber that gives its connection up holds nothing of it.
LEMMA DisconnectedIsOrdered ==
  ASSUME Inv, NEW s \in Running, NEW pc \in {"connect", "reads", "sleeps"}
  PROVE  LET sub == Disconnected(s, pc)
         IN /\ sub \in Sub /\ sub.key = subscribers[s].key /\ Ordered(sub) /\ Woken(sub)
            /\ sub.handled >= subscribers[s].handled
<1> DEFINE old == subscribers[s]
           sub == Disconnected(s, pc)
<1>1. old \in Sub /\ Ordered(old) /\ Woken(old)
  BY DEF Inv, Shape, Running
<1>2. /\ sub \in Sub /\ sub.key = old.key /\ sub.pc = pc /\ ~sub.joined
      /\ sub.inbox = <<>> /\ sub.sent = 0 /\ sub.value = old.value
      /\ sub.handled = old.handled /\ sub.handler = old.handler /\ sub.changed = old.changed
  <2>1. sub = [old EXCEPT !.pc = pc, !.joined = FALSE, !.inbox = <<>>, !.sent = 0, !.closed = FALSE]
    BY DEF Disconnected
  <2>2. <<>> \in Seq(Nat) /\ 0 \in Nat
    OBVIOUS
  <2> HIDE DEF old, sub
  <2>3. old = [key |-> old.key, pc |-> old.pc, joined |-> old.joined, inbox |-> old.inbox,
               sent |-> old.sent, closed |-> old.closed, value |-> old.value,
               changed |-> old.changed, handler |-> old.handler, handled |-> old.handled]
    BY <1>1 DEF Sub
  <2>4. sub = [key |-> old.key, pc |-> pc, joined |-> FALSE, inbox |-> <<>>, sent |-> 0,
               closed |-> FALSE, value |-> old.value,
               changed |-> old.changed, handler |-> old.handler, handled |-> old.handled]
    BY <2>1, <2>3
  <2> QED
    BY <1>1, <2>2, <2>4 DEF Sub
<1>3. old.key \in Keys /\ news[old.key] \in Nat
      /\ \A key \in DOMAIN notifiers : notifiers[key].newest \in Nat
  BY <1>1 DEF Inv, Shape, Sub
<1> HIDE DEF old, sub
<1>4. Ordered(sub) /\ Woken(sub)
  BY <1>1, <1>2, <1>3 DEF Ordered, KnownBy, Woken
<1>5. sub.handled >= old.handled
  BY <1>2, HandledIsNat DEF old
<1> QED
  BY <1>2, <1>4, <1>5 DEF old, sub

\* The steps of the Subscriber's two tasks.
LEMMA TaskKeepsInv ==
  ASSUME Inv, NEW s \in Running, Task(s) \/ Handler(s)
  PROVE  Inv' /\ Forward
<1> DEFINE old == subscribers[s]
<1>1. old \in Sub /\ Ordered(old) /\ Woken(old) /\ old.handled >= old.handled /\ old.value >= old.handled
  BY HandledIsNat
<1>2. CASE Connects(s)
  <2>1. PICK pc \in {"connect", "reads", "sleeps"} :
          subscribers' = [subscribers EXCEPT ![s] = Disconnected(s, pc)]
    BY <1>2 DEF Connects
  <2>2. ~old.joined
    BY <1>1, <1>2 DEF Connects, Ordered
  <2> QED
    BY <1>2, <2>1, <2>2, DisconnectedIsOrdered, OneSubscriberKeepsInv DEF Connects
<1>3. CASE FindsEnd(s)
  BY <1>3, DisconnectedIsOrdered, OneSubscriberKeepsInv DEF FindsEnd
<1>4. CASE Wakes(s)
  <2> DEFINE sub == [old EXCEPT !.pc = "connect"]
  <2>1. /\ sub \in Sub /\ sub.key = old.key /\ sub.pc = "connect" /\ sub.joined = old.joined
        /\ sub.inbox = old.inbox /\ sub.sent = old.sent /\ sub.closed = old.closed
        /\ sub.value = old.value /\ sub.changed = old.changed
        /\ sub.handler = old.handler /\ sub.handled = old.handled
    BY <1>1 DEF Sub
  <2>2. subscribers' = [subscribers EXCEPT ![s] = sub] /\ ~old.joined
    BY <1>1, <1>4 DEF Wakes, Ordered
  <2> HIDE DEF sub, old
  <2>3. Ordered(sub) /\ Woken(sub)
    BY <1>1, <2>1, <2>2 DEF Ordered, KnownBy, Woken
  <2> QED
    BY <1>1, <1>4, <2>1, <2>2, <2>3, OneSubscriberKeepsInv DEF Wakes, old
<1>5. CASE Changes(s)
  <2> DEFINE sub == [old EXCEPT !.changed = FALSE, !.handler = "borrows"]
  <2>1. /\ sub \in Sub /\ sub.key = old.key /\ sub.pc = old.pc /\ sub.joined = old.joined
        /\ sub.inbox = old.inbox /\ sub.sent = old.sent /\ sub.closed = old.closed
        /\ sub.value = old.value /\ sub.handler = "borrows" /\ sub.handled = old.handled
    BY <1>1 DEF Sub
  <2>2. subscribers' = [subscribers EXCEPT ![s] = sub]
    BY <1>1, <1>5 DEF Changes
  <2> HIDE DEF sub, old
  <2>3. Ordered(sub) /\ Woken(sub)
    BY <1>1, <2>1 DEF Ordered, KnownBy, Woken
  <2> QED
    BY <1>1, <1>5, <2>1, <2>2, <2>3, OneSubscriberKeepsInv DEF Changes, old
<1>6. CASE Handles(s)
  <2> DEFINE sub == [old EXCEPT !.handler = "waits", !.handled = old.value]
  <2>1. /\ sub \in Sub /\ sub.key = old.key /\ sub.pc = old.pc /\ sub.joined = old.joined
        /\ sub.inbox = old.inbox /\ sub.sent = old.sent /\ sub.closed = old.closed
        /\ sub.value = old.value /\ sub.handled = old.value
    BY <1>1 DEF Sub
  <2>2. subscribers' = [subscribers EXCEPT ![s] = sub] /\ old.value \in Nat
    BY <1>1, <1>6 DEF Handles, Sub
  <2> HIDE DEF sub, old
  <2>3. Ordered(sub) /\ Woken(sub)
    BY <1>1, <2>1, <2>2 DEF Ordered, KnownBy, Woken
  <2> QED
    BY <1>1, <1>6, <2>1, <2>2, <2>3, OneSubscriberKeepsInv DEF Handles, old
<1>7. CASE Reads(s)
  <2> DEFINE msg == Head(old.inbox)
             rest == Tail(old.inbox)
             sub == [Received(old, msg) EXCEPT !.inbox = rest]
  <2>1. old.inbox \in Seq(Nat) /\ old.inbox # <<>>
    BY <1>1, <1>7 DEF Reads, Sub
  <2>2. /\ msg \in Nat /\ rest \in Seq(Nat) /\ Len(rest) = Len(old.inbox) - 1 /\ Len(rest) \in Nat
        /\ msg = old.inbox[1] /\ \A i \in 1..Len(rest) : rest[i] = old.inbox[i + 1]
        /\ Len(old.inbox) >= 1
    BY <2>1
  <2> HIDE DEF msg, rest
  <2>3. /\ sub \in Sub /\ sub.key = old.key /\ sub.pc = old.pc /\ sub.joined = old.joined
        /\ sub.inbox = rest /\ sub.sent = old.sent /\ sub.closed = old.closed
        /\ sub.handler = old.handler /\ sub.handled = old.handled
        /\ \/ sub.value = old.value /\ sub.changed = old.changed
           \/ sub.value = msg /\ sub.changed
    BY <1>1, <2>2 DEF Sub, Received
  <2>4. subscribers' = [subscribers EXCEPT ![s] = sub]
    BY <1>7 DEF Reads, msg, rest
  <2>5. old.key \in Keys /\ news[old.key] \in Nat /\ old.value \in Nat /\ old.sent \in Nat
        /\ old.handled \in Nat /\ \A i \in 1..Len(old.inbox) : old.inbox[i] \in Nat
        /\ \A key \in DOMAIN notifiers : notifiers[key].newest \in Nat
    <3>1. old.key \in Keys /\ old.value \in Nat /\ old.sent \in Nat /\ old.handled \in Nat
      BY <1>1 DEF Sub
    <3> HIDE DEF old
    <3> QED
      BY <2>1, <3>1 DEF Inv, Shape
  <2> HIDE DEF sub, old
  <2>6. old.joined /\ old.value < msg /\ msg <= old.sent
    BY <1>1, <2>1, <2>2 DEF Ordered
  <2>7. \A i \in 1..Len(rest) : msg < rest[i] /\ rest[i] <= old.sent /\ rest[i] \in Nat
    BY <1>1, <2>2, <2>5 DEF Ordered
  <2>8. \A i, j \in 1..Len(rest) : i < j => rest[i] < rest[j]
    BY <1>1, <2>2 DEF Ordered
  <2>9. Ordered(sub)
    <3>1. KnownBy(old, news[old.key]) /\ KnownBy(sub, news[old.key])
      BY <1>1, <2>2, <2>3, <2>5, <2>6 DEF Ordered, KnownBy
    <3>2. ASSUME old.key \in DOMAIN notifiers PROVE KnownBy(sub, notifiers[old.key].newest)
      BY <1>1, <2>2, <2>3, <2>5, <2>6, <3>2 DEF Ordered, KnownBy
    <3>3. sub.handled <= sub.value /\ sub.value <= sub.sent /\ sub.joined
      BY <1>1, <2>2, <2>3, <2>5, <2>6 DEF Ordered
    <3>4. \A i \in 1..Len(rest) : sub.value < rest[i]
      BY <2>2, <2>3, <2>5, <2>6, <2>7
    <3> QED
      BY <1>1, <2>3, <2>7, <2>8, <3>1, <3>2, <3>3, <3>4 DEF Ordered
  <2>10. Woken(sub)
    BY <1>1, <2>3 DEF Woken
  <2> QED
    BY <1>1, <1>7, <2>3, <2>4, <2>9, <2>10, OneSubscriberKeepsInv DEF Reads, old
<1> QED
  BY <1>2, <1>3, <1>4, <1>5, <1>6, <1>7 DEF Task, Handler

\* A Notifier sends news that its stream has not been sent.
LEMMA ServerSendsKeepsInv ==
  ASSUME Inv, NEW s \in Running, ServerSends(s)
  PROVE  Inv' /\ Forward
<1> DEFINE old == subscribers[s]
           newest == notifiers[old.key].newest
<1>1. old \in Sub /\ Ordered(old) /\ Woken(old)
  BY DEF Inv, Shape, Running
<1>2. old.key \in DOMAIN notifiers /\ notifiers[old.key].stream = s
  BY DEF ServerSends
<1>3. old.joined /\ newest <= news[old.key] /\ newest \in Nat /\ news[old.key] \in Nat
  BY <1>2 DEF Inv, Shape, StreamsOpen, NewestIsNews
<1>4. /\ old.inbox \in Seq(Nat) /\ old.sent \in Nat /\ old.value \in Nat /\ old.handled \in Nat
  BY <1>1 DEF Sub
<1>5. PICK msg \in old.sent + 1..newest :
        subscribers' = [subscribers EXCEPT ![s].inbox = Append(@, msg), ![s].sent = msg]
  BY DEF ServerSends
<1> DEFINE inbox == Append(old.inbox, msg)
           sub == [old EXCEPT !.inbox = inbox, !.sent = msg]
<1>8. subscribers' = [subscribers EXCEPT ![s] = sub]
  BY <1>5
<1> HIDE DEF old, newest
<1>6. /\ inbox \in Seq(Nat) /\ Len(inbox) = Len(old.inbox) + 1 /\ Len(old.inbox) \in Nat
      /\ inbox[Len(inbox)] = msg /\ msg \in Nat /\ old.sent < msg /\ msg <= newest
      /\ \A i \in 1..Len(old.inbox) : inbox[i] = old.inbox[i] /\ inbox[i] \in Nat
  <2>1. msg \in Nat /\ old.sent < msg /\ msg <= newest
    BY <1>3, <1>4
  <2> QED
    BY <1>4, <2>1
<1> HIDE DEF inbox
<1>7. /\ sub \in Sub /\ sub.key = old.key /\ sub.pc = old.pc /\ sub.joined = old.joined
      /\ sub.inbox = inbox /\ sub.sent = msg /\ sub.closed = old.closed
      /\ sub.value = old.value /\ sub.changed = old.changed
      /\ sub.handler = old.handler /\ sub.handled = old.handled
  BY <1>1, <1>6 DEF Sub
<1> HIDE DEF sub
<1>9. Ordered(sub)
  <2>1. old.value <= old.sent /\ old.handled <= old.value /\ old.pc = "reads"
    BY <1>1, <1>3 DEF Ordered
  <2>2. \A i \in 1..Len(old.inbox) : old.value < old.inbox[i] /\ old.inbox[i] <= old.sent
    BY <1>1 DEF Ordered
  <2>3. KnownBy(sub, news[sub.key]) /\ KnownBy(sub, newest)
    BY <1>3, <1>4, <1>6, <1>7, <2>1 DEF KnownBy
  <2>4. ASSUME NEW i \in 1..Len(inbox) PROVE old.value < inbox[i] /\ inbox[i] <= msg
    <3>1. CASE i = Len(inbox)
      BY <1>4, <1>6, <2>1, <3>1
    <3>2. CASE i # Len(inbox)
      <4>1. i \in 1..Len(old.inbox)
        BY <1>6, <3>2
      <4>2. old.value < inbox[i] /\ inbox[i] <= old.sent /\ inbox[i] \in Nat
        BY <1>6, <2>2, <4>1
      <4> QED
        BY <1>4, <1>6, <4>2
    <3> QED
      BY <3>1, <3>2
  <2>5. ASSUME NEW i \in 1..Len(inbox), NEW j \in 1..Len(inbox), i < j
        PROVE  inbox[i] < inbox[j]
    <3>1. i \in 1..Len(old.inbox) /\ inbox[i] <= old.sent /\ inbox[i] \in Nat
      <4>1. i \in 1..Len(old.inbox)
        BY <1>6, <2>5
      <4> QED
        BY <1>6, <2>2, <4>1
    <3>2. CASE j = Len(inbox)
      BY <1>4, <1>6, <3>1, <3>2
    <3>3. CASE j \in 1..Len(old.inbox)
      BY <1>1, <1>6, <2>5, <3>1, <3>3 DEF Ordered
    <3> QED
      BY <1>6, <3>2, <3>3
  <2> QED
    <3>1. /\ sub.handled <= sub.value /\ sub.joined /\ sub.value <= sub.sent /\ sub.pc = "reads"
          /\ \A i \in 1..Len(sub.inbox) : sub.value < sub.inbox[i] /\ sub.inbox[i] <= sub.sent
          /\ \A i, j \in 1..Len(sub.inbox) : i < j => sub.inbox[i] < sub.inbox[j]
      BY <1>3, <1>4, <1>6, <1>7, <2>1, <2>4, <2>5
    <3>2. KnownBy(sub, notifiers[sub.key].newest)
      BY <1>7, <2>3 DEF newest
    <3> QED
      BY <2>3, <3>1, <3>2 DEF Ordered
<1>10. Woken(sub)
  BY <1>1, <1>7 DEF Woken
<1> QED
  BY <1>7, <1>8, <1>9, <1>10, HandledIsNat, OneSubscriberKeepsInv DEF ServerSends, old

\* A key changes: its news go up by one, and so may what its Notifier knows.
LEMMA NewsKeepInv ==
  ASSUME Inv, NEW key, NEW live \in BOOLEAN, news' = [news EXCEPT ![key] = @ + 1],
         notifiers' = Told(key, live), key \in Keys => news[key] < MaxNews,
         UNCHANGED <<tasks, up, faults>>,
         call' = Nothing \/ call' = call, answer' \in {"none", "ok", "failed", "error", "panic"}
  PROVE  Inv' /\ Forward
<1>1. /\ DOMAIN notifiers' = DOMAIN notifiers
      /\ \A k \in DOMAIN notifiers :
           /\ notifiers'[k] \in [live : BOOLEAN, newest : Nat \ {0}, stream : 0..MaxSubs]
           /\ notifiers'[k].stream = notifiers[k].stream
           /\ \/ notifiers'[k].newest = notifiers[k].newest
              \/ k = key /\ notifiers'[k].newest = news[key] + 1
           /\ notifiers[k].newest \in Nat /\ k \in Keys
  <2>1. DOMAIN notifiers' = DOMAIN notifiers
    BY DEF Told
  <2>2. ASSUME NEW k \in DOMAIN notifiers
        PROVE  /\ notifiers[k] \in [live : BOOLEAN, newest : Nat \ {0}, stream : 0..MaxSubs]
               /\ k \in Keys /\ news[k] \in Nat
    BY DEF Inv, Shape
  <2>3. ASSUME NEW k \in DOMAIN notifiers, notifiers'[k] # notifiers[k]
        PROVE  k = key /\ notifiers'[k] = [notifiers[k] EXCEPT !.live = live, !.newest = news[key] + 1]
    BY <2>3 DEF Told
  <2>4. ASSUME NEW k \in DOMAIN notifiers
        PROVE  /\ notifiers'[k] \in [live : BOOLEAN, newest : Nat \ {0}, stream : 0..MaxSubs]
               /\ notifiers'[k].stream = notifiers[k].stream
               /\ \/ notifiers'[k].newest = notifiers[k].newest
                  \/ k = key /\ notifiers'[k].newest = news[key] + 1
    <3>1. CASE notifiers'[k] = notifiers[k]
      BY <2>2, <3>1
    <3>2. CASE notifiers'[k] # notifiers[k]
      <4>1. news[key] + 1 \in Nat \ {0} /\ k = key
        <5>1. k = key
          BY <2>3, <3>2
        <5>2. news[key] \in Nat
          BY <2>2, <5>1
        <5> QED
          BY <5>1, <5>2
      <4> QED
        BY <2>2, <2>3, <3>2, <4>1
    <3> QED
      BY <3>1, <3>2
  <2> QED
    BY <2>1, <2>2, <2>4
<1>2. /\ news' \in [Keys -> Nat]
      /\ \A k \in Keys : news'[k] = (IF k = key THEN news[k] + 1 ELSE news[k]) /\ news[k] \in Nat
  <2>1. news \in [Keys -> Nat]
    BY DEF Inv, Shape
  <2>2. CASE key \in Keys
    <3>1. news[key] + 1 \in Nat
      BY <2>1, <2>2
    <3> QED
      BY <2>1, <3>1
  <2>3. CASE key \notin Keys
    BY <2>1, <2>3
  <2> QED
    BY <2>2, <2>3
<1>3. Shape'
  <2>1. DOMAIN notifiers' \subseteq Keys
        /\ notifiers' \in [DOMAIN notifiers' -> [live : BOOLEAN, newest : Nat \ {0}, stream : 0..MaxSubs]]
    <3>1. notifiers' = [k \in DOMAIN notifiers' |-> notifiers'[k]]
      BY DEF Told
    <3> QED
      BY <1>1, <3>1
  <2> QED
    BY <1>2, <2>1 DEF Inv, Shape, tasks
<1>4. NewsCounted'
  BY <1>1, <1>2, BoundsAssumption DEF Inv, NewsCounted, Shape
<1>5. NewestIsNews'
  BY <1>1, <1>2 DEF Inv, NewestIsNews
<1>6. StreamsOpen'
  BY <1>1 DEF Inv, StreamsOpen, tasks, Running
<1>7. ASSUME NEW s \in Running PROVE (Ordered(subscribers[s]) /\ Woken(subscribers[s]))'
  <2> DEFINE sub == subscribers[s]
  <2>1. sub \in Sub /\ Ordered(sub) /\ Woken(sub) /\ subscribers' = subscribers
    BY DEF Inv, Shape, Running, tasks
  <2>2. sub.key \in Keys /\ sub.sent \in Nat /\ sub.value \in Nat
    BY <2>1 DEF Sub
  <2> HIDE DEF sub
  <2>3. KnownBy(sub, news[sub.key]) /\ KnownBy(sub, news'[sub.key])
    BY <1>2, <2>1, <2>2 DEF Ordered, KnownBy
  <2>4. ASSUME sub.key \in DOMAIN notifiers PROVE KnownBy(sub, notifiers'[sub.key].newest)
    BY <1>1, <1>2, <2>1, <2>2, <2>3, <2>4 DEF Ordered, KnownBy
  <2> QED
    BY <1>1, <2>1, <2>3, <2>4 DEF Ordered, Woken, sub
<1>8. Forward
  BY HandledIsNat DEF Forward, tasks
<1> QED
  BY <1>3, <1>4, <1>5, <1>6, <1>7, <1>8 DEF Inv, tasks, Running

(***************************************************************************)
(* A step of the server that closes connections, and changes Notifiers and *)
(* news without telling anybody: what is left of the streams stays open.   *)
(***************************************************************************)
LEMMA ClosedStreamsTyped ==
  ASSUME Inv, NEW S
  PROVE  /\ ClosedStreams(S) \in Seq(Sub) /\ Len(ClosedStreams(S)) = Len(subscribers)
         /\ DOMAIN ClosedStreams(S) = Running
         /\ \A s \in Running :
              LET sub == ClosedStreams(S)[s]
              IN /\ sub = IF s \in S THEN [subscribers[s] EXCEPT !.closed = TRUE] ELSE subscribers[s]
                 /\ sub \in Sub
<1>1. \A s \in Running : subscribers[s] \in Sub /\ [subscribers[s] EXCEPT !.closed = TRUE] \in Sub
  <2>1. \A s \in Running : subscribers[s] \in Sub
    BY DEF Inv, Shape, Running
  <2> QED
    BY <2>1 DEF Sub
<1>2. ClosedStreams(S) \in [Running -> Sub]
  BY <1>1 DEF ClosedStreams
<1>3. Running = 1..Len(subscribers) /\ Len(subscribers) \in Nat
  BY DEF Inv, Shape, Running
<1> QED
  BY <1>1, <1>2, <1>3 DEF ClosedStreams

\* A connection that is closed changes nothing of the order.
LEMMA ClosingKeepsOrder ==
  ASSUME NEW sub \in Sub, Ordered(sub), Woken(sub)
  PROVE  LET closed == [sub EXCEPT !.closed = TRUE]
         IN /\ Ordered(closed) /\ Woken(closed) /\ closed.key = sub.key /\ closed.sent = sub.sent
            /\ closed.value = sub.value /\ closed.joined = sub.joined /\ closed.inbox = sub.inbox
            /\ closed.pc = sub.pc /\ closed.handled = sub.handled
<1> DEFINE closed == [sub EXCEPT !.closed = TRUE]
<1>1. /\ closed.key = sub.key /\ closed.pc = sub.pc /\ closed.joined = sub.joined
      /\ closed.inbox = sub.inbox /\ closed.sent = sub.sent
      /\ closed.value = sub.value /\ closed.changed = sub.changed
      /\ closed.handler = sub.handler /\ closed.handled = sub.handled
  BY DEF Sub
<1> HIDE DEF closed
<1>2. Ordered(closed) /\ Woken(closed)
  BY <1>1 DEF Ordered, KnownBy, Woken
<1> QED
  BY <1>1, <1>2 DEF closed

\* The end of the server closes every stream and forgets every Notifier; each Subscriber keeps what it has.
LEMMA ServerEndsKeepsInv ==
  ASSUME Inv, ServerEnds
  PROVE  Inv' /\ Forward
<1>1. /\ subscribers' = ClosedStreams(Running) /\ DOMAIN notifiers' = {} /\ notifiers' = <<>>
      /\ news' = news /\ faults' = faults + 1 /\ faults < MaxFaults /\ up' = FALSE
      /\ subscriptions' = subscriptions /\ call' = call /\ answer' = answer
  BY DEF ServerEnds, user
<1>2. faults \in Nat /\ faults' \in 0..MaxFaults
  BY <1>1, BoundsAssumption DEF Inv, Shape
<1>3. Shape'
  <2>1. subscribers' \in Seq(Sub) /\ Len(subscribers') = Len(subscribers)
    BY <1>1, ClosedStreamsTyped
  <2>2. notifiers' \in [{} -> [live : BOOLEAN, newest : Nat \ {0}, stream : 0..MaxSubs]]
    BY <1>1
  <2> QED
    BY <1>1, <1>2, <2>1, <2>2 DEF Inv, Shape
<1>4. NewsCounted'
  <2> SUFFICES ASSUME NEW key \in Keys PROVE news[key] <= MaxNews + faults + 1
    BY <1>1, <1>2, BoundsAssumption DEF NewsCounted
  <2>1. news[key] \in Nat
    BY DEF Inv, Shape
  <2>2. news[key] <= MaxNews + faults + 1 \/ news[key] <= MaxNews + faults + 0
    BY DEF Inv, NewsCounted
  <2> QED
    BY <1>2, <2>1, <2>2, BoundsAssumption
<1>5. NewestIsNews' /\ StreamsOpen'
  BY <1>1 DEF NewestIsNews, StreamsOpen
<1>6. ASSUME NEW s \in Running PROVE (Ordered(subscribers[s]) /\ Woken(subscribers[s]))'
  <2>1. subscribers[s] \in Sub /\ Ordered(subscribers[s]) /\ Woken(subscribers[s])
    BY DEF Inv, Shape, Running
  <2>2. subscribers'[s] = [subscribers[s] EXCEPT !.closed = TRUE]
    BY <1>1, ClosedStreamsTyped
  <2>3. Ordered(subscribers'[s]) /\ Woken(subscribers'[s])
    BY <2>1, <2>2, ClosingKeepsOrder
  <2> QED
    BY <1>1, <2>3 DEF Ordered, Woken
<1>7. Running' = Running
  BY <1>1, ClosedStreamsTyped DEF Running
<1>8. Forward
  <2> SUFFICES ASSUME NEW s \in Running PROVE subscribers'[s].handled >= subscribers[s].handled
    BY DEF Forward
  <2>1. subscribers'[s] = [subscribers[s] EXCEPT !.closed = TRUE]
    BY <1>1, ClosedStreamsTyped
  <2> QED
    BY <2>1, HandledIsNat, ClosingKeepsOrder
<1> QED
  BY <1>3, <1>4, <1>5, <1>6, <1>7, <1>8 DEF Inv

\* A broken connection may lose the messages in it, never those a Subscriber has read.
LEMMA ConnectionBreaksKeepsInv ==
  ASSUME Inv, NEW s \in Running, ConnectionBreaks(s)
  PROVE  Inv' /\ Forward
<1> DEFINE old == subscribers[s]
<1>1. old \in Sub /\ Ordered(old) /\ Woken(old)
  BY DEF Inv, Shape, Running
<1>2. PICK inbox \in {<<>>, old.inbox} :
        subscribers' = [subscribers EXCEPT ![s].inbox = inbox, ![s].closed = TRUE]
  BY DEF ConnectionBreaks
<1> DEFINE sub == [old EXCEPT !.inbox = inbox, !.closed = TRUE]
<1>3. subscribers' = [subscribers EXCEPT ![s] = sub]
  BY <1>2
<1>4. inbox \in Seq(Nat)
  <2>1. old.inbox \in Seq(Nat) /\ <<>> \in Seq(Nat)
    BY <1>1 DEF Sub
  <2> QED
    BY <2>1
<1>5. /\ sub \in Sub /\ sub.key = old.key /\ sub.pc = old.pc /\ sub.joined = old.joined
      /\ sub.inbox = inbox /\ sub.sent = old.sent
      /\ sub.value = old.value /\ sub.changed = old.changed
      /\ sub.handler = old.handler /\ sub.handled = old.handled
  BY <1>1, <1>4 DEF Sub
<1>6. /\ subscribers' \in Seq(Sub) /\ Len(subscribers') = Len(subscribers) /\ Running' = Running
      /\ subscribers'[s] = sub /\ \A t \in Running \ {s} : subscribers'[t] = subscribers[t]
  BY <1>3, <1>5 DEF Inv, Shape, Running
<1> HIDE DEF sub, old
<1>7. Ordered(sub) /\ Woken(sub)
  BY <1>1, <1>5 DEF Ordered, KnownBy, Woken
<1>8. /\ DOMAIN notifiers' = DOMAIN notifiers
      /\ \A k \in DOMAIN notifiers :
           /\ notifiers'[k] \in [live : BOOLEAN, newest : Nat \ {0}, stream : 0..MaxSubs]
           /\ notifiers'[k].newest = notifiers[k].newest
           /\ IF notifiers[k].stream = s THEN notifiers'[k].stream = 0
                                         ELSE notifiers'[k].stream = notifiers[k].stream
  <2>1. notifiers' = [k \in DOMAIN notifiers |->
          IF notifiers[k].stream = s THEN [notifiers[k] EXCEPT !.stream = 0] ELSE notifiers[k]]
    BY DEF ConnectionBreaks
  <2>2. \A k \in DOMAIN notifiers :
          notifiers[k] \in [live : BOOLEAN, newest : Nat \ {0}, stream : 0..MaxSubs]
    BY DEF Inv, Shape
  <2>3. 0 \in 0..MaxSubs
    BY BoundsAssumption
  <2> QED
    BY <2>1, <2>2, <2>3
<1>9. /\ subscriptions' = subscriptions /\ call' = call /\ answer' = answer /\ up' = up
      /\ news' = news /\ faults' = faults + 1 /\ faults \in Nat /\ faults' \in 0..MaxFaults
      /\ notifiers' = [k \in DOMAIN notifiers' |-> notifiers'[k]]
  BY BoundsAssumption DEF ConnectionBreaks, user, Inv, Shape
<1>10. Shape'
  BY <1>6, <1>8, <1>9 DEF Inv, Shape
<1>11. NewsCounted'
  <2>1. \A key \in Keys : news[key] \in Nat
    BY DEF Inv, Shape
  <2> QED
    BY <1>8, <1>9, <2>1, BoundsAssumption DEF Inv, NewsCounted
<1>12. NewestIsNews'
  BY <1>8, <1>9 DEF Inv, NewestIsNews
<1>13. StreamsOpen'
  <2> SUFFICES ASSUME NEW key \in DOMAIN notifiers, NEW t \in Running, notifiers'[key].stream = t
               PROVE  subscribers'[t].joined /\ ~subscribers'[t].closed /\ subscribers'[t].key = key
    BY <1>6, <1>8 DEF Inv, StreamsOpen
  <2>1. t # 0 /\ s # 0
    BY DEF Running, Inv, Shape
  <2>2. notifiers[key].stream = t /\ t # s
    BY <1>8, <2>1
  <2> QED
    BY <1>6, <2>2 DEF Inv, StreamsOpen
<1>14. ASSUME NEW t \in Running PROVE (Ordered(subscribers[t]) /\ Woken(subscribers[t]))'
  <2>1. Ordered(subscribers'[t]) /\ Woken(subscribers'[t])
    BY <1>6, <1>7 DEF Inv
  <2> QED
    BY <1>8, <1>9, <2>1 DEF Ordered, Woken
<1>15. Forward
  BY <1>5, <1>6, HandledIsNat DEF Forward, old
<1> QED
  BY <1>6, <1>10, <1>11, <1>12, <1>13, <1>14, <1>15 DEF Inv

(***************************************************************************)
(* A SUB arrives.  A new Notifier starts above all the news so far, and an *)
(* old one knows at least what the Subscriber has read: in both cases what *)
(* is sent now is newer than what the watch channel holds.                 *)
(***************************************************************************)
LEMMA ServerJoinsKeepsInv ==
  ASSUME Inv, NEW s \in Running, ServerJoins(s)
  PROVE  Inv' /\ Forward
<1> DEFINE old == subscribers[s]
           key == old.key
           new == key \notin DOMAIN notifiers
           n == IF new THEN [live |-> TRUE, newest |-> news[key] + 1, stream |-> s]
                       ELSE [notifiers[key] EXCEPT !.stream = s]
           S == IF new THEN {} ELSE {notifiers[key].stream}
<1>1. old \in Sub /\ Ordered(old) /\ Woken(old) /\ key \in Keys
  <2>1. old \in Sub /\ Ordered(old) /\ Woken(old)
    BY DEF Inv, Shape, Running
  <2> QED
    BY <2>1 DEF Sub
<1>2. /\ old.pc = "reads" /\ ~old.joined /\ ~old.closed
      /\ up' = up /\ faults' = faults /\ subscriptions' = subscriptions
      /\ call' = call /\ answer' = answer
  BY DEF ServerJoins, user
<1>3. PICK sent :
        /\ sent \in IF new THEN {news[key], news[key] + 1} ELSE {n.newest}
        /\ news' = IF new THEN [news EXCEPT ![key] = news[key] + 1] ELSE news
        /\ notifiers' = [k \in DOMAIN notifiers \cup {key} |-> IF k = key THEN n ELSE notifiers[k]]
        /\ subscribers' = [ClosedStreams(S) EXCEPT ![s].joined = TRUE, ![s].sent = sent]
  <2>1. CASE new
    <3>1. PICK sent \in {news[key], news[key] + 1} : Joined(s, key, n, S, sent)
      BY <2>1 DEF ServerJoins
    <3>2. news' = [news EXCEPT ![key] = news[key] + 1]
      BY <2>1 DEF ServerJoins
    <3> HIDE DEF key, new, n, S
    <3> QED
      BY <2>1, <3>1, <3>2 DEF Joined
  <2>2. CASE ~new
    <3>1. Joined(s, key, n, S, n.newest)
      <4>1. key \in DOMAIN notifiers => n.newest = notifiers[key].newest
        BY DEF Inv, Shape
      <4> QED
        BY <2>2, <4>1 DEF ServerJoins
    <3>2. news' = news
      BY <2>2 DEF ServerJoins
    <3> HIDE DEF key, new, n, S
    <3> QED
      BY <2>2, <3>1, <3>2 DEF Joined
  <2> QED
    BY <2>1, <2>2
<1>4. /\ \A k \in Keys : news[k] \in Nat
      /\ news \in [Keys -> Nat]
      /\ s \in 1..MaxSubs
      /\ \A k \in DOMAIN notifiers :
           /\ notifiers[k] \in [live : BOOLEAN, newest : Nat \ {0}, stream : 0..MaxSubs]
           /\ notifiers[k].newest <= news[k] /\ notifiers[k].newest \in Nat /\ k \in Keys
  <2>1. s \in 1..Len(subscribers) /\ Len(subscribers) \in Nat /\ Len(subscribers) <= MaxSubs /\ MaxSubs \in Nat
    BY BoundsAssumption DEF Inv, Shape, Running
  <2>2. s \in 1..MaxSubs
    BY <2>1
  <2> QED
    BY <2>2 DEF Inv, Shape, NewestIsNews
<1>5. /\ DOMAIN notifiers' = DOMAIN notifiers \cup {key}
      /\ notifiers'[key] = n /\ \A k \in DOMAIN notifiers \ {key} : notifiers'[k] = notifiers[k]
      /\ notifiers' = [k \in DOMAIN notifiers' |-> notifiers'[k]]
  BY <1>3
\* The stream that is replaced is not this one, and no other Notifier has it.
<1>6. /\ s \notin S
      /\ \A k \in DOMAIN notifiers \ {key} : notifiers[k].stream \notin S \/ notifiers[k].stream \notin Running
      /\ \A k \in DOMAIN notifiers : notifiers[k].stream # s
  <2>1. \A k \in DOMAIN notifiers : notifiers[k].stream # s
    BY <1>2 DEF Inv, StreamsOpen
  <2>2. \A k \in DOMAIN notifiers \ {key} : notifiers[k].stream \in Running =>
          new \/ notifiers[k].stream # notifiers[key].stream
    BY DEF Inv, StreamsOpen
  <2> QED
    BY <1>3, <2>1, <2>2
<1>7. /\ n \in [live : BOOLEAN, newest : Nat \ {0}, stream : 0..MaxSubs]
      /\ n.stream = s /\ news'[key] \in Nat /\ n.newest \in Nat
      /\ n.newest <= news'[key] /\ news[key] <= news'[key]
      /\ sent \in Nat /\ sent <= n.newest /\ old.value <= sent /\ old.value \in Nat
  <2>1. CASE new
    <3>1. n = [live |-> TRUE, newest |-> news[key] + 1, stream |-> s] /\ news'[key] = news[key] + 1
      BY <1>1, <1>3, <1>4, <2>1
    <3>2. sent \in {news[key], news[key] + 1}
      BY <1>1, <1>3, <1>4, <2>1
    <3>3. old.value \in Nat /\ old.value <= news[key] /\ news[key] \in Nat
      BY <1>1, <1>4 DEF Ordered, KnownBy, Sub
    <3> HIDE DEF key, old, new, n
    <3> QED
      BY <1>4, <3>1, <3>2, <3>3
  <2>2. CASE ~new
    <3>1. n = [notifiers[key] EXCEPT !.stream = s] /\ news' = news /\ sent = n.newest
      BY <1>3, <2>2
    <3>2. old.value \in Nat /\ old.value <= notifiers[key].newest
      BY <1>1, <2>2 DEF Ordered, KnownBy, Sub
    <3>3. key \in DOMAIN notifiers /\ key \in Keys
      BY <1>1, <2>2
    <3> HIDE DEF key, old, new, n
    <3> QED
      BY <1>4, <3>1, <3>2, <3>3
  <2> QED
    BY <2>1, <2>2
<1>8. /\ news' \in [Keys -> Nat]
      /\ \A k \in Keys \ {key} : news'[k] = news[k]
  BY <1>1, <1>3, <1>4
<1> DEFINE sub == [old EXCEPT !.joined = TRUE, !.sent = sent]
<1>9. /\ subscribers' \in Seq(Sub) /\ Len(subscribers') = Len(subscribers) /\ Running' = Running
      /\ subscribers'[s] = sub
      /\ \A t \in Running \ {s} :
           subscribers'[t] = IF t \in S THEN [subscribers[t] EXCEPT !.closed = TRUE] ELSE subscribers[t]
  <2>1. /\ ClosedStreams(S) \in Seq(Sub) /\ Len(ClosedStreams(S)) = Len(subscribers)
        /\ DOMAIN ClosedStreams(S) = Running
        /\ ClosedStreams(S)[s] = old
        /\ \A t \in Running :
             ClosedStreams(S)[t] = IF t \in S THEN [subscribers[t] EXCEPT !.closed = TRUE] ELSE subscribers[t]
    <3> HIDE DEF S
    <3> QED
      BY <1>6, ClosedStreamsTyped
  <2>2. subscribers' = [ClosedStreams(S) EXCEPT ![s] = sub]
    BY <1>3, <2>1
  <2>3. sub \in Sub
    BY <1>1, <1>7 DEF Sub
  <2> HIDE DEF sub, old, S
  <2> QED
    BY <2>1, <2>2, <2>3 DEF Running
<1>10. /\ sub.key = key /\ sub.pc = "reads" /\ sub.joined /\ ~sub.closed /\ sub.inbox = <<>>
       /\ sub.sent = sent /\ sub.value = old.value /\ sub.changed = old.changed
       /\ sub.handler = old.handler /\ sub.handled = old.handled /\ old.handled <= old.value
  BY <1>1, <1>2 DEF Sub, Ordered
<1>11. \A t \in Running : subscribers[t] \in Sub /\ Ordered(subscribers[t]) /\ Woken(subscribers[t])
  BY DEF Inv, Shape, Running
<1> HIDE DEF sub, new, key, n, S
<1>12. Shape'
  <2>1. /\ DOMAIN notifiers' \subseteq Keys
        /\ notifiers' \in [DOMAIN notifiers' -> [live : BOOLEAN, newest : Nat \ {0}, stream : 0..MaxSubs]]
    BY <1>1, <1>4, <1>5, <1>7
  <2> QED
    BY <1>2, <1>8, <1>9, <2>1 DEF Inv, Shape
<1>13. NewsCounted'
  <2> SUFFICES ASSUME NEW k \in Keys
               PROVE  news'[k] <= MaxNews + faults + (IF k \in DOMAIN notifiers' THEN 1 ELSE 0)
    BY <1>2 DEF NewsCounted
  <2>1. MaxNews \in Nat /\ faults \in Nat
    BY BoundsAssumption DEF Inv, Shape
  <2>2. news[k] <= MaxNews + faults + (IF k \in DOMAIN notifiers THEN 1 ELSE 0) /\ news[k] \in Nat
    BY <1>4 DEF Inv, NewsCounted
  <2>3. CASE k # key
    BY <1>5, <1>8, <2>1, <2>2, <2>3
  <2>4. CASE k = key /\ new
    <3>1. news'[k] = news[k] + 1 /\ k \notin DOMAIN notifiers /\ k \in DOMAIN notifiers'
      BY <1>1, <1>3, <1>4, <1>5, <2>4 DEF new, key
    <3> QED
      BY <2>1, <2>2, <3>1
  <2>5. CASE k = key /\ ~new
    <3>1. news'[k] = news[k] /\ k \in DOMAIN notifiers /\ k \in DOMAIN notifiers'
      BY <1>3, <1>5, <2>5 DEF new
    <3> QED
      BY <2>1, <2>2, <3>1
  <2> QED
    BY <2>3, <2>4, <2>5
<1>14. NewestIsNews'
  BY <1>4, <1>5, <1>7, <1>8 DEF NewestIsNews
<1>15. StreamsOpen'
  <2> SUFFICES ASSUME NEW k \in DOMAIN notifiers', NEW t \in Running, notifiers'[k].stream = t
               PROVE  subscribers'[t].joined /\ ~subscribers'[t].closed /\ subscribers'[t].key = k
    <3>1. \A k \in DOMAIN notifiers' : notifiers'[k].stream \in Running \cup {0}
      BY <1>5, <1>7 DEF Inv, StreamsOpen
    <3> QED
      BY <1>9, <3>1 DEF StreamsOpen
  <2>1. CASE k = key
    BY <1>5, <1>7, <1>9, <1>10, <2>1
  <2>2. CASE k # key
    <3>1. k \in DOMAIN notifiers \ {key} /\ notifiers[k].stream = t
      BY <1>5, <2>2
    <3>2. t \notin S /\ t # s
      BY <1>6, <3>1
    <3> QED
      BY <1>9, <3>1, <3>2 DEF Inv, StreamsOpen
  <2> QED
    BY <2>1, <2>2
<1>16. ASSUME NEW t \in Running PROVE (Ordered(subscribers[t]) /\ Woken(subscribers[t]))'
  <2>1. CASE t = s
    <3>1. KnownBy(sub, news'[key]) /\ KnownBy(sub, n.newest)
      BY <1>7, <1>10 DEF KnownBy
    <3> HIDE DEF old
    <3>2. Woken(sub)
      BY <1>1, <1>10 DEF Woken
    <3> QED
      BY <1>1, <1>5, <1>7, <1>9, <1>10, <2>1, <3>1, <3>2 DEF Ordered, Woken
  <2>2. CASE t # s
    <3> DEFINE other == subscribers[t]
               after == subscribers'[t]
    <3>1. /\ Ordered(after) /\ Woken(after) /\ after.key = other.key /\ after.sent = other.sent
          /\ after.value = other.value /\ after.joined = other.joined /\ after.inbox = other.inbox
          /\ after.pc = other.pc /\ after.handled = other.handled
      BY <1>9, <1>11, <2>2, ClosingKeepsOrder
    <3>2. other.key \in Keys /\ other.sent \in Nat /\ other.value \in Nat
      BY <1>11 DEF Sub
    <3> HIDE DEF other, after
    <3>3. KnownBy(after, news'[after.key])
      <4>1. KnownBy(after, news[after.key]) /\ news[after.key] \in Nat
        BY <1>4, <3>1, <3>2 DEF Ordered
      <4>2. news'[after.key] \in Nat /\ news[after.key] <= news'[after.key]
        BY <1>4, <1>7, <1>8, <3>1, <3>2
      <4> QED
        BY <3>1, <3>2, <4>1, <4>2 DEF KnownBy
    <3>4. ASSUME after.key \in DOMAIN notifiers' PROVE KnownBy(after, notifiers'[after.key].newest)
      <4>1. CASE after.key # key
        BY <1>5, <3>1, <3>4, <4>1 DEF Ordered
      <4>2. CASE after.key = key /\ new
        <5>1. n.newest = news[key] + 1 /\ news[key] \in Nat
          BY <1>1, <1>3, <1>4, <4>2 DEF n
        <5>2. KnownBy(after, news[key])
          BY <3>1, <4>2 DEF Ordered
        <5> QED
          BY <1>5, <3>1, <3>2, <4>2, <5>1, <5>2 DEF KnownBy
      <4>3. CASE after.key = key /\ ~new
        <5>1. key \in DOMAIN notifiers /\ n = [notifiers[key] EXCEPT !.stream = s]
          BY <1>3, <4>3 DEF new, n
        <5>2. n.newest = notifiers[key].newest
          BY <1>4, <5>1
        <5>3. KnownBy(after, notifiers[key].newest)
          BY <3>1, <4>3, <5>1 DEF Ordered
        <5> QED
          BY <1>5, <4>3, <5>2, <5>3
      <4> QED
        BY <4>1, <4>2, <4>3
    <3> QED
      BY <3>1, <3>3, <3>4 DEF Ordered, Woken, after
  <2> QED
    BY <2>1, <2>2
<1>17. Forward
  <2> SUFFICES ASSUME NEW t \in Running PROVE subscribers'[t].handled >= subscribers[t].handled
    BY DEF Forward
  <2>1. CASE t = s
    BY <1>9, <1>10, <2>1, HandledIsNat
  <2>2. CASE t # s
    <3>1. subscribers'[t].handled = subscribers[t].handled
      BY <1>9, <1>11, <2>2, ClosingKeepsOrder
    <3> QED
      BY <3>1, HandledIsNat
  <2> QED
    BY <2>1, <2>2
<1> QED
  BY <1>9, <1>12, <1>13, <1>14, <1>15, <1>16, <1>17 DEF Inv

\* subscribe adds a Subscriber that has seen nothing.
LEMMA SubscribeKeepsInv ==
  ASSUME Inv, NEW key \in Keys, Subscribe(key)
  PROVE  Inv' /\ Forward
<1> DEFINE fresh == NewSubscriber(key)
           last == Len(subscribers) + 1
<1>1. UNCHANGED server /\ UNCHANGED call
  BY DEF Subscribe
<1>2. CASE UNCHANGED tasks /\ answer' = "failed"
  <2>1. Shape' /\ NewsCounted' /\ NewestIsNews'
    BY <1>1, <1>2 DEF Inv, Shape, NewsCounted, NewestIsNews, server, tasks
  <2>2. StreamsOpen'
    BY <1>1, <1>2 DEF Inv, StreamsOpen, server, tasks, Running
  <2>3. \A s \in Running : (Ordered(subscribers[s]) /\ Woken(subscribers[s]))'
    BY <1>1, <1>2 DEF Inv, Ordered, Woken, server, tasks
  <2>4. Forward
    BY <1>2, HandledIsNat DEF Forward, tasks
  <2> QED
    BY <1>2, <2>1, <2>2, <2>3, <2>4 DEF Inv, tasks, Running
<1>3. CASE Started(key)
  <2>1. /\ fresh \in Sub /\ fresh.key = key /\ fresh.pc = "connect" /\ ~fresh.joined
        /\ fresh.inbox = <<>> /\ fresh.sent = 0 /\ fresh.value = 0 /\ fresh.handled = 0
    BY DEF NewSubscriber, Sub
  <2>2. subscribers \in Seq(Sub) /\ Len(subscribers) \in Nat /\ Running = 1..Len(subscribers)
        /\ MaxSubs \in Nat /\ Len(subscribers) < MaxSubs
    BY <1>3, BoundsAssumption DEF Inv, Shape, Running, Started
  <2> HIDE DEF fresh
  <2>3. /\ subscribers' \in Seq(Sub) /\ Len(subscribers') <= MaxSubs
        /\ Running' = Running \cup {last} /\ last \notin Running /\ last \in Nat \ {0}
        /\ subscribers'[last] = fresh /\ \A s \in Running : subscribers'[s] = subscribers[s]
    BY <1>3, <2>1, <2>2 DEF Started, Running, fresh
  <2>4. /\ \A k \in Keys : news[k] \in Nat
        /\ \A k \in DOMAIN notifiers : notifiers[k].newest \in Nat
        /\ last \in Nat
    BY <2>3 DEF Inv, Shape
  <2>5. Shape' /\ NewsCounted' /\ NewestIsNews'
    BY <1>1, <1>3, <2>3 DEF Inv, Shape, NewsCounted, NewestIsNews, server, Started
  <2>6. \A s \in Running' : Ordered(subscribers[s])' /\ Woken(subscribers[s])'
    <3>1. Ordered(fresh) /\ Woken(fresh)
      BY <2>1, <2>4 DEF Ordered, KnownBy, Woken
    <3> SUFFICES ASSUME NEW s \in Running' PROVE Ordered(subscribers[s])' /\ Woken(subscribers[s])'
      OBVIOUS
    <3>2. Ordered(subscribers'[s]) /\ Woken(subscribers'[s])
      BY <2>3, <3>1 DEF Inv
    <3> QED
      BY <1>1, <3>2 DEF Ordered, Woken, server
  <2>7. StreamsOpen'
    BY <1>1, <2>3 DEF Inv, StreamsOpen, server
  <2>8. Forward
    BY <2>3, HandledIsNat DEF Forward
  <2> QED
    BY <2>5, <2>6, <2>7, <2>8 DEF Inv
<1> QED
  BY <1>2, <1>3 DEF Subscribe

\* The user's other calls and what ends them leave the subscriptions alone.
LEMMA CallsKeepInv ==
  ASSUME Inv, UNCHANGED <<tasks, news, notifiers, faults>>, up' \in BOOLEAN,
         call' = Nothing \/ call'.op \in {"unsubscribe", "other"},
         answer' \in {"none", "ok", "failed", "error", "panic"}
  PROVE  Inv' /\ Forward
<1>1. Shape' /\ NewsCounted' /\ NewestIsNews'
  BY DEF Inv, Shape, NewsCounted, NewestIsNews, tasks
<1>2. StreamsOpen'
  BY DEF Inv, StreamsOpen, tasks, Running
<1>3. \A s \in Running : (Ordered(subscribers[s]) /\ Woken(subscribers[s]))'
  BY DEF Inv, Ordered, Woken, tasks
<1>4. Forward
  BY HandledIsNat DEF Forward, tasks
<1> QED
  BY <1>1, <1>2, <1>3, <1>4 DEF Inv, tasks, Running

\* No step takes Inv away, or a handler back.
LEMMA InvStep ==
  ASSUME Inv, [Next]_vars
  PROVE  Inv' /\ Forward
<1>1. /\ call = Nothing \/ call.op \in {"unsubscribe", "other"}
      /\ answer \in {"none", "ok", "failed", "error", "panic"} /\ up \in BOOLEAN
  BY DEF Inv, Shape
<1>2. CASE Request \/ ConnectionLost \/ ServerResponds \/ ServerStarts \/ UNCHANGED vars
           \/ \E key \in Keys : UnsubscribeLocally(key) \/ Unsubscribe(key)
  <2>1. UNCHANGED <<tasks, news, notifiers, faults>> /\ up' \in BOOLEAN
    BY <1>1, <1>2
    DEF Request, ConnectionLost, ServerResponds, ServerStarts, vars, UnsubscribeLocally, Unsubscribe,
        SendRequest, Returns, user, server
  <2>2. /\ call' = Nothing \/ call'.op \in {"unsubscribe", "other"}
        /\ answer' \in {"none", "ok", "failed", "error", "panic"}
    <3>1. CASE Request \/ \E key \in Keys : Unsubscribe(key)
      BY <1>1, <3>1 DEF Request, Unsubscribe, SendRequest
    <3>2. CASE \E key \in Keys : UnsubscribeLocally(key)
      BY <1>1, <3>2 DEF UnsubscribeLocally
    <3>3. CASE ConnectionLost \/ ServerResponds
      BY <3>3 DEF ConnectionLost, ServerResponds, Returns
    <3>4. CASE ServerStarts \/ UNCHANGED vars
      BY <1>1, <3>4 DEF ServerStarts, user, vars
    <3> QED
      BY <1>2, <3>1, <3>2, <3>3, <3>4
  <2> QED
    BY <2>1, <2>2, CallsKeepInv
<1>3. ASSUME NEW key \in Keys, KeyChanges(key) PROVE Inv' /\ Forward
  <2>1. PICK live \in BOOLEAN : notifiers' = Told(key, live)
    BY <1>3 DEF KeyChanges
  <2> QED
    BY <1>1, <1>3, <2>1, NewsKeepInv DEF KeyChanges, user
<1>4. CASE ServerUnsubscribes
  <2>1. call' = Nothing /\ answer' \in {"ok", "failed"} /\ UNCHANGED <<tasks, up, faults>>
    BY <1>4 DEF ServerUnsubscribes, Returns
  <2>2. CASE UNCHANGED <<news, notifiers>>
    BY <1>1, <2>1, <2>2, CallsKeepInv
  <2>3. CASE news' = [news EXCEPT ![call.key] = @ + 1] /\ notifiers' = Told(call.key, FALSE)
    BY <1>4, <2>1, <2>3, NewsKeepInv DEF ServerUnsubscribes
  <2> QED
    BY <1>4, <2>2, <2>3 DEF ServerUnsubscribes
<1> QED
  BY <1>2, <1>3, <1>4, SubscribeKeepsInv, TaskKeepsInv, ServerJoinsKeepsInv, ServerSendsKeepsInv,
     ConnectionBreaksKeepsInv, ServerEndsKeepsInv
  DEF Next, Calls

\* Inv is an invariant.
LEMMA InvAlways == Spec => []Inv
<1>1. Init => Inv
  <2> SUFFICES ASSUME Init PROVE Inv
    OBVIOUS
  <2>1. Shape
    BY BoundsAssumption DEF Init, Shape, Nothing
  <2>2. Running = {} /\ DOMAIN notifiers = {} /\ NewsCounted
    BY BoundsAssumption DEF Init, Running, NewsCounted
  <2> QED
    BY <2>1, <2>2 DEF Inv, NewestIsNews, StreamsOpen
<1>2. Inv /\ [Next]_vars => Inv'
  BY InvStep
<1> QED
  BY <1>1, <1>2, PTL DEF Spec

-----------------------------------------------------------------------------
(***************************************************************************)
(* The type invariant, bounds included: the news of a key stay within      *)
(* LastNews because a Notifier is new once per run of the server, and      *)
(* everything else that counts news is behind them.                        *)
(***************************************************************************)
THEOREM TypesOfTheClient == Spec => []TypeOK
<1>1. ASSUME Inv PROVE TypeOK
  <2> USE <1>1
  <2>1. LastNews \in Nat /\ MaxNews \in Nat /\ MaxFaults \in Nat /\ faults \in 0..MaxFaults
    BY BoundsAssumption DEF LastNews, Inv, Shape
  <2>2. ASSUME NEW key \in Keys PROVE news[key] \in 0..LastNews
    <3>1. news[key] \in Nat
      BY DEF Inv, Shape
    <3>2. news[key] <= MaxNews + faults + 1 \/ news[key] <= MaxNews + faults + 0
      BY DEF Inv, NewsCounted
    <3> QED
      BY <2>1, <3>1, <3>2 DEF LastNews
  <2>3. \A key \in DOMAIN notifiers :
          notifiers[key] \in [live : BOOLEAN, newest : 1..LastNews, stream : 0..MaxSubs]
    <3> SUFFICES ASSUME NEW key \in DOMAIN notifiers
                 PROVE  notifiers[key] \in [live : BOOLEAN, newest : 1..LastNews, stream : 0..MaxSubs]
      OBVIOUS
    <3>1. notifiers[key] \in [live : BOOLEAN, newest : Nat \ {0}, stream : 0..MaxSubs] /\ key \in Keys
      BY DEF Inv, Shape
    <3>2. notifiers[key].newest \in Nat \ {0} /\ notifiers[key].newest <= news[key]
      BY <3>1 DEF Inv, NewestIsNews
    <3>3. notifiers[key].newest \in 1..LastNews
      BY <2>1, <2>2, <3>1, <3>2
    <3> QED
      BY <3>1, <3>3
  <2> DEFINE Bounded == [key : Keys, pc : {"connect", "reads", "sleeps"}, joined : BOOLEAN,
                         inbox : Seq(1..LastNews), sent : 0..LastNews, closed : BOOLEAN,
                         value : 0..LastNews, changed : BOOLEAN,
                         handler : {"waits", "borrows"}, handled : 0..LastNews]
  <2>4. ASSUME NEW s \in Running PROVE subscribers[s] \in Bounded
    <3> DEFINE sub == subscribers[s]
    <3>1. sub \in Sub /\ Ordered(sub)
      BY DEF Inv, Shape, Running
    <3>2. sub.key \in Keys /\ sub.sent \in Nat /\ sub.value \in Nat /\ sub.handled \in Nat /\ sub.inbox \in Seq(Nat)
      BY <3>1 DEF Sub
    <3> HIDE DEF sub
    <3>3. news[sub.key] \in 0..LastNews /\ sub.sent <= news[sub.key] /\ sub.value <= news[sub.key]
          /\ sub.handled <= sub.value
      BY <2>2, <3>1, <3>2 DEF Ordered, KnownBy
    <3>4. sub.sent \in 0..LastNews /\ sub.value \in 0..LastNews /\ sub.handled \in 0..LastNews
      BY <2>1, <3>2, <3>3
    <3>5. \A i \in 1..Len(sub.inbox) : sub.inbox[i] \in 1..LastNews
      <4> SUFFICES ASSUME NEW i \in 1..Len(sub.inbox) PROVE sub.inbox[i] \in 1..LastNews
        OBVIOUS
      <4>1. sub.inbox[i] \in Nat
        BY <3>2
      <4>2. sub.value < sub.inbox[i] /\ sub.inbox[i] <= sub.sent
        BY <3>1 DEF Ordered
      <4> QED
        BY <2>1, <3>2, <3>4, <4>1, <4>2
    <3>6. sub.inbox \in Seq(1..LastNews)
      <4>1. Len(sub.inbox) \in Nat /\ sub.inbox = [i \in 1..Len(sub.inbox) |-> sub.inbox[i]]
        BY <3>2
      <4> DEFINE M == 1..LastNews
      <4>2. \A i \in 1..Len(sub.inbox) : sub.inbox[i] \in M
        BY <3>5
      <4> HIDE DEF M
      <4>3. sub.inbox \in Seq(M)
        BY <4>1, <4>2
      <4> QED
        BY <4>3 DEF M
    <3> QED
      BY <3>1, <3>4, <3>6 DEF Sub, sub
  <2>5. subscribers \in Seq(Bounded)
    <3>1. Running = 1..Len(subscribers) /\ Len(subscribers) \in Nat
          /\ subscribers = [s \in 1..Len(subscribers) |-> subscribers[s]]
      BY DEF Inv, Shape, Running
    <3> HIDE DEF Bounded
    <3> QED
      BY <2>4, <3>1
  <2>6. notifiers \in [DOMAIN notifiers -> [live : BOOLEAN, newest : 1..LastNews, stream : 0..MaxSubs]]
    <3>1. notifiers = [key \in DOMAIN notifiers |-> notifiers[key]]
      BY DEF Inv, Shape
    <3> QED
      BY <2>3, <3>1
  <2>7. news \in [Keys -> 0..LastNews]
    BY <2>2 DEF Inv, Shape
  <2> QED
    BY <2>5, <2>6, <2>7 DEF TypeOK, Inv, Shape
<1> QED
  BY <1>1, InvAlways, PTL

(***************************************************************************)
(* No message that the watch channel took is left without a wake-up of the *)
(* handler's task.                                                         *)
(***************************************************************************)
THEOREM NoWakeUpIsLost == Spec => []NothingIsLost
<1>1. Inv => NothingIsLost
  BY DEF Inv, Woken, NothingIsLost
<1> QED
  BY <1>1, InvAlways, PTL

(***************************************************************************)
(* The handler never goes back to older news, through any reconnection,    *)
(* restart of the server and end of a Notifier.                            *)
(***************************************************************************)
THEOREM HandlersGoForward == Spec => NeverGoesBack
<1>1. Inv /\ [Next]_vars => [\A s \in Running : subscribers'[s].handled >= subscribers[s].handled]_vars
  BY InvStep DEF Forward
<1> QED
  BY <1>1, InvAlways, PTL DEF NeverGoesBack, Spec
=============================================================================
