# TLA+ specifications of nkv

nkv is a key-value store with notifications: clients put, get and delete values
under dotted keys over a Unix socket, and subscribe to keys. These modules model
its core, storage and delivery of notifications, the server around them, the client
library, the text that both exchange and the start of the two programs. TLC checks
them on small instances, and TLAPS proves the safety properties that
the runs check for every instance. Paths below are relative to the root of the repository (`src/nkv.rs`, `docs/KEYSPACE.md`).

## The system

| part | state | operations | hard about it |
|---|---|---|---|
| `Trie` (`src/trie.rs`) | nodes with children and a value | `insert`, `get`, `get_mut` with a callback on the way, `remove` | wildcards: `get` stops at the first `*` and takes the subtree, `remove` matches segment by segment; pruning of empty branches |
| `NkvCore`, `Notification` (`src/nkv.rs`) | trie `objects` of stored keys, trie `notifiers` of subscriptions, the storage, one unbounded channel per subscription | `put`, `get`, `delete`, `subscribe`, `unsubscribe`, `trace` | three structures that are updated one after another, with an early return at every failing send or storage call |
| `Notifier`, `StateBuf` (`src/notifier.rs`) | the clients' streams behind a mutex, a buffer of two elements | a receiver task, a sender task, one spawned task per broadcast; `subscribe`, `unsubscribe`, `unsubscribe_all` | all of them interleave; peers stall, break and reconnect while they are written to |
| storage engines (`src/storage/`) | a map in memory; files below `digest/` | `put`, `get`, `delete`, `keys`; the router picks an engine by the key | a put to a file is four system calls, each of which can fail or be the last one of the process |
| `Server` (`src/srv.rs`) | six queues of requests, one `Notifier` per subscribed key | one handler task per connection; a loop over the queues, which alone calls the core; cancellation | queues are served in any order; an entry of `notifiers` outlives the subscription in the core; the loop itself waits for a mutex that broadcasts hold |
| `NkvClient`, `Subscriber` (`src/lib.rs`, `src/notifier.rs`) | the keys subscribed to; per subscription a connection, a watch channel and a handler task | requests; `subscribe`, `unsubscribe`; reading and reconnecting | reconnection while the server holds the old stream or is another one; a message between `changed()` and `borrow()` |
| messages (`src/request_msg.rs`) | none | text form and parsing of requests, responses and notifications | spaces and empty values, which the text does not keep apart |
| flag parser (`src/flag_parser.rs`) | none | `new` over the arguments | a flag looks at the argument after it |
| `nkv-server`, `nkv-client` (`src/server/main.rs`, `src/client/main.rs`) | the socket's path; the client's subscriptions | start-up; one command or a prompt | servers that start at once remove each other's socket; results of requests are unwrapped |

A request reaches the server's loop, which calls `NkvCore` (one call at a time,
`&mut self`). `NkvCore` calls the storage and sends `Update` and `Close` into the
channels of its subscriptions. A `Notifier` reads one such channel and writes to
the sockets, at whose other end a `Subscriber` reads. On a restart, `NkvCore::new` rebuilds `objects` from `storage.keys()`.

What makes each part correct:

- Trie: its nodes stay a tree that is a map; every walk with wildcards computes the set it should;
  no dead branches.
- NkvCore: what is stored can be found and deleted; subscribers know the latest
  values; no subscription ends without a `Close`, and none outlives it; the data is
  an atomic map, also through failed calls.
- Notifier: the newest message is always broadcast; no duplicates, nothing after
  `Close`; broadcasts end.
- Storage: a put happens entirely or not at all; a restart finds what was stored.
- Server: each request takes effect once, between its arrival and its answer, and gets
  its own answer; every core subscription has a reader and every open stream a writer;
  no request waits for ever.
- Client: handlers never go back to older news, no wake-up is lost, and after the last
  fault every subscription is connected and up to date.
- Messages and programs: what is said is heard, nothing is stored that nobody asked
  for, the prompt survives, and after any interleaving of starts somebody serves.

## Modules

| module | what it is |
|---|---|
| `KeySpace` | keys as sequences of segments, and the set that a key selects, has on its path, or removes |
| `Trie` | the nodes and the walks of `src/trie.rs`, compared with `KeySpace` |
| `TrieProofs` | its theorems |
| `KVStore` | abstract: the data as callers of `NkvCore` see it |
| `NkvCore` | `src/nkv.rs`; implements `KVStore` |
| `NkvCoreProofs` | theorems about its structures, its refinement, and what its subscribers may rely on |
| `Notifier` | the server side of `src/notifier.rs` |
| `NotifierProofs` | its theorems |
| `StorageEngine` | abstract: the contract of the trait |
| `Storage` | `src/storage/`; implements `StorageEngine` |
| `StorageProofs` | its theorems |
| `Service` | abstract: calls that meet the map of `KVStore` at one instant each |
| `Server` | `src/srv.rs`, composed with `NkvCore` (INSTANCE); implements `Service` |
| `ServerProofs` | theorems about connections, queues, the loop and its map |
| `ServerCoreProofs` | theorems about the server and the core together, and the refinement of `Service` |
| `Client` | `src/lib.rs` and `Subscriber`, with the server as environment |
| `ClientProofs` | its theorems |
| `Protocol` | `src/request_msg.rs`: texts as sequences of words |
| `FlagParser` | `src/flag_parser.rs`: the loop, and what it should yield |
| `Programs` | the two programs, which talk in the text of `Protocol` |
| `ProgramsProofs` | theorems about them, the flag parser and the text of requests, responses and messages |
| `MCTrie`, `MCNkvCore`, `MCNotifier`, `MCStorage`, `MCServer`, `MCClient`, `MCPrograms` | instances for TLC |

The variants marked "Faulty variant" in the modules are the code with a plausible
mistake; they are used to see that each property can fail.

### How they correspond to the code

**Trie.** A node is named by the path that leads to it from the root, and the trie is
the function from its nodes to their values: the entries of a node's map of children are
the nodes one segment longer (`Children`). A value is identified with the path it is
found at. `InsertAt` makes the entries on the way one by one. `get` and `get_mut` are
loops that are left at the end of the key, at a `*` or where there is no child
(`Leaves`, `Passed`); `Captured` is the sequence of the calls of `op`. `DeleteRecursive`
is a recursive function of the node: what a call returns is the nodes that it drops, the
nodes whose value it clears and its flag, and `Joined` and `Pruned` combine the results
of the children. They are looked at one after another in `HashMap` order, but each call
touches its own subtree alone, so the order makes no difference. `NkvCore` uses `KeySpace`
only: tries are represented there by their contents.

**NkvCore.** One action per method and outcome. `delete` has four: it stops in the
loop that unsubscribes the selected nodes, in the loop that notifies the path, in
the loop over the storage keys, or it finishes. Where a loop runs in `HashMap`
order, every order is allowed: `Reached` and `PathReached` give the channels that a
loop reached before a dropped receiver ended it, `MetBefore` the nodes that a walk
met. A channel is represented by what its receiver knows once it has read
everything: the last value told per key, and whether the `Close` of its own node
came. Sizes of queues do not matter: the channels are unbounded. A slot of `chans`
holds the newest channel of a node and a client. `DropReceiver` and failing storage
calls are switched by `Drops` and `IOErrors`. `Restart` is the end of the process
followed by `new`; `Durable` is the set of keys that survive it.

**Notifier.** Messages are numbered in the order of the core's sends. A step is what
a task does between two awaits at which it can be suspended. The mutex `clients` is
a variable where it is held across an await: a pending send, and the clean-up. The
mutex of the buffer never is, so its critical sections are single steps. After the
core's end is dropped `changed()` returns at once, so the sender task goes round for
ever (`SenderWakes`). A stream is `ok`, `stalled` (not read, a write stays pending)
or `broken`. A write to a stream that is `ok` is taken as delivered; buffering in
the socket would only delay the failures and stalls.

**Storage.** `op` is the put that is under way and its next system call, `temp` its
temporary file. That file is in the root directory, as in the code, so nothing ever is in
`ingest/` and the removal of `ingest/` in `new` changes nothing. A path loses the
empty segments of its key, because the file system reads `a//b` as `a/b`. Keys whose
first segment is empty are left out: they make an absolute path. A crash of the
machine is not modelled, only the end of the process.

**Server.** A connection goes through `queued`, `replied`, `answered`, or becomes a
stream, or is closed; `queues`, `loop` and `entries` are the loop's queues, its place
and its map `notifiers`. The state of the core is that of `NkvCore`, whose actions the
loop's actions call; `Drops` is FALSE, because the receivers belong to tasks that read
until the channel closes. In addition an entry keeps the messages of its channel
(`Informed`), so that properties can say what was told. The tasks of a Notifier, which
`Notifier` has in detail, appear as the register that they are proved to implement:
`CastStarts` takes any newer message, `CastWrites` writes it to the clients, `CastStalls`
waits with the mutex, `CleanUp` is the unsubscription after a failed write. The writes
of one broadcast are one step. A subscription takes two steps of the loop
(`LoopMakesNotifier` or `LoopFindsNotifier`, then `LoopJoins`), between which tasks may
run. Cancellation ends the loop; handlers whose answer never comes panic, which closes
the connection; `Restart` ends the process anywhere. A peer stalls once at most.

**Client.** The messages about a key are numbered as they come to be (`news`), so that
older and newer can be compared across connections and servers. A Subscriber and the
task of its handler are the two halves of a record. The server is the environment, with
what `Server` says of it: one stream per client and key, a new one closes the old, a
new Notifier may speak before its first stream has joined, broadcasts may skip messages.
Broadcasts to one stream are taken to be written in order (that concurrent ones may not
be is a matter of `Notifier`, see below). `Unreadable` are the messages that do not
parse. The six simple requests are one action, `Request`.

**Protocol, FlagParser.** A text is the sequence of its words between single spaces,
so `""` is one empty word and two spaces in a row make an empty word. Other white space
does not occur inside a text. Base64 is an injective function `Code`, and some codes
are also words that users write. Uuids and identifiers are words. `Marshal` follows the
order of a `HashMap`, which is any. A panic in `decode` and an error are the same: both
end the connection.

**Programs.** The start of `nkv-server` is one step per call that looks at or changes the
path: `MainChecks`, `MainRemoves`, then `NewChecks`, `NewUnlinks` and `Serves` of
`Server::new`, which may also be called by another program (`StartEmbedded`). Every server
has its own data directory. `nkv-client` asks for the version, then runs one command or
the prompt; its requests go to whoever serves at the path when it connects. `HandlePut`
and the other handlers stand for `Server` and the core, reduced to what the text
depends on. `news` holds the last notification and what the `Subscriber` made of it. An
empty line at the prompt does nothing and is left out, as are printing and logging.

## Runs

Runs that pass:

| run | instance | properties |
|---|---|---|
| `trie` | 7 keys up to three levels, 2 values, every pattern of up to three segments over two names and `*`, and names containing `*`; 2 187 states, every trie with these keys | `InsertAgrees`, `RemoveAgrees`, `GetAgrees`, `CapturedAgrees`, `NoDeadBranches` |
| `core` | keys `a`, `a.b`, patterns `*`, `a.*`, `*.b`; 2 clients, 2 values, one of them empty; failing storage; 146 155 states | `TypeOK`, `StorageIndexed`, `NoSilentUnsubscribe`, `SubscriberSeesLatest`, `AckedPutReachesPath`, `ImplementsKVStore` |
| `core_drops` | `a`, `a.b`, `a.*`, 2 clients, receivers dropped at any time; 316 878 states | `CloseEndsSubscription`, `AckedDeleteIsComplete` |
| `core_deep` | three levels, `a.*.b` and `a*`, one client, drops; 278 277 states | `AckedDeleteIsComplete` |
| `notifier` | 2 clients, 2 messages, 3 connections, stalls; 7.0 million states | `TypeOK`, `BufferIsLatestRegister`, `AtMostOnce`, `NothingAfterClose` |
| `notifier_live` | 2 clients, 2 messages, 2 connections, no stalls; 168 708 states | `NewestIsBroadcast`, `BroadcastsEnd` |
| `storage` | 3 nested keys on disk, 2 in memory, 2 values; 4 644 states | `ImplementsEngine`, `KeysAreListed` |
| `server` | 3 connections with any request about `a`, and subscriptions of `*`; 2 clients, failing storage, peers that stall and leave; 1.6 million states | `TypeOK`, `EverySubscriptionIsRead`, `ChannelIsCurrent`, `StreamsAreServed`, `ImplementsService` |
| `server_live` | 3 connections that put `a` or subscribe to it, stalls, cancellation and restart; 104 650 states | `ImplementsService`, `EveryRequestEnds`, `ReadersKeepUp` |
| `client` | one key, room for 2 Subscribers, 4 news (one unreadable), 3 faults; 95 315 states | `TypeOK`, `NothingIsLost`, `NeverGoesBack`, `EverythingSettles` |
| `programs` | 2 servers, 4 starts of the client or lines, keys and values with spaces or empty, the latter also at a key's end, all arrangements of up to three flags and arguments; 3.5 million states | `TypeOK`, `FlagsAgree`, `SomebodyIsReached`, `PutNeverMisfiles`, `WhatIsSaidIsHeard`, `PromptSurvives` |

Bounds. Two nested keys, a client at each and a pattern that covers both are what
the interplay of selected nodes and path needs; `core_deep` adds a middle level,
where a wildcard inside a key can disagree with itself. Two messages are enough for
two broadcasts to overlap, three connections for one client to come back while the
other one is served. In `server`, three connections are what it takes for one to
subscribe, a second to change the key and a third to come back or to join; a put, a
subscription and a delete of one key already end with a Notifier whose core
subscription is gone, and `*` brings a second entry to the same node. In `client`, three
faults let a server restart while a connection is lost before and after it; keys share
nothing but the user's calls, so one is enough, and the second Subscriber's place is
there to show that none is started. In `programs`, two servers are what one can lose
to, and four entries let a put through a single command, one at the prompt and two
reads meet. `MaxMsgs`, `MaxStreams`, `MaxConns`, `MaxNews`, `MaxFaults`, `MaxSubs` and
`MaxEntered`, and that a peer stalls once, are the only bounds that are not parameters
of the system. Keys that `is_key_correct` refuses (`Malformed`) are in
no instance: the theorems about the core cover them. `NoSilentUnsubscribe` and
`SubscriberSeesLatest` are checked without drops: a dropped receiver makes `delete`
drain a node whose other subscribers it then does not tell. Clients are symmetric in
the safety runs of the core and the notifier, servers in `programs`; the runs with
liveness use no symmetry. `CHECK_DEADLOCK FALSE` stands where everything may have been
said and done.

Fairness. `TaskFairness` and `CastFairness` are weak fairness of the tasks' own
steps: tokio polls a task again after what it waits for has happened. Nothing is
assumed of the core, the server and the peers. The mutex is given to waiters in
turn; weak fairness is less than that and enough. In `Server`, `select!` polls its
queues in random order and passes none over for ever, which is weak fairness of the
service of each queued request; peers that stall are assumed to read again
(`PeerReads`), which no code guarantees: a peer that never does blocks the loop (below).
In `Client`, the two tasks of a subscription are polled and sleep ends; the server takes
a SUB and writes the newest message, which `server_live` shows of it, and somebody
starts it again.

The run `server_late` shows a disagreement between the code and what it says of itself
(`SubscribersLearn`; the text is quoted in `PROJECT.json`): put `a`, subscribe to `a`.
`Notifier::new` starts the tasks that read the core's channel, and only then does the
loop insert the stream; the value of `a` may be broadcast to no client in between, and
the subscriber is never told.

Further places where the code and its documentation differ, which the models
contain and no run is about:

- a subscription with a wildcard to no existing node is acknowledged and connected to
  nothing (`SubscribeDetached`; `src/nkv.rs:356`, `docs/KEYSPACE.md:43`);
- a client that does not read keeps the mutex, and all others from being served
  (`BroadcastStalls`; `src/notifier.rs:184`, `docs/DESIGN_DECISIONS.md:11`);
- the router tests the characters of the key, so `runtimes` is kept in memory like the
  tree `runtime.*` (`InMemory`; `src/storage/router_storage.rs:18` and `:39`);
- the temporary file of a process that ended in a put is in the root directory and not
  in `ingest/`, so `new` does not remove it (`src/storage/file_storage.rs:91`, `:151`);
- put `a`, delete `*.b`: `get` selects `a`, `remove` does not, so the value is deleted and
  `a` stays in `objects`; a later delete of `a` fails (`src/nkv.rs:334`);
- a delete of `a` deletes nothing below and tells a subscriber of `a.b` nothing
  (`src/nkv.rs:307`, `docs/KEYSPACE.md:71`);
- a put answers Ok although a dropped receiver kept it from other subscribers of the
  same node (`src/nkv.rs:255`, `docs/KEYSPACE.md:70`);
- concurrent broadcasts may write the older message last (`src/notifier.rs:141`, `:75`);
- a value stored under `a..b` is found under `a.b` after a restart, because both have the
  same file (`src/storage/file_storage.rs:34`);
- after a delete or an UNSUB the entry of a key stays in the server's map, and later
  subscribers of that key join a Notifier that nothing is sent to (`src/srv.rs:160`);
- the second subscriber of a key gets no initial value, and neither does one that
  reconnects; its UNSUB is answered with OK by the core, which does not know it, and
  its stream goes on; TRACE lists the first client only (`src/srv.rs:160`);
- a peer that never reads blocks the loop at the next SUB of its key, and with it
  every request (`src/srv.rs:161`);
- after `unsubscribe` the Subscriber of a client goes on, and subscribes again when its
  connection ends (`src/lib.rs:136`, `src/notifier.rs:228`);
- subscriptions with wildcards are accepted, though `docs/KEYSPACE.md` excludes them;
- an empty value of a PUT is trimmed with the space in front of it: the server closes
  the connection and the client panics; for the key `a c`, where `c` is a base64 code and
  spaces may follow it, the value of `c` is stored under `a` (`src/srv.rs:266`); GET and DEL of `a b` act on `a`;
- a stored empty value, which only a program that links the library can make, yields a
  response that does not parse (`src/request_msg.rs:287`);
- `--version` is in the help of both programs and not among their flags
  (`src/client/main.rs:57`, `src/server/main.rs:41`); a flag without a value takes the
  command after it for its value;
- `nkv-server` removes whatever file is at the path before `Server::new` could refuse it;
  a second server takes the path from the first, and if its storage then fails the path
  leads to nobody (`src/server/main.rs:99`).

## Proofs

All theorems hold for every value of the constants that satisfies the named
assumptions of the modules: `KeysAssumption` and `TrieAssumption` (keys are non-empty
sequences of segments, and no value is `None`),
`EmptyAssumption` (the empty byte string is a value), `FaultsAssumption`,
`WildcardAssumption`, `StorageAssumption` (half a file is no value), `BoundsAssumption`;
`RequestsAssumption`, `StarAssumption`, `PathsAssumption` and `NoValueAssumption` of
`Server`, which imply those of the core; `CodeAssumption` of `Protocol`
(base64 is injective, and only the empty value has the empty code); and
`ProgramsAssumption` (what a user enters are texts, and every text can be stored). TLC
evaluates them in the runs.

**Trie** (`TrieProofs`), for keys of any length and any number of them.

- `TypeCorrect`, `BranchesAreAlive`: `Inv`, the conjunction of `TypeOK` (the nodes are
  a tree, and no name has a `*`) and `NoDeadBranches`, is inductive. The second is what makes `remove` right: its flag before a final `*` is that the node is not
  empty, which means that it takes a value only if the children lead to one; and a branch
  that was not hit needs no pruning only if it was alive before.
- `InsertIsAsSpecified`: `WalkRuns` shows that the recursive definition of the walk has a
  solution, `InsertAdds` what it is.
- `RemoveIsAsSpecified`: `Gives` says of the result of one call which values it takes
  (`Hits`: those that the rest of the key matches), when its flag is true, that what it
  drops it drops with all below, and that what it leaves has a value at or below it.
  `LastGives`, `LastWildcardGives` and `JoinedGives` are the three ways in which a call
  ends, `DeleteGives` the induction over the segments that are left. A child that is
  pruned loses nothing that the call on it did not take (`PrunedChild`), and the subtrees
  of two children have no node in common (`ChildrenApart`).
- `GetIsAsSpecified`, `CapturedIsAsSpecified`: up to where the loop is left all nodes are
  nodes of the trie and no segment is `*` (`PassedFacts`). `get` collects a subtree also
  for a key with a `*` in a longer segment; by `TypeOK` there is no such node.
- `TrieImplementsMap`: hence every step of the trie is one of the map `MapSpec` from keys
  to values, changed by `Inserted` and `Removed`, or leaves that map alone. It is what
  `NkvCore` has in place of its two tries.

**Core** (`NkvCoreProofs`).

- `TypeCorrect`: `TypeOK` is inductive; the lemmas say what the sends do to a channel.
- `StorageIsIndexed`: `delete` takes the keys for the storage from `get` and the keys
  for the trie from `remove`. The lemma `RemovesSelected` says that `remove` never
  drops a key that `get` did not return, for wildcards anywhere in the key; hence
  what stays in the storage stays in `objects`.
- `CloseEnds`: the inductive invariant `Open` says in addition that every registered
  subscription has a channel. The argument is that a `Close` for the own node only
  goes to nodes that are drained in the same step: the nodes on the path are either
  not selected by the key or drained before the second loop starts.
- `CoreImplementsKVStore`: every step of `NkvCore` is a step of `KVStore` or leaves the
  data alone, given `StorageIndexed`: without it an acknowledged `delete`, which
  clears what `objects` lists, could leave a selected value in the storage.
- `AckedDeletesAreComplete`, with drops: a `delete` that answers Ok has met no dropped
  receiver, so each of its loops went through, and it reached all of the path.
- `NoSubscriptionEndsSilently`, `AckedPutsReachTheirPath` and `SubscribersSeeTheLatest`
  have the hypothesis `~Drops`, like the run that checks them, because the code breaks
  them otherwise: a dropped receiver ends the loop over its siblings. The invariant
  `Listening` says that then every receiver listens; `WholePathReached` that a
  loop over such channels reaches all of them. `SubscriberSeesLatest` itself is not
  inductive: `AllSee` also says what a channel has been told of keys that are gone.

**Notifier** (`NotifierProofs`).

- `BufferRegister`: `BufferIsLatestRegister` is not inductive. `Inv` adds that messages
  get older along channel, receiver, buffer and broadcasts (`InboxOrdered`,
  `InboxAhead`) and that none is newer than the last one sent (`Bounded`).
- `TypesOfTheNotifier`, `NoStreamIsToldTwice` and `CloseIsLast`: `WrittenInv` follows a
  message through its one broadcast. The broadcast has listed each client once and
  takes it from the list when it writes; whoever writes a `Close` forgets the client in
  the same step, and a broadcast that listed it before looks again.

**Storage** (`StorageProofs`).

- `StorageImplementsEngine`: under the hypothesis `NoAliases` (no two keys share a
  file), which `a..b` and `a.b` violate. The rename is the abstract put;
  `PutUnderWay` says that the temporary file is complete by then.
- `KeysOfTheStorage`: under `PathsNameKeys` (a path gives back the key it was made of),
  which implies `NoAliases`. `Routed` says that every file below `digest/` belongs to a
  key that the router keeps on disk, and every entry in memory to one it does not.

**Server** (`ServerProofs`, `ServerCoreProofs`).

- `OpenStreamsAreServed`: `Inv` says that a request is in one place at a time (one of
  the queues, the loop's hands, or answered), and that the lists of clients and the
  connections that stream name each other.
- `SubscriptionsAreRead`, `ChannelsAreCurrent`, `TypesOfTheServer`: the lemmas about the
  core are those of `NkvCoreProofs`, instantiated with `Drops <- FALSE`, since the
  receivers belong to tasks that read them. `FullInv` joins the core's invariants to
  the map of Notifiers: while the loop runs, the registered slots of the core are the
  slots of the entries, each of one entry, and a channel of the server ends in what the
  core told that slot.
- `ServerImplementsService`: a connection is a call whose phase follows from its `pc`
  (`Phase`). The loop's put, get and delete are the instant at which a call takes effect,
  by `CoreImplementsKVStore`; everything else leaves the map of `KVStore` alone.

**Client** (`ClientProofs`).

- `TypesOfTheClient`, `NoWakeUpIsLost`, `HandlersGoForward`: along stream, watch channel
  and handler news only get older (`Inv`), and a Notifier never sends what is older
  than the last thing it sent to the stream. The watch channel outlives the connection
  and the server: what it holds is not newer than what any Notifier of its key knows, a
  later one included (`KnownBy`), since a Notifier that is made anew adds its first
  message to the news of the key (`NewsCounted`).

**Programs** (`ProgramsProofs`), for any number of servers, any arguments and any lines.

- `TypesOfThePrograms`: `Shapes` adds that the client is only connected to a server that
  serves, and that what it sends is the text of a request it has made.
- `PathsLeadToServers`: what has an owner is a socket that its owner has bound (`Owned`);
  what has none was there from the start, and nobody has come past it (`Untouched`);
  where there is nothing, somebody has removed it and is on the way to `bind`
  (`OnTheWay`). The steps of a start are reduced to moves of one server (`StartsEffect`).
- `PutsAreFiledAsAsked`: `PutOnTheWire` takes the text of a put apart as `trim_end` and
  `splitn` do. Five words are left; with a key of one word the fifth one is the
  code of the value, with a longer key the value's code was trimmed away, and so was
  empty. The attempt to prove an earlier form of `PutNeverMisfiles` failed for a key that
  ends in spaces, which are trimmed as well; the property and the run were corrected.
- `NewAgrees`, `FlagsAlwaysAgree`: the loop of `FlagParser::new` is a recursive function.
  `Least` and `Induction` derive induction over the natural numbers from the theorem
  that their order is well-founded; `BetweenTurns` relates the state between two turns to
  the arguments that have been taken, and `Rank` counts the positional ones.
- `ResponsesAreHeard`, `ThePromptSurvives`: a text without empty words is not changed by
  trimming and splitting (`FullTexts`), and `Unmarshal` undoes `Marshal` whatever the
  order of the keys (`Unmarshalled`). `Talk` says why the texts have no empty
  words: a store holds no empty key and no empty value (`Kept`), since `put` refuses the one
  and the text of a put cannot carry the other; an id is never empty; and what is
  sent from the prompt, or with a subscription, has a full key (`Plain`), so
  it parses (`PlainArrives`) and the client that unwraps the answer gets one.

Model-checked only: the liveness properties (`NewestIsBroadcast`, `BroadcastsEnd`,
`EveryRequestEnds`, `ReadersKeepUp`, `EverythingSettles`), which are out of the prover's
reach.

## Not modelled

`errors.rs` (an error is a reply with `ok = FALSE`); the benchmarks; logging
(`init_logging`), the terminal and what the client prints; the Debug forms and the
comparisons in `src/request_msg.rs`, which only tests and logs use; write-back of files
by the kernel after the rename.
