------------------------------ MODULE Programs ------------------------------
(***************************************************************************)
(* src/server/main.rs and src/client/main.rs: nkv-server and nkv-client,   *)
(* which meet at a path of the file system and talk in the text of module  *)
(* Protocol.  Several servers may be started for the same path, in steps   *)
(* that interleave, each with a data directory of its own.  What a server  *)
(* does for a request is in module Server; here it is a map of keys, and   *)
(* one client asks at a time.                                              *)
(***************************************************************************)
EXTENDS Protocol, FlagParser

CONSTANTS
  Servers,     \* processes of nkv-server, or of a program that calls Server::new
  ServerArgs,  \* the arguments nkv-server may be started with
  ClientArgs,  \* the same for nkv-client
  Lines,       \* what the user may enter, as the words of a line
  Levels,      \* the texts that name a level of logging
  MaxEntered   \* bound: starts of nkv-client and lines entered

Nobody == "nobody"

\* What is entered, quoted or not, consists of texts, and every text can be stored.
ASSUME ProgramsAssumption ==
  /\ MaxEntered \in Nat /\ Nobody \notin Servers
  /\ ServerArgs \cup ClientArgs \subseteq Seq([flag : BOOLEAN, text : Values])
  /\ \A line \in Lines : line \in Texts /\ \A i \in DOMAIN line : line[i] # NoWord /\ <<line[i]>> \in Values

VARIABLES
  path,     \* what is at the path: [kind, owner]
  servers,  \* the servers
  client,   \* nkv-client
  asked,    \* what the user has asked to put: pairs of a key's text and a value
  news,     \* the last message for the Subscriber, and what it made of it
  entered   \* bound: see MaxEntered

vars == <<path, servers, client, asked, news, entered>>

NoFile == [kind |-> "none", owner |-> Nobody]

Hello == [kind |-> "HELLO"]

NewServer == [pc |-> "off", args |-> <<>>, store |-> <<>>, subs |-> {}]

NewClient ==
  [pc |-> "off", args |-> <<>>,
   parts |-> <<>>,           \* the command of a client that runs a single one
   stage |-> "version",      \* or "command"
   request |-> Refused,      \* what send_request sends
   to |-> Nobody,            \* the server that has accepted the connection
   text |-> <<NoWord>>,          \* what is in the connection
   reply |-> Unparsed,       \* what the text of a response was made of
   subs |-> {},              \* the keys of the client's map subscriptions
   cut |-> FALSE]            \* the connection failed

\* The path may hold the socket of a server that is gone, or something else.
Init ==
  /\ path \in [kind : {"none", "socket", "file", "dir"}, owner : {Nobody}]
  /\ servers = [p \in Servers |-> NewServer]
  /\ client = NewClient
  /\ asked = {} /\ news = [sent |-> Hello, got |-> Hello] /\ entered = 0

-----------------------------------------------------------------------------
(* nkv-server *)

Goes(p, pc) == servers' = [servers EXCEPT ![p] = [NewServer EXCEPT !.pc = pc]]

StartServer(p) ==
  /\ servers[p].pc = "off"
  /\ \E args \in ServerArgs :
       servers' = [servers EXCEPT ![p].pc = "parses", ![p].args = args]
  /\ UNCHANGED <<path, client, asked, news, entered>>

\* Some other program, as the tests do, calls Server::new itself.
StartEmbedded(p) ==
  /\ servers[p].pc = "off"
  /\ Goes(p, "new")
  /\ UNCHANGED <<path, client, asked, news, entered>>

ServerFlags == {<<"dir">>, <<"help">>, <<"addr">>, <<"logs">>, <<"level">>}

\* A level given with no value is as good as none.
MainParses(p) ==
  LET r == New(servers[p].args, ServerFlags)
      level == <<"level">>
      leaves == \/ ~r.ok
                \/ level \in DOMAIN r.flags /\ r.flags[level] \notin Levels \cup {NoValue}
                \/ <<"help">> \in DOMAIN r.flags
  IN /\ servers[p].pc = "parses"
     /\ Goes(p, IF leaves THEN "ended" ELSE "checks")
     /\ UNCHANGED <<path, client, asked, news, entered>>

\* Whatever is at the path is removed.
MainChecks(p) ==
  /\ servers[p].pc = "checks"
  /\ Goes(p, IF path.kind = "none" THEN "new" ELSE "removes")
  /\ UNCHANGED <<path, client, asked, news, entered>>

\* remove_file fails for a directory, and if somebody else was faster.
RemoveFile(p, next) ==
  /\ Goes(p, CASE path.kind = "none" -> "lost" [] path.kind = "dir" -> "failed" [] OTHER -> next)
  /\ path' = IF path.kind = "dir" THEN path ELSE NoFile
  /\ UNCHANGED <<client, asked, news, entered>>

MainRemoves(p) == servers[p].pc = "removes" /\ RemoveFile(p, "new")

\* The data directory or the storage cannot be made.
StorageFails(p) ==
  /\ servers[p].pc = "new"
  /\ Goes(p, "failed")
  /\ UNCHANGED <<path, client, asked, news, entered>>

NewChecks(p) ==
  /\ servers[p].pc = "new"
  /\ Goes(p, CASE path.kind = "none" -> "binds" [] path.kind = "socket" -> "unlinks" [] OTHER -> "refused")
  /\ UNCHANGED <<path, client, asked, news, entered>>

\* Faulty variant: a socket that is there is left for bind to take over.
NewUnlinksNot(p) ==
  /\ servers[p].pc = "unlinks"
  /\ Goes(p, "binds")
  /\ UNCHANGED <<path, client, asked, news, entered>>

NewUnlinks(p) == servers[p].pc = "unlinks" /\ RemoveFile(p, "binds")

\* bind never takes a path that exists.
Serves(p) ==
  /\ servers[p].pc = "binds"
  /\ IF path.kind = "none"
       THEN Goes(p, "serves") /\ path' = [kind |-> "socket", owner |-> p]
       ELSE Goes(p, "lost") /\ UNCHANGED path
  /\ UNCHANGED <<client, asked, news, entered>>

\* The socket stays.  A client that waits for this server finds the connection reset.
StopServer(p) ==
  /\ servers[p].pc = "serves"
  /\ Goes(p, "stopped")
  /\ client' = IF client.to = p THEN [client EXCEPT !.pc = "crashed", !.to = Nobody, !.cut = TRUE] ELSE client
  /\ UNCHANGED <<path, asked, news, entered>>

-----------------------------------------------------------------------------
(* nkv-client *)

Me == <<"me">>

Running == client.pc \notin {"off", "ended", "failed", "crashed"}

StartClient ==
  /\ ~Running /\ entered < MaxEntered
  /\ \E args \in ClientArgs : client' = [NewClient EXCEPT !.pc = "parses", !.args = args]
  /\ entered' = entered + 1
  /\ UNCHANGED <<path, servers, asked, news>>

ClientFlags == {<<"help">>, <<"addr">>}

\* The first request is for the server's version.
ClientMain ==
  LET r == New(client.args, ClientFlags)
  IN /\ client.pc = "parses"
     /\ client' = IF ~r.ok \/ <<"help">> \in DOMAIN r.flags THEN [NewClient EXCEPT !.pc = "ended"]
                  ELSE [NewClient EXCEPT !.pc = "connects", !.parts = r.positional,
                                         !.request = Request("VERSION", Me, Me, <<"DISCARDME">>)]
     /\ UNCHANGED <<path, servers, asked, news, entered>>

\* main returns an error of its first request, later ones are unwrapped.
Fails(cut) ==
  client' = [client EXCEPT !.pc = IF client.stage = "version" THEN "failed" ELSE "crashed",
                           !.to = Nobody, !.cut = cut]

SendRequest ==
  /\ client.pc = "connects"
  /\ IF path.owner # Nobody /\ servers[path.owner].pc = "serves"
       THEN client' = [client EXCEPT !.pc = "waits", !.to = path.owner,
                                     !.text = RequestText(client.request)]
       ELSE Fails(TRUE)
  /\ UNCHANGED <<path, servers, asked, news, entered>>

\* What is done next when a command has been dealt with.
AfterCommand == IF client.parts = <<>> THEN "ready" ELSE "ended"

ReadResponse ==
  LET heard == ParseResponse(TrimEnd(client.text))
  IN /\ client.pc = "responded"
     /\ IF heard = Unparsed THEN Fails(FALSE)
        ELSE client' = [client EXCEPT
               !.pc = IF client.stage = "version" THEN "ready" ELSE AfterCommand,
               !.stage = "command", !.request = Refused, !.text = <<NoWord>>, !.reply = Unparsed]
     /\ UNCHANGED <<path, servers, asked, news, entered>>

\* The request that handle_command makes of the parts of a command, if it makes one.
Requested(parts) ==
  LET has(n) == Len(parts) >= n
      verb == parts[1]
      of(op) == IF has(2) THEN Request(op, <<"id">>, Me, parts[2]) ELSE Refused
  IN CASE verb = <<"put">> /\ has(3) ->
            PutRequest(<<"id">>, Me, parts[2], parts[3])
       [] verb \in {<<"get">>, <<"tree">>} -> of("GET")
       [] verb = <<"trace">> -> of("TRACE")
       [] verb = <<"delete">> -> of("DEL")
       [] verb = <<"unsubscribe">> /\ has(2) /\ parts[2] \in client.subs -> of("UNSUB")
       [] verb = <<"health">> -> Request("HEALTH", <<"id">>, Me, <<"HK">>)
       [] OTHER -> Refused

\* subscribe answers at once; a single command then waits for an interrupt.
HandleCommand(parts, next) ==
  LET r == Requested(parts)
      subscribes == parts[1] = <<"subscribe">> /\ Len(parts) > 1
  IN /\ client' = IF r # Refused THEN [client EXCEPT !.pc = "connects", !.request = r]
                  ELSE [client EXCEPT !.pc = next, !.subs = @ \cup IF subscribes THEN {parts[2]} ELSE {}]
     /\ asked' = asked \cup IF r.op = "PUT" THEN {<<r.key, r.value>>} ELSE {}

RunSingle ==
  LET verb == client.parts[1]
  IN /\ client.pc = "ready" /\ client.parts # <<>>
     /\ IF verb = <<"unsubscribe">> THEN client' = [client EXCEPT !.pc = "ended"] /\ UNCHANGED asked
        ELSE HandleCommand(client.parts, IF verb = <<"subscribe">> THEN "interrupt" ELSE "ended")
     /\ UNCHANGED <<path, servers, news, entered>>

RunLine ==
  /\ client.pc = "ready" /\ client.parts = <<>> /\ entered < MaxEntered
  /\ \E line \in Lines :
       HandleCommand([i \in DOMAIN line |-> <<line[i]>>], IF line[1] = "quit" THEN "ended" ELSE "ready")
  /\ entered' = entered + 1
  /\ UNCHANGED <<path, servers, news>>

\* An interrupt, or the end of the input.
Leaves ==
  /\ client.pc = "interrupt" \/ (client.pc = "ready" /\ client.parts = <<>>)
  /\ client' = [client EXCEPT !.pc = "ended"]
  /\ UNCHANGED <<path, servers, asked, news, entered>>

-----------------------------------------------------------------------------
(* The server's end of a connection. *)

Heard(msg) == [sent |-> msg, got |-> ParseMessage(TrimEnd(MessageText(msg)))]

Matching(p, key) == IF key = <<"*">> THEN DOMAIN servers[p].store ELSE {key[1]} \cap DOMAIN servers[p].store

Responds(reply) ==
  \E text \in ResponseTexts(reply) :
    client' = [client EXCEPT !.pc = "responded", !.to = Nobody, !.reply = reply, !.text = text]

\* A Subscriber of the key may get a message: that is up to the core.
Tells(p, key, msg) ==
  \/ UNCHANGED news
  \/ client.subs # {} /\ key \in servers[p].subs /\ news' = Heard(msg)

\* is_key_correct refuses the empty key and put a wildcard; storage may fail.
HandlePut(p, r) ==
  /\ r.op = "PUT"
  /\ \E ok \in BOOLEAN :
       /\ ok => r.key[1] \notin {NoWord, "*"}
       /\ servers' = IF ok THEN [servers EXCEPT ![p].store = With(@, r.key[1], r.value)] ELSE servers
       /\ IF ok THEN Tells(p, r.key, [kind |-> "UPDATE", key |-> r.key, value |-> r.value])
                ELSE UNCHANGED news
       /\ Responds(BaseResp(r.id, ok))

HandleDelete(p, r) ==
  LET gone == Matching(p, r.key)
  IN /\ r.op = "DEL"
     /\ servers' = [servers EXCEPT ![p].store = [k \in DOMAIN @ \ gone |-> @[k]]]
     /\ IF gone = {} THEN UNCHANGED news ELSE Tells(p, r.key, [kind |-> "CLOSE", key |-> r.key])
     /\ Responds(BaseResp(r.id, gone # {}))

HandleGet(p, r) ==
  LET found == Matching(p, r.key)
  IN /\ r.op = "GET"
     /\ Responds(DataResp("data", r.id, found # {}, [k \in found |-> servers[p].store[k]]))
     /\ UNCHANGED <<servers, news>>

HandleTrace(p, r) ==
  /\ r.op = "TRACE"
  /\ \E uuids \in {<<>>} \cup IF r.key \in servers[p].subs THEN {Me} ELSE {} :
       Responds(DataResp("trace", r.id, uuids # <<>>, uuids))
  /\ UNCHANGED <<servers, news>>

HandleUnsub(p, r) ==
  /\ r.op = "UNSUB"
  /\ servers' = [servers EXCEPT ![p].subs = @ \ {r.key}]
  /\ Tells(p, r.key, [kind |-> "CLOSE", key |-> r.key])
  /\ Responds(BaseResp(r.id, r.key \in servers[p].subs))

HandleHealth(r) == r.op = "HEALTH" /\ Responds(BaseResp(r.id, TRUE)) /\ UNCHANGED <<servers, news>>

HandleVersion(r) ==
  /\ r.op = "VERSION"
  /\ Responds(DataResp("version", r.id, TRUE, <<"0.1">>))
  /\ UNCHANGED <<servers, news>>

\* Faulty variant: the server keeps the connection.
HandleMalformedKept(r) ==
  /\ r = Refused
  /\ client' = [client EXCEPT !.pc = "crashed"]
  /\ UNCHANGED <<servers, news>>

\* The connection ends without a response, and the client unwraps it.
HandleMalformed(r) ==
  /\ r = Refused
  /\ client' = [client EXCEPT !.pc = "crashed", !.to = Nobody]
  /\ UNCHANGED <<servers, news>>

HandleRequest ==
  LET r == ParseRequest(TrimEnd(client.text))
      p == client.to
  IN /\ client.pc = "waits"
     /\ \/ HandlePut(p, r) \/ HandleDelete(p, r) \/ HandleGet(p, r) \/ HandleTrace(p, r)
        \/ HandleUnsub(p, r) \/ HandleHealth(r) \/ HandleVersion(r) \/ HandleMalformed(r)
     /\ UNCHANGED <<path, asked, entered>>

\* The Subscriber of a key connects and sends its SUB.
SubscriberConnects(key) ==
  LET r == ParseRequest(TrimEnd(RequestText(Request("SUB", Me, Me, key))))
      p == path.owner
  IN /\ Running /\ p # Nobody /\ servers[p].pc = "serves" /\ r # Refused /\ r.key \notin servers[p].subs
     /\ servers' = [servers EXCEPT ![p].subs = @ \cup {r.key}]
     /\ news' = Heard(Hello)
     /\ UNCHANGED <<path, client, asked, entered>>

-----------------------------------------------------------------------------
Starts(p) ==
  \/ StartServer(p) \/ StartEmbedded(p) \/ MainParses(p) \/ MainChecks(p) \/ MainRemoves(p)
  \/ StorageFails(p) \/ NewChecks(p) \/ NewUnlinks(p) \/ Serves(p)

Next ==
  \/ \E p \in Servers : Starts(p) \/ StopServer(p)
  \/ StartClient \/ ClientMain \/ SendRequest \/ ReadResponse \/ RunSingle \/ RunLine \/ Leaves
  \/ HandleRequest \/ \E key \in client.subs : SubscriberConnects(key)

Spec == Init /\ [][Next]_vars

-----------------------------------------------------------------------------
(* Properties. *)

Starting == {"parses", "checks", "removes", "new", "unlinks", "binds"}

\* The shapes of the path, of the servers and of the client.
TypeOK ==
  /\ path \in [kind : {"none", "socket", "file", "dir"}, owner : Servers \cup {Nobody}]
  /\ \A p \in Servers :
       /\ servers[p].pc \in Starting \cup {"off", "ended", "failed", "lost", "refused", "serves", "stopped"}
       /\ servers[p].pc # "serves" => servers[p].store = <<>> /\ servers[p].subs = {}
       /\ \A k \in DOMAIN servers[p].store : servers[p].store[k] \in Values
  /\ client.pc \in {"off", "parses", "connects", "waits", "responded", "ready", "interrupt",
                    "ended", "failed", "crashed"}
  /\ client.to # Nobody <=> client.pc = "waits"
  /\ entered \in 0..MaxEntered

(***************************************************************************)
(* The loop of FlagParser::new, which takes two arguments in one turn,     *)
(* gives every program the flags and the positional arguments that its     *)
(* arguments, each looked at by itself, stand for.                         *)
(***************************************************************************)
FlagsAgree ==
  /\ client.pc = "parses" => New(client.args, ClientFlags) = Expected(client.args, ClientFlags)
  /\ \A p \in Servers :
       servers[p].pc = "parses" =>
         New(servers[p].args, ServerFlags) = Expected(servers[p].args, ServerFlags)

(***************************************************************************)
(* However the starts of several servers interleave, over whatever was at  *)
(* the path: when they are done, and none was stopped or met an error of   *)
(* its storage or a directory, the path leads to one that serves.  Each    *)
(* removes what it finds and may lose to another between that and bind,    *)
(* but they never all lose, nor does one that gives up leave the path to   *)
(* nobody.                                                                 *)
(***************************************************************************)
SomebodyIsReached ==
  (/\ \A p \in Servers : servers[p].pc \in {"off", "ended", "refused", "lost", "serves"}
   /\ \E p \in Servers : servers[p].pc \in {"lost", "serves"})
  => path.owner # Nobody /\ servers[path.owner].pc = "serves"

(***************************************************************************)
(* Whatever keys and values the user writes, spaces, codes and nothing at  *)
(* all included, a server stores a value under a key only if the user      *)
(* asked for that, with the one exception that the text allows: of an      *)
(* empty value for the key "a c", where c is a code, nothing remains on    *)
(* the wire but a put of c's value for a, spaces at its end or not.        *)
(***************************************************************************)
PutNeverMisfiles ==
  \A p \in Servers : \A k \in DOMAIN servers[p].store :
    LET v == servers[p].store[k]
    IN \/ <<<<k>>, v>> \in asked
       \/ \E ask \in asked : ask[2] = Empty /\ TrimEnd(ask[1]) = <<k, Code[v]>>

(***************************************************************************)
(* Every response, and every message for a Subscriber, is parsed to what   *)
(* the server made the text of, whatever was stored through the protocol:  *)
(* a GET lists keys and codes with nothing but spaces between, and only    *)
(* since neither is ever empty in a server's store can they be told apart. *)
(***************************************************************************)
WhatIsSaidIsHeard ==
  /\ client.pc = "responded" => ParseResponse(TrimEnd(client.text)) = client.reply
  /\ news.got = news.sent

(***************************************************************************)
(* Lines that are entered at the prompt never make nkv-client panic, which *)
(* unwraps the result of every request: a line has no empty word, so its   *)
(* request and the response always parse.  Only the loss of the server     *)
(* ends it.                                                                *)
(***************************************************************************)
PromptSurvives ==
  client.pc = "crashed" /\ client.parts = <<>> => client.cut
=============================================================================
