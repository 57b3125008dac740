--------------------------- MODULE ProgramsProofs ---------------------------
(***************************************************************************)
(* Invariants of Programs, for any number of servers, any keys and values  *)
(* and any arguments and lines.                                            *)
(***************************************************************************)
EXTENDS Programs, FiniteSetTheorems, SequenceTheorems, WellFoundedInduction, TLAPS

ServerPcs == Starting \cup {"off", "ended", "failed", "lost", "refused", "serves", "stopped"}

ClientPcs == {"off", "parses", "connects", "waits", "responded", "ready", "interrupt",
              "ended", "failed", "crashed"}

\* The words that users write, and those of the protocol itself.
Words == Word \cup Verbs \cup {"id", "me", "HK", "DISCARDME"}

\* The requests that nkv-client sends.
PutRequests == [op : {"PUT"}, id : {<<"id">>}, client : {Me}, key : Values, value : Values]

OtherRequests ==
  [op : Verbs \ {"PUT"}, id : {<<"id">>, Me}, client : {Me}, key : Seq(Words) \ {<<>>}]

ServerOK(s) ==
  /\ s = [pc |-> s.pc, args |-> s.args, store |-> s.store, subs |-> s.subs]
  /\ s.pc \in ServerPcs
  /\ s.pc = "parses" => s.args \in ServerArgs
  /\ s.pc # "serves" => s.store = <<>> /\ s.subs = {}
  /\ \A k \in DOMAIN s.store : s.store[k] \in Values

ServersOK == DOMAIN servers = Servers /\ \A p \in Servers : ServerOK(servers[p])

ClientOK(c) ==
  /\ c = [pc |-> c.pc, args |-> c.args, parts |-> c.parts, stage |-> c.stage,
          request |-> c.request, to |-> c.to, text |-> c.text, reply |-> c.reply,
          subs |-> c.subs, cut |-> c.cut]
  /\ c.pc \in ClientPcs
  /\ c.to \in Servers \cup {Nobody} /\ (c.to # Nobody <=> c.pc = "waits")
  /\ c.pc = "parses" => c.args \in ClientArgs
  /\ c.parts \in Seq(Values)
  /\ c.pc \in {"connects", "waits"} => c.request \in PutRequests \cup OtherRequests
  /\ c.pc = "waits" => c.text = RequestText(c.request)

\* The client waits for a server that is there.
Connected == client.to # Nobody => servers[client.to].pc = "serves"

\* A put that is on its way was asked for.
AskedFor ==
  client.pc \in {"connects", "waits"} /\ client.request.op = "PUT" =>
    <<client.request.key, client.request.value>> \in asked

PathOK == path \in [kind : {"none", "socket", "file", "dir"}, owner : Servers \cup {Nobody}]

Shapes == ServersOK /\ ClientOK(client) /\ Connected /\ AskedFor /\ PathOK /\ entered \in 0..MaxEntered

-----------------------------------------------------------------------------
(* The steps of a server's start, as moves of one server. *)

\* A server that goes on keeps nothing but its place.
LEMMA GoesEffect ==
  ASSUME ServersOK, NEW p \in Servers, NEW pc \in ServerPcs, pc # "parses", Goes(p, pc)
  PROVE  /\ ServersOK'
         /\ servers'[p].pc = pc /\ servers'[p].store = <<>>
         /\ \A q \in Servers \ {p} : servers'[q] = servers[q]
<1>1. /\ DOMAIN servers' = Servers /\ \A q \in Servers \ {p} : servers'[q] = servers[q]
      /\ servers'[p] = [pc |-> pc, args |-> <<>>, store |-> <<>>, subs |-> {}]
  BY DEF Goes, ServersOK, NewServer
<1>2. ServerOK(servers'[p])
  BY <1>1 DEF ServerOK
<1>3. servers'[p].pc = pc /\ servers'[p].store = <<>>
  BY <1>1
<1> QED
  BY <1>1, <1>2, <1>3 DEF ServersOK

\* So does one that parses its arguments.
LEMMA StartEffect ==
  ASSUME ServersOK, NEW p \in Servers, StartServer(p)
  PROVE  /\ ServersOK'
         /\ servers'[p].pc = "parses" /\ servers'[p].store = <<>>
         /\ \A q \in Servers \ {p} : servers'[q] = servers[q]
<1>1. PICK args \in ServerArgs : servers' = [servers EXCEPT ![p].pc = "parses", ![p].args = args]
  BY DEF StartServer
<1>2. ServerOK(servers[p]) /\ servers[p].pc = "off"
  BY DEF ServersOK, StartServer
<1>3. servers'[p] = [pc |-> "parses", args |-> args, store |-> servers[p].store, subs |-> servers[p].subs]
  BY <1>1, <1>2 DEF ServersOK, ServerOK
<1>4. ServerOK(servers'[p])
  BY <1>2, <1>3 DEF ServerOK, ServerPcs, Starting
<1>5. DOMAIN servers' = Servers /\ \A q \in Servers \ {p} : servers'[q] = servers[q]
  BY <1>1 DEF ServersOK
<1>6. servers'[p].pc = "parses" /\ servers'[p].store = <<>>
  BY <1>2, <1>3 DEF ServerOK
<1> QED
  BY <1>4, <1>5, <1>6 DEF ServersOK

(***************************************************************************)
(* What each step of a start does: where it leads from, where to, and what *)
(* it does to the path.                                                    *)
(***************************************************************************)
Moves(p, from, to) ==
  /\ servers[p].pc = from /\ servers'[p].pc = to /\ servers'[p].store = <<>>
  /\ \A q \in Servers \ {p} : servers'[q] = servers[q]

Removed(p, from, to) ==
  \/ Moves(p, from, "lost") /\ path.kind = "none" /\ path'.kind = "none" /\ path'.owner = Nobody
  \/ Moves(p, from, "failed") /\ path' = path
  \/ Moves(p, from, to) /\ path.kind # "none" /\ path' = NoFile

\* remove_file of a start, in both places.
LEMMA RemoveEffect ==
  ASSUME ServersOK, PathOK, NEW p \in Servers, NEW to \in {"new", "binds"},
         NEW from, servers[p].pc = from, RemoveFile(p, to)
  PROVE  ServersOK' /\ PathOK' /\ Removed(p, from, to)
<1> DEFINE pc == CASE path.kind = "none" -> "lost" [] path.kind = "dir" -> "failed" [] OTHER -> to
<1>1. pc \in ServerPcs /\ pc # "parses" /\ Goes(p, pc) /\ path' = IF path.kind = "dir" THEN path ELSE NoFile
  BY DEF RemoveFile, ServerPcs, Starting
<1>2. /\ ServersOK' /\ servers'[p].pc = pc /\ servers'[p].store = <<>>
      /\ \A q \in Servers \ {p} : servers'[q] = servers[q]
  <2> HIDE DEF pc
  <2> QED
    BY <1>1, GoesEffect
<1> QED
  BY <1>1, <1>2 DEF Removed, Moves, NoFile, PathOK

\* The moves that leave the path alone, with what they have seen of it.
Stays(from, to) ==
  \/ from = "off" /\ to \in {"parses", "new"}
  \/ from = "parses" /\ to \in {"ended", "checks"}
  \/ from = "checks" /\ to = IF path.kind = "none" THEN "new" ELSE "removes"
  \/ from = "new" /\ to = "failed"
  \/ from = "new" /\ path.kind = "none" /\ to = "binds"
  \/ from = "new" /\ path.kind # "none" /\ to \in {"unlinks", "refused"}
  \/ from = "binds" /\ path.kind # "none" /\ to = "lost"
  \/ from = "serves" /\ to = "stopped"

Binds(p) == Moves(p, "binds", "serves") /\ path.kind = "none" /\ path' = [kind |-> "socket", owner |-> p]

\* Everything that one server can do to its place and to the path.
Start(p) ==
  \/ path' = path /\ \E from, to \in ServerPcs : Stays(from, to) /\ Moves(p, from, to)
  \/ Removed(p, "removes", "new") \/ Removed(p, "unlinks", "binds")
  \/ Binds(p)

\* A move of Goes, with the path as it was.
LEMMA StayEffect ==
  ASSUME ServersOK, PathOK, NEW p \in Servers, NEW from \in ServerPcs, NEW to \in ServerPcs,
         servers[p].pc = from, to # "parses", Goes(p, to), path' = path, Stays(from, to)
  PROVE  ServersOK' /\ PathOK' /\ Start(p)
BY GoesEffect DEF Start, Moves, PathOK

\* The actions of a server's start are such steps.
LEMMA StartsEffect ==
  ASSUME ServersOK, PathOK, NEW p \in Servers, Starts(p)
  PROVE  ServersOK' /\ PathOK' /\ Start(p)
<1> USE DEF ServerPcs, Starting
<1>1. CASE StartServer(p)
  <2>1. path' = path /\ servers[p].pc = "off"
    BY <1>1 DEF StartServer
  <2> QED
    BY <1>1, <2>1, StartEffect DEF Start, Moves, Stays, PathOK
<1>2. CASE StartEmbedded(p)
  BY <1>2, StayEffect DEF StartEmbedded, Stays
<1>3. CASE MainParses(p)
  <2>1. PICK to \in {"ended", "checks"} : Goes(p, to) /\ path' = path /\ servers[p].pc = "parses"
    BY <1>3 DEF MainParses
  <2> QED
    BY <2>1, StayEffect DEF Stays
<1>4. CASE MainChecks(p)
  <2>1. PICK to \in {"new", "removes"} :
          /\ to = IF path.kind = "none" THEN "new" ELSE "removes"
          /\ Goes(p, to) /\ path' = path /\ servers[p].pc = "checks"
    BY <1>4 DEF MainChecks
  <2> QED
    BY <2>1, StayEffect DEF Stays
<1>5. CASE MainRemoves(p)
  BY <1>5, RemoveEffect DEF MainRemoves, Start
<1>6. CASE StorageFails(p)
  BY <1>6, StayEffect DEF StorageFails, Stays
<1>7. CASE NewChecks(p)
  <2>1. PICK to \in {"binds", "unlinks", "refused"} :
          /\ to = "binds" <=> path.kind = "none"
          /\ Goes(p, to) /\ path' = path /\ servers[p].pc = "new"
    BY <1>7 DEF NewChecks
  <2> QED
    BY <2>1, StayEffect DEF Stays
<1>8. CASE NewUnlinks(p)
  BY <1>8, RemoveEffect DEF NewUnlinks, Start
<1>9. CASE Serves(p)
  <2>1. CASE path.kind = "none"
    <3>1. Goes(p, "serves") /\ path' = [kind |-> "socket", owner |-> p] /\ servers[p].pc = "binds"
      BY <1>9, <2>1 DEF Serves
    <3> QED
      BY <2>1, <3>1, GoesEffect DEF Start, Binds, Moves, PathOK
  <2>2. CASE path.kind # "none"
    BY <1>9, <2>2, StayEffect DEF Serves, Stays
  <2> QED
    BY <2>1, <2>2
<1> QED
  BY <1>1, <1>2, <1>3, <1>4, <1>5, <1>6, <1>7, <1>8, <1>9 DEF Starts

-----------------------------------------------------------------------------
(***************************************************************************)
(* Why the path leads to somebody in the end.  What has an owner is a      *)
(* socket that the owner has bound; what has none was there from the       *)
(* start, and then nobody has come past it; and where there is nothing,    *)
(* somebody has removed it and is still on the way to bind, unless a       *)
(* storage failed or a server was stopped.                                 *)
(***************************************************************************)
Owned == path.owner # Nobody => path.kind = "socket" /\ servers[path.owner].pc \in {"serves", "stopped"}

Untouched ==
  path.owner = Nobody /\ path.kind # "none" =>
    \A p \in Servers : servers[p].pc \notin {"binds", "lost", "serves", "stopped"}

OnTheWay ==
  /\ path.kind = "none"
  /\ \A p \in Servers : servers[p].pc \notin {"failed", "stopped"}
  /\ \E p \in Servers : servers[p].pc \in {"removes", "unlinks", "lost", "serves"}
  => \E p \in Servers : servers[p].pc \in {"new", "binds"}

PathInv == Owned /\ Untouched /\ OnTheWay

\* A step of a server keeps all of it.
LEMMA StartKeepsPathInv ==
  ASSUME PathOK, PathInv, NEW p \in Servers, Start(p)
  PROVE  PathInv'
<1> USE DEF PathInv, Owned, Untouched, OnTheWay, Moves
<1>1. Nobody \notin Servers
  BY ProgramsAssumption
<1>2. ASSUME path' = path, NEW from \in ServerPcs, NEW to \in ServerPcs, Stays(from, to), Moves(p, from, to)
      PROVE  PathInv'
  <2>1. Owned'
    BY <1>1, <1>2 DEF Stays, PathOK
  <2>2. Untouched'
    BY <1>1, <1>2 DEF Stays, PathOK
  <2>3. OnTheWay'
    BY <1>1, <1>2 DEF Stays, PathOK
  <2> QED
    BY <2>1, <2>2, <2>3
<1>3. ASSUME NEW from \in {"removes", "unlinks"}, NEW to \in {"new", "binds"}, Removed(p, from, to)
      PROVE  PathInv'
  <2>1. Owned'
    BY <1>1, <1>3 DEF Removed, NoFile, PathOK
  <2>2. Untouched'
    BY <1>1, <1>3 DEF Removed, NoFile, PathOK
  <2>3. OnTheWay'
    BY <1>1, <1>3 DEF Removed, NoFile, PathOK
  <2> QED
    BY <2>1, <2>2, <2>3
<1>4. CASE Binds(p)
  BY <1>1, <1>4 DEF Binds
<1> QED
  BY <1>2, <1>3, <1>4 DEF Start

-----------------------------------------------------------------------------
(* Induction over the natural numbers, from the well-foundedness of their order. *)

\* A set of natural numbers has a least element.
LEMMA Least ==
  ASSUME NEW S \in SUBSET Nat, S # {}
  PROVE  \E n \in S : \A m \in S : n <= m
<1> DEFINE R == {ss \in Nat \X Nat : ss[1] < ss[2]}
<1>1. R = OpToRel(<, Nat)
  BY DEF OpToRel
<1>2. IsWellFoundedOn(R, Nat)
  BY <1>1, NatLessThanWellFounded
<1>3. PICK n \in S : \A m \in S : <<m, n>> \notin R
  <2> HIDE DEF R
  <2> QED
    BY <1>2, WFMin
<1>4. \A m \in S : ~(m < n)
  BY <1>3
<1> QED
  BY <1>3, <1>4

\* A set that holds 0 and every successor of its elements holds every number.
LEMMA Induction ==
  ASSUME NEW S \in SUBSET Nat, 0 \in S, \A n \in S : n + 1 \in S
  PROVE  S = Nat
<1>1. ASSUME Nat \ S # {} PROVE FALSE
  <2>1. PICK n \in Nat \ S : \A m \in Nat \ S : n <= m
    BY <1>1, Least
  <2>2. n # 0 /\ n - 1 \in Nat
    BY <2>1
  <2>3. n - 1 \in S
    BY <2>1, <2>2
  <2> QED
    BY <2>1, <2>2, <2>3
<1> QED
  BY <1>1

-----------------------------------------------------------------------------
(* Texts. *)

\* TrimEnd leaves the text up to its last word that is not empty, and at least the first one.
LEMMA TrimEndEffect ==
  ASSUME NEW S, NEW t \in Seq(S), t # <<>>
  PROVE  \E n \in 1..Len(t) :
           /\ TrimEnd(t) = SubSeq(t, 1, n)
           /\ n = 1 \/ t[n] # NoWord
           /\ \A j \in n+1..Len(t) : t[j] = NoWord
<1> DEFINE kept == {i \in DOMAIN t : \E j \in i..Len(t) : t[j] # NoWord} \cup {1}
           last == {m \in Nat : m >= 1 /\ \A j \in m+1..Len(t) : t[j] = NoWord}
<1>1. Len(t) \in Nat /\ Len(t) >= 1 /\ DOMAIN t = 1..Len(t)
  OBVIOUS
<1>2. Len(t) \in last
  BY <1>1
<1>3. PICK n \in last : \A m \in last : n <= m
  <2>1. last \in SUBSET Nat /\ last # {}
    BY <1>2
  <2> HIDE DEF last
  <2> QED
    BY <2>1, Least
<1>4. n \in 1..Len(t) /\ \A j \in n+1..Len(t) : t[j] = NoWord
  BY <1>1, <1>2, <1>3
<1>5. n = 1 \/ t[n] # NoWord
  <2>1. SUFFICES ASSUME n # 1, t[n] = NoWord PROVE FALSE
    OBVIOUS
  <2>2. n - 1 \in last
    BY <1>4, <2>1
  <2> QED
    BY <1>3, <1>4, <2>2
<1>6. kept = 1..n
  <2>1. ASSUME NEW i \in kept PROVE i \in 1..n
    BY <1>1, <1>4
  <2>2. ASSUME NEW i \in 1..n PROVE i \in kept
    BY <1>1, <1>4, <1>5
  <2> QED
    BY <2>1, <2>2
<1>7. Cardinality(kept) = n
  <2>1. Cardinality(1..n) = n
    BY <1>4, FS_Interval
  <2> QED
    BY <1>6, <2>1
<1>8. TrimEnd(t) = SubSeq(t, 1, n)
  BY <1>7 DEF TrimEnd
<1> QED
  BY <1>4, <1>5, <1>8

\* What parses as a put has a value that can be stored.
LEMMA ParsedValue ==
  ASSUME NEW t, ParseRequest(t).op = "PUT"
  PROVE  ParseRequest(t).value \in Values
<1>1. ParseRequest(t) # Refused
  BY DEF Refused
<1>2. t[1] = "PUT"
  BY <1>1 DEF ParseRequest, Request
<1>3. Decodes(Splitn(t, 5)[5][1])
  BY <1>1, <1>2 DEF ParseRequest
<1>4. ParseRequest(t).value = Decode(Splitn(t, 5)[5][1])
  BY <1>1, <1>2 DEF ParseRequest, PutRequest
<1> QED
  BY <1>3, <1>4 DEF Decodes, Decode

\* A text behind another one.
LEMMA Joined ==
  ASSUME NEW S, NEW s \in Seq(S), NEW t \in Seq(S)
  PROVE  /\ s \o t \in Seq(S) /\ Len(s \o t) = Len(s) + Len(t)
         /\ \A i \in 1..Len(s) : (s \o t)[i] = s[i]
         /\ \A i \in 1..Len(t) : (s \o t)[i + Len(s)] = t[i]
<1>1. Len(s) \in Nat /\ Len(t) \in Nat
  OBVIOUS
<1>2. \A i \in 1..Len(t) : (s \o t)[i + Len(s)] = t[i]
  BY <1>1, ConcatProperties
<1> QED
  BY <1>1, <1>2, ConcatProperties

\* The words of a put as it is sent.
LEMMA PutText ==
  ASSUME NEW r \in PutRequests
  PROVE  LET t == RequestText(r)
             len == Len(r.key)
         IN /\ t \in Seq(Words) /\ len \in Nat /\ len >= 1 /\ Len(t) = len + 4
            /\ \A i \in 4..len + 3 : t[i] = r.key[i - 3]
            /\ t[len + 4] = Code[r.value]
<1> DEFINE tail == r.key \o <<Code[r.value]>>
           two == <<"PUT">> \o <<"id">>
           front == two \o <<"me">>
           t == front \o tail
<1>1. r.op = "PUT" /\ r.id = <<"id">> /\ r.client = <<"me">> /\ r.value \in Values /\ r.key \in Texts
  BY CodeAssumption DEF PutRequests, Me
<1>2. r.key \in Seq(Words) /\ Len(r.key) \in Nat /\ Len(r.key) >= 1
  <2>1. r.key \in Seq(Word) /\ Len(r.key) \in Nat /\ Len(r.key) >= 1
    BY <1>1 DEF Texts
  <2> QED
    BY <2>1, SeqMonotonic DEF Words
<1>3. Code[r.value] \in Words
  BY <1>1, CodeAssumption DEF Words
<1>4. RequestText(r) = t
  BY <1>1 DEF RequestText
<1>5. /\ tail \in Seq(Words) /\ Len(tail) = Len(r.key) + 1
      /\ \A i \in 1..Len(r.key) : tail[i] = r.key[i]
      /\ tail[Len(r.key) + 1] = Code[r.value]
  BY <1>2, <1>3, ConcatProperties
<1>6. <<"PUT">> \in Seq(Words) /\ <<"id">> \in Seq(Words) /\ <<"me">> \in Seq(Words)
  BY DEF Words, Verbs
<1>7. two \in Seq(Words) /\ Len(two) = 2
  BY <1>6, ConcatProperties
<1>8. front \in Seq(Words) /\ Len(front) = 3
  <2> HIDE DEF two
  <2>1. Len(<<"me">>) = 1
    OBVIOUS
  <2>2. front \in Seq(Words) /\ Len(front) = Len(two) + Len(<<"me">>)
    BY <1>6, <1>7, ConcatProperties
  <2> QED
    BY <1>7, <2>1, <2>2
<1> HIDE DEF tail, front
<1>9. /\ t \in Seq(Words) /\ Len(t) = Len(tail) + 3
      /\ \A i \in 1..Len(t) : t[i] = IF i <= 3 THEN front[i] ELSE tail[i - 3]
  <2>1. /\ t \in Seq(Words) /\ Len(t) = Len(front) + Len(tail)
        /\ \A i \in 1..Len(front) + Len(tail) :
             t[i] = IF i <= Len(front) THEN front[i] ELSE tail[i - Len(front)]
    BY <1>5, <1>8, ConcatProperties
  <2>2. Len(tail) \in Nat
    BY <1>5
  <2> HIDE DEF t
  <2> QED
    BY <1>8, <2>1, <2>2
<1> HIDE DEF t
<1>10. ASSUME NEW i \in 4..Len(r.key) + 3 PROVE t[i] = r.key[i - 3]
  <2>1. i \in 1..Len(t) /\ i > 3 /\ i - 3 \in 1..Len(r.key)
    BY <1>2, <1>5, <1>9
  <2> QED
    BY <2>1, <1>5, <1>9
<1>11. t[Len(r.key) + 4] = Code[r.value]
  <2>1. /\ Len(r.key) + 4 \in 1..Len(t) /\ ~(Len(r.key) + 4 <= 3)
        /\ (Len(r.key) + 4) - 3 = Len(r.key) + 1
    BY <1>2, <1>5, <1>9
  <2> QED
    BY <2>1, <1>5, <1>9
<1> QED
  BY <1>2, <1>4, <1>5, <1>9, <1>10, <1>11

\* What parses as a put has five words, the fifth of them a code.
LEMMA ParsedPut ==
  ASSUME NEW S, NEW u \in Seq(S), u # <<>>, ParseRequest(u).op = "PUT"
  PROVE  /\ Len(u) = 5 /\ u[1] = "PUT"
         /\ ParseRequest(u).key = <<u[4]>>
         /\ Code[ParseRequest(u).value] = u[5]
<1> DEFINE f == Splitn(u, 5)
<1>1. Len(u) \in Nat /\ Len(u) >= 1
  OBVIOUS
<1>2. ParseRequest(u) # Refused
  BY DEF Refused
<1>3. u[1] = "PUT"
  BY <1>2 DEF ParseRequest, Request
<1>4. /\ Len(f) >= 5 /\ Len(f[5]) = 1 /\ Decodes(f[5][1])
      /\ ParseRequest(u).key = f[4] /\ ParseRequest(u).value = Decode(f[5][1])
  BY <1>2, <1>3 DEF ParseRequest, PutRequest
<1>5. Len(u) >= 5
  BY <1>1, <1>4 DEF Splitn
<1>6. f[4] = <<u[4]>> /\ f[5] = SubSeq(u, 5, Len(u))
  BY <1>1, <1>5 DEF Splitn
<1>7. Len(u) = 5 /\ f[5][1] = u[5]
  <2>1. Len(SubSeq(u, 5, Len(u))) = Len(u) - 4 /\ SubSeq(u, 5, Len(u))[1] = u[5]
    BY <1>1, <1>5
  <2> HIDE DEF f
  <2> QED
    BY <1>1, <1>4, <1>5, <1>6, <2>1
<1>8. Code[Decode(u[5])] = u[5]
  BY <1>4, <1>7 DEF Decodes, Decode
<1> QED
  BY <1>3, <1>4, <1>6, <1>7, <1>8

(***************************************************************************)
(* A put that arrives as a put is the one that was sent, but for an empty  *)
(* value: then the second and last word of the key is taken for the code   *)
(* of the value.                                                           *)
(***************************************************************************)
LEMMA PutOnTheWire ==
  ASSUME NEW sent \in PutRequests, NEW r, r = ParseRequest(TrimEnd(RequestText(sent))), r.op = "PUT"
  PROVE  /\ r.value \in Values
         /\ \/ sent.key = <<r.key[1]>> /\ sent.value = r.value
            \/ sent.value = Empty /\ TrimEnd(sent.key) = <<r.key[1], Code[r.value]>>
<1> DEFINE t == RequestText(sent)
           len == Len(sent.key)
<1>1. t \in Seq(Words) /\ len \in Nat /\ len >= 1 /\ Len(t) = len + 4
  BY PutText
<1>2. (\A i \in 4..len + 3 : t[i] = sent.key[i - 3]) /\ t[len + 4] = Code[sent.value]
  BY PutText
<1>3. sent.key \in Seq(Word) /\ sent.key # <<>> /\ sent.value \in Values
  BY CodeAssumption DEF PutRequests, Texts
<1> HIDE DEF t
<1>4. PICK n \in 1..Len(t) :
        /\ TrimEnd(t) = SubSeq(t, 1, n)
        /\ n = 1 \/ t[n] # NoWord
        /\ \A j \in n+1..Len(t) : t[j] = NoWord
  BY <1>1, TrimEndEffect
<1> DEFINE u == SubSeq(t, 1, n)
<1>5. u \in Seq(Words) /\ u # <<>> /\ Len(u) = n /\ \A i \in 1..n : u[i] = t[i]
  BY <1>1, <1>4
<1>6. r = ParseRequest(u)
  BY <1>4 DEF t
<1> HIDE DEF u
<1>7. n = 5 /\ r.key = <<u[4]>> /\ Code[r.value] = u[5]
  BY <1>5, <1>6, ParsedPut
<1>8. r.value \in Values
  BY <1>6, ParsedValue
<1>9. r.key[1] = t[4] /\ Code[r.value] = t[5]
  BY <1>5, <1>7
<1>10. sent.key[1] = t[4]
  BY <1>1, <1>2
<1>11. CASE len = 1
  <2>1. Code[sent.value] = Code[r.value]
    BY <1>2, <1>9, <1>11
  <2>2. sent.value = r.value
    BY <2>1, <1>3, <1>8, CodeAssumption
  <2>3. sent.key = <<sent.key[1]>>
    BY <1>3, <1>11
  <2> QED
    BY <2>2, <2>3, <1>8, <1>9, <1>10
<1>12. CASE len >= 2
  <2>1. t[5] # NoWord /\ \A j \in 6..Len(t) : t[j] = NoWord
    BY <1>4, <1>7
  <2>2. sent.value = Empty
    <3>1. len + 4 \in 6..Len(t)
      BY <1>1, <1>12
    <3>2. Code[sent.value] = NoWord
      BY <1>2, <2>1, <3>1
    <3> QED
      BY <3>2, <1>3, CodeAssumption
  <2>3. sent.key[2] = t[5]
    <3>1. 5 \in 4..len + 3
      BY <1>1, <1>12
    <3> QED
      BY <1>2, <3>1
  <2>4. ASSUME NEW j \in 3..len PROVE sent.key[j] = NoWord
    <3>1. j + 3 \in 4..len + 3 /\ j + 3 \in 6..Len(t) /\ (j + 3) - 3 = j
      BY <1>1
    <3> QED
      BY <1>2, <2>1, <3>1
  <2>5. PICK m \in 1..len :
          /\ TrimEnd(sent.key) = SubSeq(sent.key, 1, m)
          /\ m = 1 \/ sent.key[m] # NoWord
          /\ \A j \in m+1..len : sent.key[j] = NoWord
    BY <1>3, TrimEndEffect
  <2>6. m = 2
    <3>1. CASE m = 1
      BY <1>12, <2>1, <2>3, <2>5, <3>1
    <3>2. CASE m >= 3
      BY <2>4, <2>5, <3>2
    <3> QED
      BY <1>1, <3>1, <3>2
  <2>7. SubSeq(sent.key, 1, 2) = <<sent.key[1], sent.key[2]>>
    <3> DEFINE v == SubSeq(sent.key, 1, 2)
    <3>1. v \in Seq(Word) /\ Len(v) = 2 /\ v[1] = sent.key[1] /\ v[2] = sent.key[2]
      BY <1>3, <1>12
    <3> HIDE DEF v
    <3>2. v = <<v[1], v[2]>>
      BY <3>1
    <3> QED
      BY <3>1, <3>2 DEF v
  <2> QED
    BY <2>2, <2>3, <2>5, <2>6, <2>7, <1>8, <1>9, <1>10
<1> QED
  <2>1. len \in Nat /\ len >= 1
    BY <1>1
  <2>2. len = 1 \/ len >= 2
    <3> HIDE DEF len
    <3> QED
      BY <2>1
  <2> QED
    BY <2>2, <1>11, <1>12

\* Another request never arrives as a put.
LEMMA OtherOnTheWire ==
  ASSUME NEW sent \in OtherRequests
  PROVE  ParseRequest(TrimEnd(RequestText(sent))).op # "PUT"
<1> DEFINE tail == CASE sent.op = "PUT" -> sent.key \o <<Code[sent.value]>>
                     [] sent.op = "HEALTH" -> <<"HK">>
                     [] sent.op = "VERSION" -> <<"DISCARDME">>
                     [] OTHER -> sent.key
           a == <<sent.op>> \o sent.id
           b == a \o sent.client
           t == b \o tail
<1>1. /\ sent.op \in Words /\ sent.op # "PUT" /\ sent.id \in Seq(Words)
      /\ sent.client \in Seq(Words) /\ sent.key \in Seq(Words)
  <2>1. <<"id">> \in Seq(Words) /\ <<"me">> \in Seq(Words)
    BY DEF Words
  <2> QED
    BY <2>1 DEF OtherRequests, Words, Me
<1>2. RequestText(sent) = t
  BY DEF RequestText
<1>3. tail \in Seq(Words)
  <2>1. <<"HK">> \in Seq(Words) /\ <<"DISCARDME">> \in Seq(Words)
    BY DEF Words
  <2>2. CASE sent.op = "HEALTH"
    BY <2>1, <2>2
  <2>3. CASE sent.op = "VERSION"
    BY <2>1, <2>3
  <2>4. CASE sent.op \notin {"HEALTH", "VERSION"}
    BY <1>1, <2>4
  <2> QED
    BY <2>2, <2>3, <2>4
<1>4. a \in Seq(Words) /\ Len(a) >= 1 /\ a[1] = sent.op
  BY <1>1, ConcatProperties
<1> HIDE DEF a
<1>5. b \in Seq(Words) /\ Len(b) >= 1 /\ b[1] = sent.op
  BY <1>1, <1>4, ConcatProperties
<1> HIDE DEF b, tail
<1>6. t \in Seq(Words) /\ Len(t) >= 1 /\ t[1] = sent.op
  BY <1>3, <1>5, ConcatProperties
<1> HIDE DEF t
<1>7. PICK n \in 1..Len(t) : TrimEnd(t) = SubSeq(t, 1, n)
  BY <1>6, TrimEndEffect
<1>8. SubSeq(t, 1, n) \in Seq(Words) /\ SubSeq(t, 1, n) # <<>> /\ SubSeq(t, 1, n)[1] = sent.op
  BY <1>6, <1>7
<1> QED
  BY <1>1, <1>2, <1>7, <1>8, ParsedPut

-----------------------------------------------------------------------------
(* The loop of FlagParser::new, turn by turn. *)

Arguments(S) == Seq([flag : BOOLEAN, text : S])

\* The loop's states exist, and each is the turn of the one before.
LEMMA LoopRuns ==
  ASSUME NEW args, Len(args) \in Nat
  PROVE  \E after :
           /\ after[0] = Begin
           /\ \A n \in 1..Len(args) : after[n] = Turn(after[n - 1], args)
           /\ Loop(args) = after[Len(args)]
<1> DEFINE Def(f, n) == IF n = 0 THEN Begin ELSE Turn(f[n - 1], args)
           T == {n \in Nat : \E f : f = [m \in 0..n |-> Def(f, m)]}
<1>1. 0 \in T
  <2>1. [m \in 0..0 |-> Begin] = [m \in 0..0 |-> Def([k \in 0..0 |-> Begin], m)]
    OBVIOUS
  <2> QED
    BY <2>1
<1>2. ASSUME NEW n \in T PROVE n + 1 \in T
  <2>1. PICK f : f = [m \in 0..n |-> Def(f, m)]
    OBVIOUS
  <2> DEFINE g == [m \in 0..n+1 |-> IF m = n + 1 THEN Turn(f[n], args) ELSE f[m]]
  <2>2. n \in Nat
    OBVIOUS
  <2>3. ASSUME NEW m \in 0..n+1 PROVE g[m] = Def(g, m)
    <3>1. CASE m = 0
      <4>1. g[0] = f[0] /\ f[0] = Begin
        BY <2>1, <2>2
      <4> QED
        BY <3>1, <4>1
    <3>2. CASE m = n + 1
      <4>1. g[n + 1] = Turn(f[n], args) /\ g[n] = f[n] /\ (n + 1) - 1 = n /\ n + 1 # 0
        BY <2>2
      <4> HIDE DEF g
      <4> QED
        BY <3>2, <4>1
    <3>3. CASE m \in 1..n
      <4>1. g[m] = f[m] /\ g[m - 1] = f[m - 1] /\ m # 0
        BY <2>2, <3>3
      <4>2. f[m] = Def(f, m)
        BY <2>1, <2>2, <3>3
      <4> HIDE DEF g
      <4> QED
        BY <4>1, <4>2
    <3> QED
      BY <2>2, <3>1, <3>2, <3>3
  <2>4. g = [m \in 0..n+1 |-> Def(g, m)]
    <3> DEFINE h == [m \in 0..n+1 |-> Def(g, m)]
    <3>1. \A m \in 0..n+1 : h[m] = Def(g, m)
      OBVIOUS
    <3> HIDE DEF Def
    <3>2. \A m \in 0..n+1 : g[m] = h[m]
      BY <2>3, <3>1
    <3> QED
      BY <3>2
  <2>5. \E f1 : f1 = [m \in 0..n+1 |-> Def(f1, m)]
    <3> HIDE DEF g, Def
    <3> QED
      BY <2>4
  <2> HIDE DEF Def
  <2> QED
    BY <2>2, <2>5
<1>3. \E f : f = [m \in 0..Len(args) |-> Def(f, m)]
  <2> HIDE DEF T
  <2>1. T = Nat
    <3>1. T \in SUBSET Nat
      BY DEF T
    <3> QED
      BY <1>1, <1>2, <3>1, Induction
  <2>2. Len(args) \in T
    BY <2>1
  <2> QED
    BY <2>2 DEF T
<1> DEFINE after == CHOOSE f : f = [m \in 0..Len(args) |-> Def(f, m)]
<1>4. after = [m \in 0..Len(args) |-> Def(after, m)]
  <2> HIDE DEF Def
  <2> QED
    BY <1>3
<1>5. Loop(args) = after[Len(args)]
  BY DEF Loop
<1> HIDE DEF after
<1>6. after[0] = Begin /\ \A n \in 1..Len(args) : after[n] = Turn(after[n - 1], args)
  BY <1>4
<1> QED
  BY <1>5, <1>6

(***************************************************************************)
(* The state between two turns against the arguments that have been taken: *)
(* they are the first ones, the next one is no flag's value, the flags are *)
(* theirs and so are the positional arguments, in order.                   *)
(***************************************************************************)
PositionalOf(args) == DOMAIN args \ (FlagsOf(args) \cup ValuesOf(args))

UpTo(args, m) == {j \in PositionalOf(args) : j <= m}

Rank(args, i) == Cardinality(UpTo(args, i))

ValueAt(args, i) == IF i + 1 \in ValuesOf(args) THEN args[i + 1].text ELSE NoValue

Twice(args) == \E i, j \in FlagsOf(args) : i # j /\ args[i].text = args[j].text

Taken(args, s) == {i \in FlagsOf(args) : i < s.next}

FlagsSoFar(args, s) ==
  /\ s.flags = [t \in DOMAIN s.flags |-> s.flags[t]]
  /\ DOMAIN s.flags = {args[i].text : i \in Taken(args, s)}
  /\ \A i, j \in Taken(args, s) : args[i].text = args[j].text => i = j
  /\ \A i \in Taken(args, s) : s.flags[args[i].text] = ValueAt(args, i)

PositionalSoFar(S, args, s) ==
  /\ s.positional \in Seq(S) /\ Len(s.positional) = Rank(args, s.next - 1)
  /\ \A n \in 1..Len(s.positional) :
       \E i \in UpTo(args, s.next - 1) : Rank(args, i) = n /\ s.positional[n] = args[i].text

BetweenTurns(S, args, s) ==
  /\ s = [ok |-> s.ok, next |-> s.next, flags |-> s.flags, positional |-> s.positional]
  /\ s.ok \in BOOLEAN /\ (~s.ok => Twice(args))
  /\ s.next \in 1..Len(args) + 1 /\ s.next \notin ValuesOf(args)
  /\ FlagsSoFar(args, s)
  /\ PositionalSoFar(S, args, s)

\* Positional arguments are counted by their number.
LEMMA RankOne ==
  ASSUME NEW S, NEW args \in Arguments(S), NEW m \in Nat
  PROVE  /\ IsFiniteSet(UpTo(args, m)) /\ Rank(args, m) \in Nat
         /\ m + 1 \in PositionalOf(args) => Rank(args, m + 1) = Rank(args, m) + 1
         /\ m + 1 \notin PositionalOf(args) =>
              Rank(args, m + 1) = Rank(args, m) /\ UpTo(args, m + 1) = UpTo(args, m)
<1>1. PositionalOf(args) \subseteq 1..Len(args) /\ Len(args) \in Nat
  BY DEF PositionalOf, Arguments
<1>2. IsFiniteSet(UpTo(args, m))
  <2>1. IsFiniteSet(1..Len(args))
    BY <1>1, FS_Interval
  <2>2. UpTo(args, m) \in SUBSET (1..Len(args))
    BY <1>1 DEF UpTo
  <2> QED
    BY <2>1, <2>2, FS_Subset
<1>3. Rank(args, m) \in Nat
  BY <1>2, FS_CardinalityType DEF Rank
<1>4. ASSUME m + 1 \in PositionalOf(args) PROVE Rank(args, m + 1) = Rank(args, m) + 1
  <2>1. UpTo(args, m + 1) = UpTo(args, m) \cup {m + 1} /\ m + 1 \notin UpTo(args, m)
    BY <1>1, <1>4 DEF UpTo
  <2> QED
    BY <1>2, <2>1, FS_AddElement DEF Rank
<1>5. ASSUME m + 1 \notin PositionalOf(args) PROVE UpTo(args, m + 1) = UpTo(args, m)
  BY <1>1, <1>5 DEF UpTo
<1> QED
  BY <1>2, <1>3, <1>4, <1>5 DEF Rank

\* Before the first turn nothing is taken.
LEMMA BeginBetweenTurns ==
  ASSUME NEW S, NEW args \in Arguments(S)
  PROVE  BetweenTurns(S, args, Begin)
<1>1. Begin = [ok |-> TRUE, next |-> 1, flags |-> <<>>, positional |-> <<>>] /\ Len(args) \in Nat
  BY DEF Begin, Arguments
<1>2. 1 \notin ValuesOf(args)
  BY DEF ValuesOf
<1>3. Taken(args, Begin) = {}
  BY <1>1 DEF Taken, FlagsOf, Arguments
<1>4. FlagsSoFar(args, Begin)
  <2>1. Begin.flags = [t \in {} |-> Begin.flags[t]] /\ DOMAIN Begin.flags = {}
    BY <1>1
  <2> QED
    BY <1>3, <2>1 DEF FlagsSoFar
<1>5. UpTo(args, 0) = {} /\ Rank(args, 0) = 0
  <2>1. UpTo(args, 0) = {}
    BY DEF UpTo, PositionalOf, Arguments
  <2> QED
    BY <2>1, FS_EmptySet DEF Rank
<1>6. PositionalSoFar(S, args, Begin)
  BY <1>1, <1>5 DEF PositionalSoFar
<1> QED
  BY <1>1, <1>2, <1>4, <1>6 DEF BetweenTurns

\* A turn that takes a positional argument.
LEMMA PlainTurn ==
  ASSUME NEW S, NEW args \in Arguments(S), NEW s, BetweenTurns(S, args, s),
         s.next <= Len(args), ~args[s.next].flag
  PROVE  BetweenTurns(S, args, WithArg(s, args[s.next]))
<1> DEFINE i == s.next
           t == WithArg(s, args[i])
<1>1. Len(args) \in Nat /\ DOMAIN args = 1..Len(args) /\ i \in 1..Len(args) /\ args[i].text \in S
  <2>1. Len(args) \in Nat /\ DOMAIN args = 1..Len(args)
    BY DEF Arguments
  <2>2. i \in 1..Len(args) + 1
    BY DEF BetweenTurns
  <2>3. i \in 1..Len(args)
    BY <2>1, <2>2
  <2>4. args[i] \in [flag : BOOLEAN, text : S]
    BY <2>3, ElementOfSeq DEF Arguments
  <2> QED
    BY <2>1, <2>3, <2>4
<1>2. i - 1 \in Nat /\ (i - 1) + 1 = i /\ (i + 1) - 1 = i
  BY <1>1
<1>3. i \in PositionalOf(args) /\ i \notin FlagsOf(args) /\ i + 1 \notin ValuesOf(args)
  BY <1>1, <1>2 DEF BetweenTurns, PositionalOf, FlagsOf, ValuesOf
<1>4. t = [ok |-> s.ok, next |-> i + 1, flags |-> s.flags, positional |-> Append(s.positional, args[i].text)]
  BY DEF WithArg
<1>5. s.positional \in Seq(S) /\ Len(s.positional) = Rank(args, i - 1)
  BY DEF BetweenTurns, PositionalSoFar
<1> DEFINE len == Len(s.positional)
<1>6. len \in Nat /\ Rank(args, i) = len + 1
  BY <1>2, <1>3, <1>5, RankOne
<1> HIDE DEF t
<1>7. /\ t.positional \in Seq(S) /\ Len(t.positional) = len + 1
      /\ t.positional[len + 1] = args[i].text
      /\ \A n \in 1..len : t.positional[n] = s.positional[n]
  BY <1>1, <1>4, <1>5, <1>6, AppendProperties
<1>8. PositionalSoFar(S, args, t)
  <2>1. t.next - 1 = i
    BY <1>2, <1>4
  <2>2. ASSUME NEW n \in 1..len
        PROVE  \E j \in UpTo(args, i) : Rank(args, j) = n /\ t.positional[n] = args[j].text
    <3>1. PICK j \in UpTo(args, i - 1) : Rank(args, j) = n /\ s.positional[n] = args[j].text
      BY DEF BetweenTurns, PositionalSoFar
    <3>2. j \in UpTo(args, i)
      BY <1>1, <1>2 DEF UpTo, PositionalOf
    <3> QED
      BY <1>7, <3>1, <3>2
  <2>3. i \in UpTo(args, i) /\ Rank(args, i) = len + 1 /\ t.positional[len + 1] = args[i].text
    BY <1>1, <1>3, <1>6, <1>7 DEF UpTo
  <2>4. ASSUME NEW n \in 1..len + 1
        PROVE  \E j \in UpTo(args, i) : Rank(args, j) = n /\ t.positional[n] = args[j].text
    <3>1. n \in 1..len \/ n = len + 1
      BY <1>6
    <3> QED
      BY <2>2, <2>3, <3>1
  <2> QED
    BY <1>6, <1>7, <2>1, <2>4 DEF PositionalSoFar
<1>9. FlagsSoFar(args, t)
  <2>1. Taken(args, t) = Taken(args, s) /\ t.flags = s.flags
    BY <1>1, <1>3, <1>4 DEF Taken, FlagsOf
  <2> QED
    BY <2>1 DEF BetweenTurns, FlagsSoFar
<1>10. t.ok = s.ok /\ t.next = i + 1 /\ t.next \in 1..Len(args) + 1 /\ t.next \notin ValuesOf(args)
  BY <1>1, <1>3, <1>4
<1>11. t = [ok |-> t.ok, next |-> t.next, flags |-> t.flags, positional |-> t.positional]
  BY <1>4
<1>12. s.ok \in BOOLEAN /\ (~s.ok => Twice(args))
  BY DEF BetweenTurns
<1> QED
  BY <1>8, <1>9, <1>10, <1>11, <1>12 DEF BetweenTurns, t

\* A turn that takes a flag of a new name, and the value behind it if there is one.
LEMMA FlagTurn ==
  ASSUME NEW S, NEW args \in Arguments(S), NEW s, BetweenTurns(S, args, s),
         s.next <= Len(args), args[s.next].flag, args[s.next].text \notin DOMAIN s.flags,
         NEW k \in {1, 2}, k = 2 <=> s.next + 1 \in ValuesOf(args)
  PROVE  BetweenTurns(S, args, WithFlag(s, args[s.next].text, ValueAt(args, s.next), k))
<1> DEFINE i == s.next
           text == args[i].text
           t == WithFlag(s, text, ValueAt(args, i), k)
<1>1. Len(args) \in Nat /\ DOMAIN args = 1..Len(args) /\ i \in 1..Len(args) /\ i \in FlagsOf(args)
  BY DEF Arguments, BetweenTurns, FlagsOf
<1>2. i - 1 \in Nat /\ (i - 1) + 1 = i /\ (i + 1) - 1 = i /\ (i + 2) - 1 = i + 1
  BY <1>1
<1>3. i \notin PositionalOf(args)
  BY <1>1 DEF PositionalOf
<1>4. k = 2 => i + 1 \in 1..Len(args) /\ i + 1 \notin FlagsOf(args) /\ i + 1 \notin PositionalOf(args)
  BY <1>1 DEF ValuesOf, PositionalOf
<1>5. t = [ok |-> s.ok, next |-> i + k, flags |-> With(s.flags, text, ValueAt(args, i)),
           positional |-> s.positional]
  BY DEF WithFlag
<1>6. i + k \notin ValuesOf(args)
  <2>1. CASE k = 1
    BY <2>1
  <2>2. CASE k = 2
    <3>1. i + 2 \in ValuesOf(args) => i + 1 \in FlagsOf(args)
      BY <1>2 DEF ValuesOf
    <3> QED
      BY <1>4, <2>2, <3>1
  <2> QED
    BY <2>1, <2>2
<1>7. i + k \in 1..Len(args) + 1
  BY <1>1, <1>4
<1> HIDE DEF t
<1>8. Taken(args, t) = Taken(args, s) \cup {i} /\ i \notin Taken(args, s)
  <2>1. t.next = i + k /\ \A j \in FlagsOf(args) : j \in Nat
    BY <1>1, <1>5 DEF FlagsOf
  <2>2. k = 2 => i + 1 \notin FlagsOf(args)
    BY <1>4
  <2> QED
    BY <1>1, <2>1, <2>2 DEF Taken
<1>9. FlagsSoFar(args, t)
  <2>1. /\ DOMAIN s.flags = {args[j].text : j \in Taken(args, s)}
        /\ \A h, j \in Taken(args, s) : args[h].text = args[j].text => h = j
        /\ \A j \in Taken(args, s) : s.flags[args[j].text] = ValueAt(args, j)
    BY DEF BetweenTurns, FlagsSoFar
  <2>2. /\ t.flags = [x \in DOMAIN t.flags |-> t.flags[x]]
        /\ DOMAIN t.flags = DOMAIN s.flags \cup {text}
        /\ t.flags[text] = ValueAt(args, i)
        /\ \A x \in DOMAIN s.flags : x # text => t.flags[x] = s.flags[x]
    BY <1>5 DEF With
  <2>3. text \notin DOMAIN s.flags
    OBVIOUS
  <2>4. DOMAIN t.flags = {args[j].text : j \in Taken(args, t)}
    BY <1>8, <2>1, <2>2
  <2>5. \A h, j \in Taken(args, t) : args[h].text = args[j].text => h = j
    BY <1>8, <2>1, <2>3
  <2>6. \A j \in Taken(args, t) : t.flags[args[j].text] = ValueAt(args, j)
    BY <1>8, <2>1, <2>2, <2>3
  <2> QED
    BY <2>2, <2>4, <2>5, <2>6 DEF FlagsSoFar
<1>10. PositionalSoFar(S, args, t)
  <2>1. /\ UpTo(args, i) = UpTo(args, i - 1) /\ Rank(args, i) = Rank(args, i - 1)
    <3>1. (i - 1) + 1 \notin PositionalOf(args)
      BY <1>2, <1>3
    <3>2. Rank(args, (i - 1) + 1) = Rank(args, i - 1) /\ UpTo(args, (i - 1) + 1) = UpTo(args, i - 1)
      BY <1>2, <3>1, RankOne
    <3> QED
      BY <1>2, <3>2
  <2>2. UpTo(args, t.next - 1) = UpTo(args, i - 1) /\ Rank(args, t.next - 1) = Rank(args, i - 1)
    <3>1. CASE k = 1
      BY <1>2, <1>5, <2>1, <3>1
    <3>2. CASE k = 2
      <4>1. UpTo(args, i + 1) = UpTo(args, i) /\ Rank(args, i + 1) = Rank(args, i)
        BY <1>1, <1>4, <3>2, RankOne
      <4> QED
        BY <1>2, <1>5, <2>1, <3>2, <4>1
    <3> QED
      BY <3>1, <3>2
  <2>3. t.positional = s.positional
    BY <1>5
  <2> QED
    BY <2>2, <2>3 DEF BetweenTurns, PositionalSoFar
<1>11. t.ok = s.ok /\ t.next = i + k /\ t = [ok |-> t.ok, next |-> t.next, flags |-> t.flags, positional |-> t.positional]
  BY <1>5
<1>12. s.ok \in BOOLEAN /\ (~s.ok => Twice(args))
  BY DEF BetweenTurns
<1> QED
  BY <1>6, <1>7, <1>9, <1>10, <1>11, <1>12 DEF BetweenTurns, t

\* Every turn keeps the state in step with the arguments, and takes one if there is one.
LEMMA TurnKeepsStep ==
  ASSUME NEW S, NEW args \in Arguments(S), NEW s, BetweenTurns(S, args, s)
  PROVE  LET t == Turn(s, args)
         IN /\ BetweenTurns(S, args, t)
            /\ t.ok => /\ s.ok
                       /\ s.next <= Len(args) => t.next > s.next
                       /\ s.next > Len(args) => t.next = s.next
<1> DEFINE i == s.next
           t == Turn(s, args)
           valued == i < Len(args) /\ ~args[i + 1].flag
<1>1. Len(args) \in Nat /\ DOMAIN args = 1..Len(args)
  BY DEF Arguments
<1>2. i \in 1..Len(args) + 1 /\ s.ok \in BOOLEAN
  BY DEF BetweenTurns
<1>3. CASE ~s.ok \/ i > Len(args)
  <2>1. t = s
    BY <1>3 DEF Turn
  <2> QED
    BY <1>1, <1>2, <1>3, <2>1
<1>4. CASE s.ok /\ i <= Len(args) /\ ~args[i].flag
  <2>1. t = WithArg(s, args[i])
    BY <1>1, <1>2, <1>4 DEF Turn
  <2>2. t.next = i + 1
    BY <2>1 DEF WithArg
  <2> QED
    BY <1>1, <1>2, <1>4, <2>1, <2>2, PlainTurn
<1>5. CASE s.ok /\ i <= Len(args) /\ args[i].flag /\ args[i].text \in DOMAIN s.flags
  <2>1. t = [s EXCEPT !.ok = FALSE]
    BY <1>1, <1>2, <1>5 DEF Turn
  <2>2. s = [ok |-> s.ok, next |-> s.next, flags |-> s.flags, positional |-> s.positional]
    BY DEF BetweenTurns
  <2>3. t = [ok |-> FALSE, next |-> s.next, flags |-> s.flags, positional |-> s.positional]
    BY <2>1, <2>2
  <2>4. Twice(args)
    <3>1. PICK j \in Taken(args, s) : args[j].text = args[i].text
      BY <1>5 DEF BetweenTurns, FlagsSoFar
    <3>2. j \in FlagsOf(args) /\ j # i
      BY <1>2, <3>1 DEF Taken
    <3>3. i \in FlagsOf(args)
      BY <1>1, <1>2, <1>5 DEF FlagsOf
    <3> QED
      BY <3>1, <3>2, <3>3 DEF Twice
  <2>5. BetweenTurns(S, args, t) /\ ~t.ok
    BY <2>3, <2>4 DEF BetweenTurns, FlagsSoFar, PositionalSoFar, Taken
  <2> QED
    BY <2>5
<1>6. CASE s.ok /\ i <= Len(args) /\ args[i].flag /\ args[i].text \notin DOMAIN s.flags
  <2>1. i \in FlagsOf(args) /\ i + 1 \in Nat /\ (i + 1) - 1 = i
    BY <1>1, <1>2, <1>6 DEF FlagsOf
  <2>2. valued <=> i + 1 \in ValuesOf(args)
    BY <1>1, <1>2, <2>1 DEF ValuesOf, FlagsOf
  <2>3. CASE valued
    <3>1. t = WithFlag(s, args[i].text, ValueAt(args, i), 2)
      BY <1>1, <1>2, <1>6, <2>2, <2>3 DEF Turn, ValueAt
    <3>2. t.next = i + 2
      BY <3>1 DEF WithFlag
    <3> QED
      BY <1>1, <1>2, <1>6, <2>2, <2>3, <3>1, <3>2, FlagTurn
  <2>4. CASE ~valued
    <3>1. t = WithFlag(s, args[i].text, ValueAt(args, i), 1)
      BY <1>1, <1>2, <1>6, <2>2, <2>4 DEF Turn, ValueAt
    <3>2. t.next = i + 1
      BY <3>1 DEF WithFlag
    <3> QED
      BY <1>1, <1>2, <1>6, <2>2, <2>4, <3>1, <3>2, FlagTurn
  <2> QED
    BY <2>3, <2>4
<1> QED
  BY <1>1, <1>2, <1>3, <1>4, <1>5, <1>6

\* The loop ends in such a state, with all arguments taken unless a flag came twice.
LEMMA LoopEnds ==
  ASSUME NEW S, NEW args \in Arguments(S)
  PROVE  BetweenTurns(S, args, Loop(args)) /\ (Loop(args).ok => Loop(args).next = Len(args) + 1)
<1>1. Len(args) \in Nat
  BY DEF Arguments
<1>2. PICK after : /\ after[0] = Begin
                   /\ \A n \in 1..Len(args) : after[n] = Turn(after[n - 1], args)
                   /\ Loop(args) = after[Len(args)]
  BY <1>1, LoopRuns
<1> DEFINE T == {n \in Nat : n <= Len(args) =>
                   BetweenTurns(S, args, after[n]) /\ (after[n].ok => after[n].next > n)}
<1>3. 0 \in T
  <2>1. Begin.next = 1
    BY DEF Begin
  <2> QED
    BY <1>2, <2>1, BeginBetweenTurns
<1>4. ASSUME NEW n \in T PROVE n + 1 \in T
  <2>1. SUFFICES ASSUME n + 1 <= Len(args)
                 PROVE  /\ BetweenTurns(S, args, after[n + 1])
                        /\ after[n + 1].ok => after[n + 1].next > n + 1
    OBVIOUS
  <2>2. n \in Nat /\ n <= Len(args) /\ n + 1 \in 1..Len(args) /\ (n + 1) - 1 = n
    BY <1>1, <2>1
  <2>3. BetweenTurns(S, args, after[n]) /\ (after[n].ok => after[n].next > n)
    BY <2>2
  <2>4. after[n + 1] = Turn(after[n], args)
    BY <1>2, <2>2
  <2> DEFINE s == after[n]
             t == after[n + 1]
  <2>5. BetweenTurns(S, args, t)
    BY <2>3, <2>4, TurnKeepsStep
  <2>6. ASSUME t.ok PROVE t.next > n + 1
    <3>1. /\ s.ok /\ s.next > n /\ s.next \in 1..Len(args) + 1
          /\ s.next <= Len(args) => t.next > s.next
          /\ s.next > Len(args) => t.next = s.next
          /\ t.next \in 1..Len(args) + 1
      BY <2>3, <2>4, <2>5, <2>6, TurnKeepsStep DEF BetweenTurns
    <3> HIDE DEF s, t
    <3> QED
      BY <1>1, <2>2, <3>1
  <2> QED
    BY <2>5, <2>6
<1>5. Len(args) \in T
  <2> HIDE DEF T
  <2>1. T \in SUBSET Nat
    BY DEF T
  <2>2. T = Nat
    BY <1>3, <1>4, <2>1, Induction
  <2> QED
    BY <1>1, <2>2
<1>6. BetweenTurns(S, args, Loop(args)) /\ (Loop(args).ok => Loop(args).next > Len(args))
  BY <1>1, <1>2, <1>5
<1> QED
  BY <1>1, <1>6 DEF BetweenTurns

\* Of two positional arguments the later one has the greater number.
LEMMA RankGrows ==
  ASSUME NEW S, NEW args \in Arguments(S), NEW i \in PositionalOf(args), NEW j \in PositionalOf(args),
         Rank(args, i) = Rank(args, j)
  PROVE  i = j
<1>1. ASSUME NEW g \in PositionalOf(args), NEW h \in PositionalOf(args), g < h, Rank(args, g) = Rank(args, h)
      PROVE  FALSE
  <2>1. g \in Nat /\ h \in Nat
    BY DEF PositionalOf, Arguments
  <2>2. UpTo(args, g) \in SUBSET UpTo(args, h) /\ h \in UpTo(args, h) /\ h \notin UpTo(args, g)
    BY <1>1, <2>1 DEF UpTo, PositionalOf, Arguments
  <2>3. IsFiniteSet(UpTo(args, h))
    BY <2>1, RankOne
  <2>4. UpTo(args, g) = UpTo(args, h)
    BY <1>1, <2>2, <2>3, FS_Subset DEF Rank
  <2> QED
    BY <2>2, <2>4
<1>2. i \in Nat /\ j \in Nat
  BY DEF PositionalOf, Arguments
<1>3. i < j \/ j < i \/ i = j
  BY <1>2
<1> QED
  BY <1>1, <1>3

(***************************************************************************)
(* FlagParser::new makes of every list of arguments what the arguments,    *)
(* each looked at by itself, stand for.                                    *)
(***************************************************************************)
THEOREM NewAgrees ==
  ASSUME NEW S, NEW args \in Arguments(S), NEW allowed
  PROVE  New(args, allowed) = Expected(args, allowed)
<1> DEFINE r == Loop(args)
           F == FlagsOf(args)
           P == PositionalOf(args)
           unknown == \E i \in F : args[i].text \notin allowed
           flags == [t \in {args[i].text : i \in F} |-> ValueAt(args, CHOOSE i \in F : args[i].text = t)]
           positional == [n \in 1..Cardinality(P) |-> args[CHOOSE i \in P : Rank(args, i) = n].text]
<1>1. BetweenTurns(S, args, r) /\ (r.ok => r.next = Len(args) + 1) /\ Len(args) \in Nat
  BY LoopEnds DEF Arguments
<1>2. Expected(args, allowed) =
        IF Twice(args) \/ unknown THEN Rejected ELSE [ok |-> TRUE, flags |-> flags, positional |-> positional]
  BY DEF Expected, Twice, ValueAt, Rank, UpTo, PositionalOf
<1>3. CASE ~r.ok
  <2>1. Twice(args)
    BY <1>1, <1>3 DEF BetweenTurns
  <2>2. New(args, allowed) = Rejected
    BY <1>3 DEF New
  <2> QED
    BY <1>2, <2>1, <2>2
<1>4. CASE r.ok
  <2>1. Taken(args, r) = F
    BY <1>1, <1>4 DEF Taken, FlagsOf, Arguments
  <2>2. /\ r.flags = [t \in DOMAIN r.flags |-> r.flags[t]]
        /\ DOMAIN r.flags = {args[i].text : i \in F}
        /\ \A i, j \in F : args[i].text = args[j].text => i = j
        /\ \A i \in F : r.flags[args[i].text] = ValueAt(args, i)
    BY <1>1, <2>1 DEF BetweenTurns, FlagsSoFar
  <2>3. ~Twice(args)
    BY <2>2 DEF Twice
  <2>4. DOMAIN r.flags \subseteq allowed <=> ~unknown
    BY <2>2
  <2>5. r.flags = flags
    <3>1. ASSUME NEW t \in DOMAIN r.flags PROVE r.flags[t] = flags[t]
      <4>1. PICK i \in F : args[i].text = t
        BY <2>2, <3>1
      <4>2. (CHOOSE j \in F : args[j].text = t) = i
        BY <2>2, <4>1
      <4>3. flags[t] = ValueAt(args, i)
        BY <2>2, <4>1, <4>2
      <4> QED
        BY <2>2, <4>1, <4>3
    <3>2. flags = [t \in DOMAIN r.flags |-> flags[t]]
      BY <2>2
    <3> HIDE DEF flags, r
    <3> QED
      BY <2>2, <3>1, <3>2
  <2>6. r.positional = positional
    <3>1. UpTo(args, r.next - 1) = P
      <4>1. r.next - 1 = Len(args)
        BY <1>1, <1>4
      <4> QED
        BY <1>1, <4>1 DEF UpTo, PositionalOf, Arguments
    <3>2. r.positional \in Seq(S) /\ Len(r.positional) = Cardinality(P)
      BY <1>1, <3>1 DEF BetweenTurns, PositionalSoFar, Rank
    <3>3. ASSUME NEW n \in 1..Cardinality(P) PROVE r.positional[n] = positional[n]
      <4>1. PICK i \in P : Rank(args, i) = n /\ r.positional[n] = args[i].text
        BY <1>1, <3>1, <3>2 DEF BetweenTurns, PositionalSoFar
      <4>2. (CHOOSE j \in P : Rank(args, j) = n) = i
        BY <4>1, RankGrows
      <4> QED
        BY <4>1, <4>2
    <3>4. r.positional = [n \in 1..Cardinality(P) |-> r.positional[n]]
      BY <3>2
    <3>5. positional = [n \in 1..Cardinality(P) |-> positional[n]]
      OBVIOUS
    <3> HIDE DEF positional, r, P
    <3> QED
      BY <3>3, <3>4, <3>5
  <2>7. New(args, allowed) =
          IF unknown THEN Rejected ELSE [ok |-> TRUE, flags |-> r.flags, positional |-> r.positional]
    BY <1>4, <2>4 DEF New
  <2> QED
    BY <1>2, <2>3, <2>5, <2>6, <2>7
<1>5. r.ok \in BOOLEAN
  BY <1>1 DEF BetweenTurns
<1> QED
  BY <1>3, <1>4, <1>5

\* The positional arguments are texts that were given.
LEMMA NewPositional ==
  ASSUME NEW S, NEW args \in Arguments(S), NEW allowed, New(args, allowed).ok
  PROVE  New(args, allowed).positional \in Seq(S)
<1>1. BetweenTurns(S, args, Loop(args))
  BY LoopEnds
<1>2. New(args, allowed) # Rejected
  BY DEF Rejected
<1>3. New(args, allowed).positional = Loop(args).positional
  BY <1>2 DEF New
<1> QED
  BY <1>1, <1>3 DEF BetweenTurns, PositionalSoFar

-----------------------------------------------------------------------------
(* The client's steps: they leave the path and the servers alone. *)

OfTheClient ==
  /\ path' = path /\ servers' = servers /\ asked \subseteq asked'
  /\ ClientOK(client') /\ Connected' /\ AskedFor' /\ entered' \in 0..MaxEntered

\* A client that goes on without a request in the air.
LEMMA Idle ==
  ASSUME ClientOK(client'), client'.pc \notin {"connects", "waits"},
         path' = path, servers' = servers, asked \subseteq asked', entered' \in 0..MaxEntered
  PROVE  OfTheClient
BY DEF OfTheClient, ClientOK, Connected, AskedFor

LEMMA StartClientEffect ==
  ASSUME Shapes, StartClient
  PROVE  OfTheClient
<1>1. PICK args \in ClientArgs : client' = [NewClient EXCEPT !.pc = "parses", !.args = args]
  BY DEF StartClient
<1>2. client'.pc = "parses" /\ client'.args = args /\ client'.to = Nobody /\ client'.parts = <<>>
  BY <1>1 DEF NewClient
<1>3. client' = [pc |-> client'.pc, args |-> client'.args, parts |-> client'.parts,
                 stage |-> client'.stage, request |-> client'.request, to |-> client'.to,
                 text |-> client'.text, reply |-> client'.reply, subs |-> client'.subs,
                 cut |-> client'.cut]
  BY <1>1 DEF NewClient
<1>4. ClientOK(client')
  BY <1>2, <1>3 DEF ClientOK, ClientPcs
<1>5. entered' \in 0..MaxEntered
  BY ProgramsAssumption DEF StartClient, Shapes
<1> QED
  BY <1>2, <1>4, <1>5, Idle DEF StartClient

\* The request for the version, and every other request that is no put.
LEMMA OtherRequest ==
  ASSUME NEW op \in Verbs \ {"PUT"}, NEW id \in {<<"id">>, Me}, NEW key \in Values \cup {<<"HK">>, <<"DISCARDME">>}
  PROVE  Request(op, id, Me, key) \in OtherRequests /\ Request(op, id, Me, key).op = op
<1>1. Me \in Seq(Words) /\ <<"id">> \in Seq(Words) /\ <<"HK">> \in Seq(Words) /\ <<"DISCARDME">> \in Seq(Words)
  BY DEF Words, Me
<1>2. key \in Seq(Words) /\ key # <<>>
  <2>1. CASE key \in Values
    BY <2>1, CodeAssumption DEF Words, Texts, Word
  <2>2. CASE key = <<"HK">>
    BY <1>1, <2>2
  <2>3. CASE key = <<"DISCARDME">>
    BY <1>1, <2>3
  <2> QED
    BY <2>1, <2>2, <2>3
<1> QED
  BY <1>1, <1>2 DEF Request, OtherRequests

LEMMA ClientMainEffect ==
  ASSUME Shapes, ClientMain
  PROVE  OfTheClient
<1> DEFINE r == New(client.args, ClientFlags)
           version == Request("VERSION", Me, Me, <<"DISCARDME">>)
<1>1. client.args \in Arguments(Values)
  BY ProgramsAssumption DEF Shapes, ClientOK, ClientMain, Arguments
<1>2. r.ok => r.positional \in Seq(Values)
  BY <1>1, NewPositional
<1>3. version \in OtherRequests /\ version.op = "VERSION"
  BY OtherRequest DEF Verbs
<1> HIDE DEF r, version
<1>4. \/ client' = [NewClient EXCEPT !.pc = "ended"]
      \/ r.ok /\ client' = [NewClient EXCEPT !.pc = "connects", !.parts = r.positional, !.request = version]
  BY DEF ClientMain, r, version
<1>5. CASE client' = [NewClient EXCEPT !.pc = "ended"]
  <2>1. client' = [pc |-> "ended", args |-> <<>>, parts |-> <<>>, stage |-> "version",
                   request |-> Refused, to |-> Nobody, text |-> <<NoWord>>, reply |-> Unparsed,
                   subs |-> {}, cut |-> FALSE]
    BY <1>5 DEF NewClient
  <2>2. <<>> \in Seq(Values)
    OBVIOUS
  <2>3. ClientOK(client') /\ client'.pc = "ended"
    BY <2>1, <2>2 DEF ClientOK, ClientPcs
  <2> QED
    BY <2>3, Idle DEF ClientMain, Shapes
<1>6. CASE r.ok /\ client' = [NewClient EXCEPT !.pc = "connects", !.parts = r.positional, !.request = version]
  <2>1. client' = [pc |-> "connects", args |-> <<>>, parts |-> r.positional, stage |-> "version",
                   request |-> version, to |-> Nobody, text |-> <<NoWord>>, reply |-> Unparsed,
                   subs |-> {}, cut |-> FALSE]
    BY <1>6 DEF NewClient
  <2>2. ClientOK(client')
    <3>1. client'.parts \in Seq(Values) /\ client'.request \in PutRequests \cup OtherRequests
      BY <1>2, <1>3, <1>6, <2>1
    <3>2. client'.pc = "connects" /\ client'.to = Nobody
      BY <2>1
    <3>3. client' = [pc |-> client'.pc, args |-> client'.args, parts |-> client'.parts,
                     stage |-> client'.stage, request |-> client'.request, to |-> client'.to,
                     text |-> client'.text, reply |-> client'.reply, subs |-> client'.subs,
                     cut |-> client'.cut]
      BY <2>1
    <3> QED
      BY <3>1, <3>2, <3>3 DEF ClientOK, ClientPcs
  <2>3. Connected' /\ AskedFor'
    BY <1>3, <2>1 DEF Connected, AskedFor
  <2> QED
    BY <2>2, <2>3 DEF ClientMain, Shapes, OfTheClient
<1> QED
  BY <1>4, <1>5, <1>6

LEMMA FailsEffect ==
  ASSUME ClientOK(client), NEW cut, Fails(cut)
  PROVE  ClientOK(client') /\ client'.pc \in {"failed", "crashed"}
<1> DEFINE pc == IF client.stage = "version" THEN "failed" ELSE "crashed"
<1>1. client' = [client EXCEPT !.pc = pc, !.to = Nobody, !.cut = cut] /\ pc \in {"failed", "crashed"}
  BY DEF Fails
<1> HIDE DEF pc
<1>2. client' = [pc |-> pc, args |-> client.args, parts |-> client.parts, stage |-> client.stage,
                 request |-> client.request, to |-> Nobody, text |-> client.text, reply |-> client.reply,
                 subs |-> client.subs, cut |-> cut]
  BY <1>1 DEF ClientOK
<1> QED
  BY <1>1, <1>2 DEF ClientOK, ClientPcs

LEMMA SendRequestEffect ==
  ASSUME Shapes, SendRequest
  PROVE  OfTheClient
<1>1. client.pc = "connects" /\ ClientOK(client) /\ UNCHANGED <<path, servers, asked, news, entered>>
  BY DEF SendRequest, Shapes
<1>2. CASE path.owner # Nobody /\ servers[path.owner].pc = "serves"
  <2>1. client' = [pc |-> "waits", args |-> client.args, parts |-> client.parts, stage |-> client.stage,
                   request |-> client.request, to |-> path.owner, text |-> RequestText(client.request),
                   reply |-> client.reply, subs |-> client.subs, cut |-> client.cut]
    BY <1>1, <1>2 DEF SendRequest, ClientOK
  <2>2. ClientOK(client')
    BY <1>1, <1>2, <2>1 DEF ClientOK, ClientPcs, Shapes, PathOK
  <2>3. Connected' /\ AskedFor'
    BY <1>1, <1>2, <2>1 DEF Connected, AskedFor, Shapes
  <2> QED
    BY <1>1, <2>2, <2>3 DEF Shapes, OfTheClient
<1>3. CASE ~(path.owner # Nobody /\ servers[path.owner].pc = "serves")
  <2>1. Fails(TRUE)
    BY <1>3 DEF SendRequest
  <2> QED
    BY <1>1, <2>1, FailsEffect, Idle DEF Shapes
<1> QED
  BY <1>2, <1>3

LEMMA ReadResponseEffect ==
  ASSUME Shapes, ReadResponse
  PROVE  OfTheClient
<1>1. client.pc = "responded" /\ ClientOK(client) /\ UNCHANGED <<path, servers, asked, news, entered>>
  BY DEF ReadResponse, Shapes
<1>2. CASE Fails(FALSE)
  BY <1>1, <1>2, FailsEffect, Idle DEF Shapes
<1>3. ASSUME ~Fails(FALSE) PROVE OfTheClient
  <2>1. PICK pc \in {"ready", "ended"} :
          client' = [client EXCEPT !.pc = pc, !.stage = "command", !.request = Refused,
                                   !.text = <<NoWord>>, !.reply = Unparsed]
    BY <1>3 DEF ReadResponse, AfterCommand
  <2>2. client' = [pc |-> pc, args |-> client.args, parts |-> client.parts, stage |-> "command",
                   request |-> Refused, to |-> client.to, text |-> <<NoWord>>, reply |-> Unparsed,
                   subs |-> client.subs, cut |-> client.cut]
    BY <1>1, <2>1 DEF ClientOK
  <2>3. ClientOK(client') /\ client'.pc = pc
    BY <1>1, <2>2 DEF ClientOK, ClientPcs
  <2> QED
    BY <1>1, <2>3, Idle DEF Shapes
<1> QED
  BY <1>2, <1>3

\* What a command asks for is a request that can be sent.
LEMMA RequestedType ==
  ASSUME NEW parts \in Seq(Values), Requested(parts) # Refused
  PROVE  Requested(parts) \in PutRequests \cup OtherRequests
<1> DEFINE of(op) == IF Len(parts) >= 2 THEN Request(op, <<"id">>, Me, parts[2]) ELSE Refused
<1>1. Len(parts) >= 2 => parts[2] \in Values
  OBVIOUS
<1>2. ASSUME NEW op \in {"GET", "TRACE", "DEL", "UNSUB"}, of(op) # Refused PROVE of(op) \in OtherRequests
  <2>1. of(op) = Request(op, <<"id">>, Me, parts[2]) /\ parts[2] \in Values
    BY <1>1, <1>2
  <2> QED
    BY <2>1, OtherRequest DEF Verbs
<1>3. Len(parts) >= 3 => PutRequest(<<"id">>, Me, parts[2], parts[3]) \in PutRequests
  BY DEF PutRequest, PutRequests
<1>4. Request("HEALTH", <<"id">>, Me, <<"HK">>) \in OtherRequests
  BY OtherRequest DEF Verbs
<1>5. \/ Requested(parts) = PutRequest(<<"id">>, Me, parts[2], parts[3]) /\ Len(parts) >= 3
      \/ \E op \in {"GET", "TRACE", "DEL", "UNSUB"} : Requested(parts) = of(op)
      \/ Requested(parts) = Request("HEALTH", <<"id">>, Me, <<"HK">>)
  BY DEF Requested
<1> HIDE DEF of
<1> QED
  BY <1>2, <1>3, <1>4, <1>5

LEMMA HandleCommandEffect ==
  ASSUME Shapes, client.pc = "ready", NEW parts \in Seq(Values), NEW next \in {"ready", "interrupt", "ended"},
         HandleCommand(parts, next), path' = path, servers' = servers, entered' \in 0..MaxEntered
  PROVE  OfTheClient
<1> DEFINE r == Requested(parts)
<1>1. ClientOK(client) /\ asked \subseteq asked'
  BY DEF Shapes, HandleCommand
<1>2. CASE r # Refused
  <2>1. r \in PutRequests \cup OtherRequests
    BY <1>2, RequestedType
  <2>2. client' = [client EXCEPT !.pc = "connects", !.request = r]
    BY <1>2 DEF HandleCommand
  <2>3. r.op = "PUT" => <<r.key, r.value>> \in asked'
    BY DEF HandleCommand
  <2> HIDE DEF r
  <2>4. client' = [pc |-> "connects", args |-> client.args, parts |-> client.parts, stage |-> client.stage,
                   request |-> r, to |-> client.to, text |-> client.text, reply |-> client.reply,
                   subs |-> client.subs, cut |-> client.cut]
    BY <1>1, <2>2 DEF ClientOK
  <2>5. ClientOK(client')
    BY <1>1, <2>1, <2>4 DEF ClientOK, ClientPcs
  <2>6. Connected' /\ AskedFor'
    BY <1>1, <2>3, <2>4 DEF Connected, AskedFor, ClientOK
  <2> QED
    BY <1>1, <2>5, <2>6 DEF OfTheClient
<1>3. CASE r = Refused
  <2>1. PICK subs : client' = [client EXCEPT !.pc = next, !.subs = subs]
    BY <1>3 DEF HandleCommand
  <2>2. client' = [pc |-> next, args |-> client.args, parts |-> client.parts, stage |-> client.stage,
                   request |-> client.request, to |-> client.to, text |-> client.text, reply |-> client.reply,
                   subs |-> subs, cut |-> client.cut]
    BY <1>1, <2>1 DEF ClientOK
  <2>3. ClientOK(client') /\ client'.pc = next
    BY <1>1, <2>2 DEF ClientOK, ClientPcs
  <2> QED
    BY <1>1, <2>3, Idle
<1> QED
  BY <1>2, <1>3

LEMMA EndsEffect ==
  ASSUME ClientOK(client), client.pc # "waits", client' = [client EXCEPT !.pc = "ended"]
  PROVE  ClientOK(client') /\ client'.pc = "ended"
<1>1. client' = [pc |-> "ended", args |-> client.args, parts |-> client.parts, stage |-> client.stage,
                 request |-> client.request, to |-> client.to, text |-> client.text, reply |-> client.reply,
                 subs |-> client.subs, cut |-> client.cut]
  BY DEF ClientOK
<1> QED
  BY <1>1 DEF ClientOK, ClientPcs

LEMMA RunEffect ==
  ASSUME Shapes, RunSingle \/ RunLine \/ Leaves
  PROVE  OfTheClient
<1>1. ClientOK(client) /\ entered \in 0..MaxEntered
  BY DEF Shapes
<1>2. CASE RunSingle
  <2>1. CASE client' = [client EXCEPT !.pc = "ended"] /\ UNCHANGED asked
    BY <1>1, <1>2, <2>1, EndsEffect, Idle DEF RunSingle
  <2>2. ASSUME NEW next \in {"interrupt", "ended"}, HandleCommand(client.parts, next) PROVE OfTheClient
    BY <1>1, <1>2, <2>2, HandleCommandEffect DEF RunSingle, ClientOK
  <2> QED
    BY <1>2, <2>1, <2>2 DEF RunSingle
<1>3. CASE RunLine
  <2>1. PICK line \in Lines, next \in {"ended", "ready"} :
          HandleCommand([i \in DOMAIN line |-> <<line[i]>>], next)
    BY <1>3 DEF RunLine
  <2>2. [i \in DOMAIN line |-> <<line[i]>>] \in Seq(Values)
    <3>1. line \in Seq(Word) /\ \A i \in DOMAIN line : <<line[i]>> \in Values
      BY ProgramsAssumption DEF Texts
    <3> QED
      BY <3>1
  <2>3. entered' \in 0..MaxEntered
    BY <1>1, <1>3, ProgramsAssumption DEF RunLine
  <2> QED
    BY <1>3, <2>1, <2>2, <2>3, HandleCommandEffect DEF RunLine
<1>4. CASE Leaves
  BY <1>1, <1>4, EndsEffect, Idle DEF Leaves
<1> QED
  BY <1>2, <1>3, <1>4

-----------------------------------------------------------------------------
(* The server's end of a connection. *)

\* The servers are where they were, and one of them may have another store.
Touched(p) ==
  /\ ServersOK' /\ path' = path /\ asked' = asked /\ entered' = entered
  /\ \A q \in Servers : servers'[q].pc = servers[q].pc
  /\ \A q \in Servers \ {p} : servers'[q] = servers[q]

LEMMA TouchedStore ==
  ASSUME ServersOK, NEW p \in Servers, servers[p].pc = "serves",
         NEW store, \A k \in DOMAIN store : store[k] \in Values,
         servers' = [servers EXCEPT ![p].store = store], path' = path, asked' = asked, entered' = entered
  PROVE  Touched(p) /\ servers'[p].store = store
<1>1. /\ DOMAIN servers' = Servers /\ \A q \in Servers \ {p} : servers'[q] = servers[q]
      /\ servers'[p] = [servers[p] EXCEPT !.store = store]
  BY DEF ServersOK
<1>2. servers'[p] = [pc |-> "serves", args |-> servers[p].args, store |-> store, subs |-> servers[p].subs]
  BY <1>1 DEF ServersOK, ServerOK
<1>3. ServerOK(servers'[p]) /\ servers'[p].pc = "serves" /\ servers'[p].store = store
  BY <1>2 DEF ServerOK, ServerPcs
<1> QED
  BY <1>1, <1>3 DEF Touched, ServersOK

LEMMA TouchedSubs ==
  ASSUME ServersOK, NEW p \in Servers, servers[p].pc = "serves", NEW subs,
         servers' = [servers EXCEPT ![p].subs = subs], path' = path, asked' = asked, entered' = entered
  PROVE  Touched(p) /\ servers'[p].store = servers[p].store
<1>1. /\ DOMAIN servers' = Servers /\ \A q \in Servers \ {p} : servers'[q] = servers[q]
      /\ servers'[p] = [servers[p] EXCEPT !.subs = subs]
  BY DEF ServersOK
<1>2. servers'[p] = [pc |-> "serves", args |-> servers[p].args, store |-> servers[p].store, subs |-> subs]
  BY <1>1 DEF ServersOK, ServerOK
<1>3. ServerOK(servers'[p]) /\ servers'[p].pc = "serves" /\ servers'[p].store = servers[p].store
  BY <1>2 DEF ServerOK, ServerPcs, ServersOK
<1> QED
  BY <1>1, <1>3 DEF Touched, ServersOK

\* What a request may do to the store: nothing, lose keys, or take the value of a put.
StoreStep(p, r) ==
  \/ \A k \in DOMAIN servers'[p].store :
       k \in DOMAIN servers[p].store /\ servers'[p].store[k] = servers[p].store[k]
  \/ r.op = "PUT" /\ servers'[p].store = With(servers[p].store, r.key[1], r.value)

\* The client is answered, or its connection ends.
LEMMA AnsweredClient ==
  ASSUME ClientOK(client), \/ \E reply : Responds(reply)
                           \/ client' = [client EXCEPT !.pc = "crashed", !.to = Nobody]
  PROVE  ClientOK(client') /\ client'.pc \in {"responded", "crashed"}
<1>1. CASE \E reply : Responds(reply)
  <2>1. PICK reply, text : client' = [client EXCEPT !.pc = "responded", !.to = Nobody, !.reply = reply, !.text = text]
    BY <1>1 DEF Responds
  <2>2. client' = [pc |-> "responded", args |-> client.args, parts |-> client.parts, stage |-> client.stage,
                   request |-> client.request, to |-> Nobody, text |-> text, reply |-> reply,
                   subs |-> client.subs, cut |-> client.cut]
    BY <2>1 DEF ClientOK
  <2> QED
    BY <2>2 DEF ClientOK, ClientPcs
<1>2. CASE client' = [client EXCEPT !.pc = "crashed", !.to = Nobody]
  <2>1. client' = [pc |-> "crashed", args |-> client.args, parts |-> client.parts, stage |-> client.stage,
                   request |-> client.request, to |-> Nobody, text |-> client.text, reply |-> client.reply,
                   subs |-> client.subs, cut |-> client.cut]
    BY <1>2 DEF ClientOK
  <2> QED
    BY <2>1 DEF ClientOK, ClientPcs
<1> QED
  BY <1>1, <1>2

LEMMA HandleRequestEffect ==
  ASSUME Shapes, HandleRequest
  PROVE  /\ client.to \in Servers /\ client.pc = "waits"
         /\ Touched(client.to) /\ StoreStep(client.to, ParseRequest(TrimEnd(client.text)))
         /\ ClientOK(client') /\ client'.pc \in {"responded", "crashed"}
<1> DEFINE r == ParseRequest(TrimEnd(client.text))
           p == client.to
<1>1. /\ p \in Servers /\ client.pc = "waits" /\ servers[p].pc = "serves"
      /\ ServersOK /\ ClientOK(client) /\ path' = path /\ asked' = asked /\ entered' = entered
  BY DEF Shapes, HandleRequest, ClientOK, Connected
<1>2. r.op = "PUT" => r.value \in Values
  BY ParsedValue
<1>3. \/ HandlePut(p, r) \/ HandleDelete(p, r) \/ HandleGet(p, r) \/ HandleTrace(p, r)
      \/ HandleUnsub(p, r) \/ HandleHealth(r) \/ HandleVersion(r) \/ HandleMalformed(r)
  BY DEF HandleRequest
<1> HIDE DEF r, p
<1>4. ClientOK(client') /\ client'.pc \in {"responded", "crashed"}
  <2>1. \/ \E reply : Responds(reply)
        \/ client' = [client EXCEPT !.pc = "crashed", !.to = Nobody]
    BY <1>3 DEF HandlePut, HandleDelete, HandleGet, HandleTrace, HandleUnsub, HandleHealth,
                HandleVersion, HandleMalformed
  <2> QED
    BY <1>1, <2>1, AnsweredClient
<1>5. ASSUME servers' = servers PROVE Touched(p) /\ StoreStep(p, r)
  BY <1>1, <1>5 DEF Touched, StoreStep, ServersOK
<1>6. ASSUME HandlePut(p, r) PROVE Touched(p) /\ StoreStep(p, r)
  <2>1. CASE servers' = servers
    BY <1>5, <2>1
  <2>2. CASE servers' # servers
    <3> DEFINE store == With(servers[p].store, r.key[1], r.value)
    <3>1. r.op = "PUT" /\ servers' = [servers EXCEPT ![p].store = store]
      BY <1>6, <2>2 DEF HandlePut
    <3>2. \A k \in DOMAIN store : store[k] \in Values
      BY <1>1, <1>2, <3>1 DEF With, ServersOK, ServerOK
    <3> HIDE DEF store
    <3>3. Touched(p) /\ servers'[p].store = store
      BY <1>1, <3>1, <3>2, TouchedStore
    <3> QED
      BY <3>1, <3>3 DEF StoreStep, store
  <2> QED
    BY <2>1, <2>2
<1>7. ASSUME HandleDelete(p, r) PROVE Touched(p) /\ StoreStep(p, r)
  <2> DEFINE store == [k \in DOMAIN servers[p].store \ Matching(p, r.key) |-> servers[p].store[k]]
  <2>1. servers' = [servers EXCEPT ![p].store = store]
    BY <1>7 DEF HandleDelete
  <2>2. /\ \A k \in DOMAIN store : store[k] \in Values
        /\ \A k \in DOMAIN store : k \in DOMAIN servers[p].store /\ store[k] = servers[p].store[k]
    BY <1>1 DEF ServersOK, ServerOK
  <2> HIDE DEF store
  <2>3. Touched(p) /\ servers'[p].store = store
    BY <1>1, <2>1, <2>2, TouchedStore
  <2> QED
    BY <2>2, <2>3 DEF StoreStep
<1>8. ASSUME HandleUnsub(p, r) PROVE Touched(p) /\ StoreStep(p, r)
  <2>1. Touched(p) /\ servers'[p].store = servers[p].store
    BY <1>1, <1>8, TouchedSubs DEF HandleUnsub
  <2> QED
    BY <2>1 DEF StoreStep
<1>9. ASSUME HandleGet(p, r) \/ HandleTrace(p, r) \/ HandleHealth(r) \/ HandleVersion(r) \/ HandleMalformed(r)
      PROVE  Touched(p) /\ StoreStep(p, r)
  BY <1>5, <1>9 DEF HandleGet, HandleTrace, HandleHealth, HandleVersion, HandleMalformed
<1> QED
  BY <1>1, <1>3, <1>4, <1>6, <1>7, <1>8, <1>9 DEF r, p

LEMMA SubscriberConnectsEffect ==
  ASSUME Shapes, NEW key, SubscriberConnects(key)
  PROVE  /\ path.owner \in Servers
         /\ Touched(path.owner) /\ servers'[path.owner].store = servers[path.owner].store
         /\ client' = client
<1>1. path.owner \in Servers /\ servers[path.owner].pc = "serves" /\ ServersOK
  BY DEF SubscriberConnects, Shapes, PathOK
<1>2. /\ \E subs : servers' = [servers EXCEPT ![path.owner].subs = subs]
      /\ path' = path /\ asked' = asked /\ entered' = entered /\ client' = client
  BY DEF SubscriberConnects
<1> QED
  BY <1>1, <1>2, TouchedSubs

-----------------------------------------------------------------------------
(* The invariant. *)

Inv == Shapes /\ PathInv /\ PutNeverMisfiles

\* Where every server stays where it is, the path is as good as before.
LEMMA PathInvStays ==
  ASSUME PathOK, PathInv, path' = path, \A q \in Servers : servers'[q].pc = servers[q].pc
  PROVE  PathOK' /\ PathInv'
BY DEF PathOK, PathInv, Owned, Untouched, OnTheWay

\* What is in a store was asked for, as PutNeverMisfiles has it.
Filed(store, done) ==
  \A k \in DOMAIN store :
    \/ <<<<k>>, store[k]>> \in done
    \/ \E ask \in done : ask[2] = Empty /\ TrimEnd(ask[1]) = <<k, Code[store[k]]>>

LEMMA AllFiled ==
  PutNeverMisfiles <=> \A p \in Servers : Filed(servers[p].store, asked)
BY DEF PutNeverMisfiles, Filed

LEMMA AllFiledNext ==
  PutNeverMisfiles' <=> \A p \in Servers : Filed(servers'[p].store, asked')
BY DEF PutNeverMisfiles, Filed

LEMMA FiledGrows ==
  ASSUME NEW store, NEW done, NEW later, done \subseteq later, Filed(store, done)
  PROVE  Filed(store, later)
BY DEF Filed

\* What other servers store, and what was asked for, only counts for what it was.
LEMMA FiledStays ==
  ASSUME PutNeverMisfiles, asked \subseteq asked',
         \A q \in Servers : servers'[q] = servers[q] \/ Filed(servers'[q].store, asked')
  PROVE  PutNeverMisfiles'
<1>1. ASSUME NEW q \in Servers PROVE Filed(servers'[q].store, asked')
  BY AllFiled, FiledGrows
<1> QED
  BY <1>1, AllFiledNext

\* A server that starts or stops has nothing stored.
LEMMA StartKeepsInv ==
  ASSUME Inv, NEW p \in Servers, ServersOK', PathOK', Start(p), client'.to # p,
         ClientOK(client'), client'.request = client.request, client'.pc \in {client.pc, "crashed"},
         client'.to \in {client.to, Nobody}, asked' = asked, entered' = entered
  PROVE  Inv'
<1>1. servers'[p].store = <<>> /\ \A q \in Servers \ {p} : servers'[q] = servers[q]
  BY DEF Start, Moves, Removed, Binds
<1>2. PathInv'
  BY StartKeepsPathInv DEF Inv, Shapes
<1>3. PutNeverMisfiles'
  <2>1. Filed(servers'[p].store, asked')
    BY <1>1 DEF Filed
  <2> QED
    BY <1>1, <2>1, FiledStays DEF Inv
<1>4. Connected'
  BY <1>1 DEF Inv, Shapes, Connected, ClientOK
<1>5. AskedFor'
  BY DEF Inv, Shapes, AskedFor
<1> QED
  BY <1>2, <1>3, <1>4, <1>5 DEF Inv, Shapes

\* The put that a server carries out was asked for.
LEMMA FiledByPut ==
  ASSUME Inv, HandleRequest
  PROVE  PutNeverMisfiles'
<1> DEFINE r == ParseRequest(TrimEnd(client.text))
           p == client.to
           sent == client.request
<1>1. p \in Servers /\ client.pc = "waits" /\ Touched(p) /\ StoreStep(p, r)
  BY HandleRequestEffect DEF Inv
<1>2. /\ sent \in PutRequests \cup OtherRequests /\ r = ParseRequest(TrimEnd(RequestText(sent)))
      /\ sent.op = "PUT" => <<sent.key, sent.value>> \in asked
  BY <1>1 DEF Inv, Shapes, ClientOK, AskedFor
<1>3. asked' = asked /\ \A q \in Servers \ {p} : servers'[q] = servers[q]
  BY <1>1 DEF Touched
<1> HIDE DEF r, p, sent
<1>4. ASSUME r.op = "PUT"
      PROVE  \/ <<<<r.key[1]>>, r.value>> \in asked
             \/ \E ask \in asked : ask[2] = Empty /\ TrimEnd(ask[1]) = <<r.key[1], Code[r.value]>>
  <2>1. sent \in PutRequests
    BY <1>2, <1>4, OtherOnTheWire
  <2>2. <<sent.key, sent.value>> \in asked
    BY <1>2, <2>1 DEF PutRequests
  <2>3. \/ sent.key = <<r.key[1]>> /\ sent.value = r.value
        \/ sent.value = Empty /\ TrimEnd(sent.key) = <<r.key[1], Code[r.value]>>
    BY <1>2, <1>4, <2>1, PutOnTheWire
  <2>4. CASE sent.key = <<r.key[1]>> /\ sent.value = r.value
    BY <2>2, <2>4
  <2>5. CASE sent.value = Empty /\ TrimEnd(sent.key) = <<r.key[1], Code[r.value]>>
    <3> DEFINE ask == <<sent.key, sent.value>>
    <3>1. ask \in asked /\ ask[1] = sent.key /\ ask[2] = sent.value
      BY <2>2
    <3> HIDE DEF ask
    <3> QED
      BY <2>5, <3>1
  <2> QED
    BY <2>3, <2>4, <2>5
<1>5. ASSUME NEW k \in DOMAIN servers'[p].store
      PROVE  \/ <<<<k>>, servers'[p].store[k]>> \in asked
             \/ \E ask \in asked : ask[2] = Empty /\ TrimEnd(ask[1]) = <<k, Code[servers'[p].store[k]]>>
  <2>1. CASE k \in DOMAIN servers[p].store /\ servers'[p].store[k] = servers[p].store[k]
    BY <1>1, <1>3, <2>1 DEF Inv, PutNeverMisfiles
  <2>2. CASE r.op = "PUT" /\ k = r.key[1] /\ servers'[p].store[k] = r.value
    BY <1>3, <1>4, <2>2
  <2> QED
    BY <1>1, <2>1, <2>2 DEF StoreStep, With
<1>6. Filed(servers'[p].store, asked')
  BY <1>3, <1>5 DEF Filed
<1> QED
  BY <1>1, <1>3, <1>6, FiledStays DEF Inv

LEMMA InvInit ==
  ASSUME Init
  PROVE  Inv
<1>1. \A p \in Servers : servers[p] = [pc |-> "off", args |-> <<>>, store |-> <<>>, subs |-> {}]
  BY DEF Init, NewServer
<1>2. ServersOK
  BY <1>1 DEF Init, ServersOK, ServerOK, ServerPcs
<1>3. ClientOK(client) /\ client.pc = "off" /\ client.to = Nobody
  <2>1. client = [pc |-> "off", args |-> <<>>, parts |-> <<>>, stage |-> "version",
                  request |-> Refused, to |-> Nobody, text |-> <<NoWord>>, reply |-> Unparsed,
                  subs |-> {}, cut |-> FALSE]
    BY DEF Init, NewClient
  <2>2. <<>> \in Seq(Values)
    OBVIOUS
  <2> QED
    BY <2>1, <2>2 DEF ClientOK, ClientPcs
<1>4. PathOK /\ path.owner = Nobody /\ entered \in 0..MaxEntered
  BY ProgramsAssumption DEF Init, PathOK
<1>5. Connected /\ AskedFor
  BY <1>3 DEF Connected, AskedFor
<1>6. PathInv
  BY <1>1, <1>4 DEF PathInv, Owned, Untouched, OnTheWay
<1>7. PutNeverMisfiles
  BY <1>1 DEF PutNeverMisfiles
<1> QED
  BY <1>2, <1>3, <1>4, <1>5, <1>6, <1>7 DEF Inv, Shapes

LEMMA InvNext ==
  ASSUME Inv, [Next]_vars
  PROVE  Inv'
<1>1. Shapes /\ PathOK /\ ServersOK /\ ClientOK(client) /\ PathInv /\ PutNeverMisfiles
  BY DEF Inv, Shapes
<1>2. ASSUME NEW p \in Servers, Starts(p) PROVE Inv'
  <2>1. ServersOK' /\ PathOK' /\ Start(p)
    BY <1>1, <1>2, StartsEffect
  <2>2. client' = client /\ asked' = asked /\ entered' = entered
    BY <1>2 DEF Starts, StartServer, StartEmbedded, MainParses, MainChecks, MainRemoves, StorageFails,
                NewChecks, NewUnlinks, Serves, RemoveFile
  <2>3. servers[p].pc # "serves"
    BY <1>2 DEF Starts, StartServer, StartEmbedded, MainParses, MainChecks, MainRemoves, StorageFails,
                NewChecks, NewUnlinks, Serves
  <2>4. client.to # p
    BY <1>1, <2>3, ProgramsAssumption DEF Shapes, Connected
  <2> QED
    BY <1>1, <2>1, <2>2, <2>4, StartKeepsInv
<1>3. ASSUME NEW p \in Servers, StopServer(p) PROVE Inv'
  <2>1. /\ servers[p].pc = "serves" /\ Goes(p, "stopped")
        /\ path' = path /\ asked' = asked /\ entered' = entered
        /\ client' = IF client.to = p THEN [client EXCEPT !.pc = "crashed", !.to = Nobody, !.cut = TRUE]
                     ELSE client
    BY <1>3 DEF StopServer
  <2>2. ServersOK' /\ PathOK' /\ Start(p)
    BY <1>1, <2>1, StayEffect DEF Stays, ServerPcs, Starting
  <2>3. CASE client.to = p
    <3>1. client' = [pc |-> "crashed", args |-> client.args, parts |-> client.parts, stage |-> client.stage,
                     request |-> client.request, to |-> Nobody, text |-> client.text, reply |-> client.reply,
                     subs |-> client.subs, cut |-> TRUE]
      BY <1>1, <2>1, <2>3 DEF ClientOK
    <3>2. ClientOK(client') /\ client'.to = Nobody /\ client'.pc = "crashed" /\ client'.request = client.request
      BY <1>1, <3>1 DEF ClientOK, ClientPcs
    <3>3. client'.to # p
      BY <3>2, ProgramsAssumption
    <3> QED
      BY <2>1, <2>2, <3>2, <3>3, StartKeepsInv
  <2>4. CASE client.to # p
    BY <1>1, <2>1, <2>2, <2>4, StartKeepsInv
  <2> QED
    BY <2>3, <2>4
<1>4. ASSUME OfTheClient PROVE Inv'
  <2>1. PathOK' /\ PathInv'
    BY <1>1, <1>4, PathInvStays DEF OfTheClient
  <2>2. PutNeverMisfiles'
    <3>1. asked \subseteq asked' /\ \A q \in Servers : servers'[q] = servers[q]
      BY <1>4 DEF OfTheClient
    <3> QED
      BY <1>1, <3>1, FiledStays
  <2> QED
    BY <1>1, <1>4, <2>1, <2>2 DEF OfTheClient, Inv, Shapes, ServersOK
<1>5. ASSUME StartClient \/ ClientMain \/ SendRequest \/ ReadResponse \/ RunSingle \/ RunLine \/ Leaves
      PROVE  Inv'
  BY <1>1, <1>4, <1>5, StartClientEffect, ClientMainEffect, SendRequestEffect, ReadResponseEffect, RunEffect
<1>6. ASSUME HandleRequest PROVE Inv'
  <2>1. /\ Touched(client.to) /\ ClientOK(client') /\ client'.pc \in {"responded", "crashed"}
    BY <1>1, <1>6, HandleRequestEffect
  <2>2. PathOK' /\ PathInv'
    BY <1>1, <2>1, PathInvStays DEF Touched
  <2>3. Connected' /\ AskedFor'
    BY <2>1 DEF Connected, AskedFor, ClientOK
  <2>4. PutNeverMisfiles'
    BY <1>6, FiledByPut
  <2> QED
    BY <1>1, <2>1, <2>2, <2>3, <2>4 DEF Inv, Shapes, Touched
<1>7. ASSUME NEW key, SubscriberConnects(key) PROVE Inv'
  <2>1. /\ path.owner \in Servers /\ Touched(path.owner)
        /\ servers'[path.owner].store = servers[path.owner].store /\ client' = client
    BY <1>1, <1>7, SubscriberConnectsEffect
  <2>2. PathOK' /\ PathInv'
    BY <1>1, <2>1, PathInvStays DEF Touched
  <2>3. Connected' /\ AskedFor' /\ ClientOK(client')
    BY <1>1, <2>1 DEF Connected, AskedFor, ClientOK, Shapes, Touched
  <2>4. PutNeverMisfiles'
    BY <1>1, <2>1 DEF PutNeverMisfiles, Touched
  <2> QED
    BY <1>1, <2>1, <2>2, <2>3, <2>4 DEF Inv, Shapes, Touched
<1>8. CASE UNCHANGED vars
  BY <1>1, <1>8 DEF vars, Inv, Shapes, ServersOK, ClientOK, Connected, AskedFor, PathOK, PathInv, Owned,
                    Untouched, OnTheWay, PutNeverMisfiles
<1> QED
  BY <1>2, <1>3, <1>5, <1>6, <1>7, <1>8 DEF Next

THEOREM InvAlways == Spec => []Inv
<1>1. Init => Inv
  BY InvInit
<1>2. Inv /\ [Next]_vars => Inv'
  BY InvNext
<1> QED
  BY <1>1, <1>2, PTL DEF Spec

(***************************************************************************)
(* The shapes of the path, of nkv-server's processes and of nkv-client.    *)
(***************************************************************************)
THEOREM TypesOfThePrograms == Spec => []TypeOK
<1>1. Inv => TypeOK
  BY DEF Inv, Shapes, ServersOK, ServerOK, ClientOK, PathOK, TypeOK, ServerPcs, ClientPcs
<1> QED
  BY <1>1, InvAlways, PTL

(***************************************************************************)
(* However many servers are started for one path, in whatever interleaving *)
(* of their steps in main and in Server::new and over whatever was there:  *)
(* when they are done the path leads to one that serves.                   *)
(***************************************************************************)
THEOREM PathsLeadToServers == Spec => []SomebodyIsReached
<1>1. Inv => SomebodyIsReached
  <2> SUFFICES ASSUME Inv,
                      \A p \in Servers : servers[p].pc \in {"off", "ended", "refused", "lost", "serves"},
                      \E p \in Servers : servers[p].pc \in {"lost", "serves"}
               PROVE  path.owner # Nobody /\ servers[path.owner].pc = "serves"
    BY DEF SomebodyIsReached
  <2>1. path.kind # "none"
    BY DEF Inv, PathInv, OnTheWay
  <2>2. path.owner # Nobody
    BY <2>1 DEF Inv, PathInv, Untouched
  <2> QED
    BY <2>2 DEF Inv, PathInv, Owned, Shapes, PathOK
<1> QED
  BY <1>1, InvAlways, PTL

(***************************************************************************)
(* What nkv-client sends for a put, trimmed and taken apart by the server, *)
(* is stored as it was asked for, whatever words the keys and values are   *)
(* made of and whatever their codes: only an empty value leaves the last   *)
(* word of the key in its place.                                           *)
(***************************************************************************)
THEOREM PutsAreFiledAsAsked == Spec => []PutNeverMisfiles
BY InvAlways, PTL DEF Inv

(***************************************************************************)
(* Whatever the arguments are that the two programs are started with, the  *)
(* loop of FlagParser::new makes of them what they stand for.              *)
(***************************************************************************)
THEOREM FlagsAlwaysAgree == Spec => []FlagsAgree
<1>1. Inv => FlagsAgree
  <2>1. ClientArgs \subseteq Arguments(Values) /\ ServerArgs \subseteq Arguments(Values)
    BY ProgramsAssumption DEF Arguments
  <2> QED
    BY <2>1, NewAgrees DEF Inv, Shapes, ServersOK, ServerOK, ClientOK, FlagsAgree
<1> QED
  BY <1>1, InvAlways, PTL

-----------------------------------------------------------------------------
(* Texts without empty words: nothing of them is trimmed or left out. *)

\* No word of a text is empty.
Full(t) == \A i \in 1..Len(t) : t[i] # NoWord

\* There are n numbers up to n.
LEMMA Counted ==
  ASSUME NEW n \in Nat
  PROVE  Cardinality(1..n) = n
BY FS_Interval

\* A text that is full stays as it is, trimmed and taken apart.
LEMMA FullTexts ==
  ASSUME NEW S, NEW t \in Seq(S), t # <<>>, Full(t)
  PROVE  TrimEnd(t) = t /\ TrimStart(t) = t /\ SplitWhitespace(t) = t
<1> DEFINE kept == {i \in DOMAIN t : t[i] # NoWord}
           upTo(i) == {j \in kept : j <= i}
<1>1. Len(t) \in Nat /\ Len(t) >= 1 /\ DOMAIN t = 1..Len(t)
  OBVIOUS
<1>2. kept = 1..Len(t) /\ Cardinality(kept) = Len(t)
  <2>1. kept = 1..Len(t)
    BY <1>1 DEF Full
  <2> QED
    BY <1>1, <2>1, Counted
<1>3. TrimEnd(t) = t
  <2>1. PICK n \in 1..Len(t) : TrimEnd(t) = SubSeq(t, 1, n) /\ \A j \in n+1..Len(t) : t[j] = NoWord
    BY TrimEndEffect
  <2>2. n = Len(t)
    <3>1. t[Len(t)] # NoWord
      BY <1>1 DEF Full
    <3>2. n < Len(t) => Len(t) \in n+1..Len(t)
      BY <1>1
    <3>3. ~(n < Len(t))
      BY <2>1, <3>1, <3>2
    <3>4. n \in 1..Len(t)
      BY <2>1
    <3>5. Len(t) \in Nat
      BY <1>1
    <3> QED
      BY ONLY <3>3, <3>4, <3>5
  <2>3. SubSeq(t, 1, Len(t)) = t
    BY <1>1
  <2> QED
    BY <2>1, <2>2, <2>3
<1>4. TrimStart(t) = t
  <2>1. {i \in DOMAIN t : \E j \in 1..i : t[j] # NoWord} = 1..Len(t)
    BY <1>1 DEF Full
  <2>2. TrimStart(t) = SubSeq(t, Len(t) - Len(t) + 1, Len(t))
    BY <1>1, <2>1, Counted DEF TrimStart
  <2>3. SubSeq(t, 1, Len(t)) = t /\ Len(t) - Len(t) + 1 = 1
    BY <1>1
  <2> QED
    BY <2>2, <2>3
<1>5. SplitWhitespace(t) = t
  <2>1. ASSUME NEW i \in 1..Len(t) PROVE Cardinality(upTo(i)) = i
    <3>1. upTo(i) = 1..i
      BY <1>1, <1>2
    <3>2. Cardinality(1..i) = i
      BY <1>1, Counted
    <3> HIDE DEF upTo
    <3> QED
      BY <3>1, <3>2
  <2> DEFINE nth(n) == CHOOSE i \in kept : Cardinality(upTo(i)) = n
  <2>2. ASSUME NEW n \in 1..Len(t) PROVE nth(n) = n
    <3> HIDE DEF kept, upTo
    <3>1. \E i \in kept : Cardinality(upTo(i)) = n
      BY <1>2, <2>1
    <3>2. nth(n) \in kept /\ Cardinality(upTo(nth(n))) = n
      BY <3>1
    <3> QED
      BY <1>2, <2>1, <3>2
  <2>3. SplitWhitespace(t) = [n \in 1..Cardinality(kept) |-> t[nth(n)]]
    BY DEF SplitWhitespace
  <2> HIDE DEF kept, nth
  <2>4. SplitWhitespace(t) = [n \in 1..Len(t) |-> t[n]]
    BY <1>2, <2>2, <2>3
  <2>5. t = [n \in 1..Len(t) |-> t[n]]
    BY <1>1
  <2> QED
    BY <2>4, <2>5
<1> QED
  BY <1>3, <1>4, <1>5

\* Three words in front of a text.
LEMMA Front ==
  ASSUME NEW S, NEW a \in S, NEW b \in S, NEW c \in S, NEW x \in Seq(S)
  PROVE  LET t == <<a>> \o <<b>> \o <<c>> \o x
         IN /\ t \in Seq(S) /\ t # <<>> /\ Len(t) = Len(x) + 3 /\ t[1] = a /\ t[2] = b /\ t[3] = c
            /\ \A i \in 1..Len(x) : t[i + 3] = x[i]
            /\ (a # NoWord /\ b # NoWord /\ c # NoWord /\ Full(x)) => Full(t)
<1> DEFINE two == <<a>> \o <<b>>
           front == two \o <<c>>
           t == front \o x
<1>1. two \in Seq(S) /\ Len(two) = 2 /\ two[1] = a /\ two[2] = b
  BY ConcatProperties
<1> HIDE DEF two
<1>2. front \in Seq(S) /\ Len(front) = 3 /\ front[1] = a /\ front[2] = b /\ front[3] = c
  <2>1. <<c>> \in Seq(S) /\ Len(<<c>>) = 1 /\ <<c>>[1] = c
    OBVIOUS
  <2>2. front \in Seq(S) /\ Len(front) = 3 /\ \A i \in 1..2 : front[i] = two[i]
    BY <1>1, <2>1, Joined
  <2>3. front[1 + 2] = c
    BY <1>1, <2>1, Joined
  <2> QED
    BY <1>1, <2>2, <2>3
<1> HIDE DEF front
<1>3. /\ t \in Seq(S) /\ Len(t) = 3 + Len(x)
      /\ \A i \in 1..3 : t[i] = front[i]
      /\ \A i \in 1..Len(x) : t[i + 3] = x[i]
  <2>1. /\ t \in Seq(S) /\ Len(t) = Len(front) + Len(x)
        /\ \A i \in 1..Len(front) : t[i] = front[i]
        /\ \A i \in 1..Len(x) : t[i + Len(front)] = x[i]
    <3>1. front \in Seq(S) /\ x \in Seq(S)
      BY <1>2
    <3> QED
      BY ONLY <3>1, Joined DEF t
  <2> HIDE DEF t
  <2> QED
    BY <1>2, <2>1
<1> HIDE DEF t
<1>4. Len(x) \in Nat
  OBVIOUS
<1>5. Len(t) = Len(x) + 3 /\ t # <<>> /\ t[1] = a /\ t[2] = b /\ t[3] = c
  BY <1>2, <1>3, <1>4
<1>6. ASSUME a # NoWord, b # NoWord, c # NoWord, Full(x), NEW i \in 1..Len(t) PROVE t[i] # NoWord
  <2>1. i \in {1, 2, 3} \/ (i - 3 \in 1..Len(x) /\ (i - 3) + 3 = i)
    BY <1>4, <1>5
  <2>2. CASE i \in {1, 2, 3}
    BY <1>5, <1>6, <2>2
  <2>3. CASE i - 3 \in 1..Len(x) /\ (i - 3) + 3 = i
    <3>1. x[i - 3] # NoWord
      BY <1>6, <2>3 DEF Full
    <3>2. t[(i - 3) + 3] = x[i - 3]
      BY <1>3, <2>3
    <3> QED
      BY <2>3, <3>1, <3>2
  <2> QED
    BY <2>1, <2>2, <2>3
<1> QED
  BY <1>3, <1>5, <1>6 DEF Full, t, front, two

-----------------------------------------------------------------------------
(* Requests, as they are sent and as they arrive. *)

\* A base64 code is only empty for the empty value.
LEMMA CodesAreWords ==
  ASSUME NEW v \in Values, v # Empty
  PROVE  Code[v] # NoWord /\ Decodes(Code[v]) /\ Decode(Code[v]) = v
BY CodeAssumption DEF Decodes, Decode

\* The text of a request that is no put, and of a put.
LEMMA RequestIsFront ==
  ASSUME NEW sent \in PutRequests \cup OtherRequests
  PROVE  \E x : /\ RequestText(sent) = <<sent.op>> \o <<sent.id[1]>> \o <<"me">> \o x
               /\ x = CASE sent.op = "PUT" -> sent.key \o <<Code[sent.value]>>
                        [] sent.op = "HEALTH" -> <<"HK">>
                        [] sent.op = "VERSION" -> <<"DISCARDME">>
                        [] OTHER -> sent.key
<1>1. sent.id = <<sent.id[1]>> /\ sent.client = <<"me">>
  BY DEF PutRequests, OtherRequests, Me
<1> QED
  BY <1>1 DEF RequestText

\* A request has at least four words, and its second one is its id.
LEMMA RequestParts ==
  ASSUME NEW sent \in PutRequests \cup OtherRequests
  PROVE  LET t == RequestText(sent)
         IN /\ t \in Seq(Words) /\ Len(t) >= 4 /\ t[1] = sent.op
            /\ t[2] = sent.id[1] /\ sent.id = <<t[2]>> /\ t[2] # NoWord
            /\ t[3] = "me"
<1> DEFINE t == RequestText(sent)
<1>1. /\ sent.op \in Words /\ sent.id[1] \in {"id", "me"} /\ sent.id = <<sent.id[1]>>
      /\ sent.key \in Seq(Words) /\ Len(sent.key) >= 1
      /\ "me" \in Words /\ "id" \in Words /\ "HK" \in Words /\ "DISCARDME" \in Words
  <2>1. sent \in PutRequests => sent.key \in Texts /\ sent.op \in Words
    BY CodeAssumption DEF PutRequests, Words, Verbs
  <2>2. sent.key \in Texts => sent.key \in Seq(Words) /\ Len(sent.key) >= 1
    BY SeqMonotonic DEF Texts, Words
  <2>3. sent \in OtherRequests => sent.key \in Seq(Words) /\ Len(sent.key) >= 1 /\ sent.op \in Words
    BY DEF OtherRequests, Words
  <2>4. sent.id[1] \in {"id", "me"} /\ sent.id = <<sent.id[1]>>
    BY DEF PutRequests, OtherRequests, Me
  <2> QED
    BY <2>1, <2>2, <2>3, <2>4 DEF Words
<1>2. PICK x : /\ RequestText(sent) = <<sent.op>> \o <<sent.id[1]>> \o <<"me">> \o x
               /\ x = CASE sent.op = "PUT" -> sent.key \o <<Code[sent.value]>>
                        [] sent.op = "HEALTH" -> <<"HK">>
                        [] sent.op = "VERSION" -> <<"DISCARDME">>
                        [] OTHER -> sent.key
  BY RequestIsFront
<1>3. x \in Seq(Words) /\ Len(x) >= 1
  <2>1. CASE sent.op = "PUT"
    <3>1. Code[sent.value] \in Words
      BY <2>1, CodeAssumption DEF PutRequests, OtherRequests, Words
    <3>2. <<Code[sent.value]>> \in Seq(Words) /\ Len(<<Code[sent.value]>>) = 1
      BY <3>1
    <3> QED
      BY <1>1, <1>2, <2>1, <3>2, Joined
  <2>2. CASE sent.op # "PUT"
    BY <1>1, <1>2, <2>2
  <2> QED
    BY <2>1, <2>2
<1>4. sent.id[1] \in Words /\ sent.id[1] # NoWord
  BY <1>1 DEF NoWord
<1>5. /\ t \in Seq(Words) /\ Len(t) = Len(x) + 3 /\ t[1] = sent.op /\ t[2] = sent.id[1] /\ t[3] = "me"
  BY <1>1, <1>2, <1>3, <1>4, Front
<1>6. Len(t) >= 4
  BY <1>3, <1>5
<1> QED
  BY <1>1, <1>4, <1>5, <1>6

\* What parses has the id that was sent, one word for a key, and a value that is not empty.
LEMMA ArrivingParts ==
  ASSUME NEW sent \in PutRequests \cup OtherRequests,
         NEW r, r = ParseRequest(TrimEnd(RequestText(sent))), r # Refused
  PROVE  /\ \E w \in {"id", "me"} : r.id = <<w>>
         /\ \E w \in Words : r.key = <<w>>
         /\ r.op = "PUT" => r.value \in Values /\ r.value # Empty
<1> DEFINE t == RequestText(sent)
<1>1. t \in Seq(Words) /\ Len(t) >= 4 /\ t[2] \in {"id", "me"}
  <2>1. sent.id[1] \in {"id", "me"}
    BY DEF PutRequests, OtherRequests, Me
  <2> QED
    BY <2>1, RequestParts
<1> HIDE DEF t
<1>2. PICK n \in 1..Len(t) : TrimEnd(t) = SubSeq(t, 1, n) /\ (n = 1 \/ t[n] # NoWord)
  BY <1>1, TrimEndEffect
<1> DEFINE u == SubSeq(t, 1, n)
           f == Splitn(u, 5)
<1>3. u \in Seq(Words) /\ u # <<>> /\ Len(u) = n /\ \A i \in 1..n : u[i] = t[i]
  BY <1>1, <1>2
<1>4. r = ParseRequest(u)
  BY <1>2 DEF t
<1> HIDE DEF u
<1>5. /\ Len(f) >= 4 /\ u[1] \in Verbs
      /\ r.id = f[2] /\ r.key = f[4]
  <2>1. Len(f) >= 4 /\ u[1] \in Verbs
    BY <1>4 DEF ParseRequest
  <2>2. CASE u[1] # "PUT"
    BY <1>4, <2>1, <2>2 DEF ParseRequest, Request
  <2>3. CASE u[1] = "PUT"
    BY <1>4, <2>1, <2>3 DEF ParseRequest, PutRequest
  <2> QED
    BY <2>1, <2>2, <2>3
<1>6. n >= 4
  <2>1. Len(u) \in Nat
    BY <1>3
  <2> QED
    BY <1>3, <1>5, <2>1 DEF Splitn
<1>7. f[2] = <<u[2]>> /\ f[4] = <<u[4]>>
  BY <1>2, <1>3, <1>6 DEF Splitn
<1>8. u[2] \in {"id", "me"} /\ u[4] \in Words
  BY <1>1, <1>2, <1>3, <1>6
<1>9. ASSUME r.op = "PUT" PROVE r.value \in Values /\ r.value # Empty
  <2>1. n = 5 /\ Code[r.value] = u[5]
    BY <1>3, <1>4, <1>9, ParsedPut
  <2>2. u[5] # NoWord
    BY <1>2, <1>3, <2>1
  <2>3. r.value \in Values
    BY <1>4, <1>9, ParsedValue
  <2> QED
    BY <2>1, <2>2, <2>3, CodeAssumption
<1> QED
  BY <1>5, <1>7, <1>8, <1>9

\* A request with one word for a key, and with a value if it is a put, none of them empty.
Plain(r) == \E w \in Words : w # NoWord /\ r.key = <<w>> /\ (r.op = "PUT" => r.value # Empty)

\* Such a request parses, and its key is not empty.
LEMMA PlainArrives ==
  ASSUME NEW sent \in PutRequests \cup OtherRequests, Plain(sent),
         NEW r, r = ParseRequest(TrimEnd(RequestText(sent)))
  PROVE  r # Refused /\ r.key[1] # NoWord
<1> DEFINE t == RequestText(sent)
           f == Splitn(t, 5)
<1>1. PICK w \in Words : w # NoWord /\ sent.key = <<w>> /\ (sent.op = "PUT" => sent.value # Empty)
  BY DEF Plain
<1>2. PICK x : /\ t = <<sent.op>> \o <<sent.id[1]>> \o <<"me">> \o x
               /\ x = CASE sent.op = "PUT" -> sent.key \o <<Code[sent.value]>>
                        [] sent.op = "HEALTH" -> <<"HK">>
                        [] sent.op = "VERSION" -> <<"DISCARDME">>
                        [] OTHER -> sent.key
  BY RequestIsFront
<1>3. sent.op \in Verbs /\ sent.op # NoWord /\ sent.id[1] \in {"id", "me"}
  <2>1. sent.op \in Verbs
    BY DEF PutRequests, OtherRequests, Verbs
  <2>2. sent.id[1] \in {"id", "me"}
    BY DEF PutRequests, OtherRequests, Me
  <2> QED
    BY <2>1, <2>2 DEF Verbs, NoWord
<1>4. /\ x \in Seq(Words) /\ x # <<>> /\ Full(x)
      /\ IF sent.op = "PUT" THEN Len(x) = 2 /\ x[2] = Code[sent.value] ELSE Len(x) = 1
  <2>1. CASE sent.op = "PUT"
    <3>1. sent.value \in Values /\ sent.value # Empty
      BY <1>1, <2>1 DEF PutRequests, OtherRequests
    <3>2. Code[sent.value] \in Words /\ Code[sent.value] # NoWord
      BY <3>1, CodesAreWords, CodeAssumption DEF Words
    <3>3. <<w>> \in Seq(Words) /\ <<Code[sent.value]>> \in Seq(Words)
      BY <3>2
    <3>4. x \in Seq(Words) /\ Len(x) = 2 /\ x[1] = w /\ x[2] = Code[sent.value]
      BY <1>1, <1>2, <2>1, <3>3, ConcatProperties
    <3>5. \A i \in 1..Len(x) : x[i] # NoWord
      BY <1>1, <3>2, <3>4
    <3>6. x # <<>> /\ Full(x)
      BY <3>4, <3>5 DEF Full
    <3> QED
      BY <2>1, <3>4, <3>6
  <2>2. CASE sent.op # "PUT"
    <3>1. PICK v : x = <<v>> /\ v \in Words /\ v # NoWord
      BY <1>1, <1>2, <2>2 DEF Words, NoWord
    <3> QED
      BY <2>2, <3>1 DEF Full
  <2> QED
    BY <2>1, <2>2
<1>5. /\ t \in Seq(Words) /\ t # <<>> /\ Len(t) = Len(x) + 3 /\ t[1] = sent.op
      /\ \A i \in 1..Len(x) : t[i + 3] = x[i]
      /\ Full(t)
  <2>1. sent.op \in Words /\ sent.id[1] \in Words /\ "me" \in Words
    BY <1>3 DEF Words
  <2>2. sent.id[1] # NoWord /\ "me" # NoWord
    BY <1>3 DEF NoWord
  <2>3. t = <<sent.op>> \o <<sent.id[1]>> \o <<"me">> \o x
    BY <1>2
  <2> HIDE DEF t
  <2>4. x \in Seq(Words) /\ Full(x) /\ sent.op # NoWord
    BY <1>3, <1>4
  <2> DEFINE whole == <<sent.op>> \o <<sent.id[1]>> \o <<"me">> \o x
  <2>5. /\ whole \in Seq(Words) /\ whole # <<>> /\ Len(whole) = Len(x) + 3 /\ whole[1] = sent.op
        /\ \A i \in 1..Len(x) : whole[i + 3] = x[i]
    BY ONLY <2>1, <2>4, Front
  <2>6. Full(whole)
    BY ONLY <2>1, <2>2, <2>4, Front DEF Full
  <2> QED
    BY <2>3, <2>5, <2>6
<1> HIDE DEF t
<1>6. TrimEnd(t) = t /\ r = ParseRequest(t)
  BY <1>5, FullTexts DEF t
<1>7. IF sent.op = "PUT" THEN Len(t) = 5 /\ t[5] = Code[sent.value] ELSE Len(t) = 4
  <2>1. CASE sent.op = "PUT"
    <3>1. Len(x) = 2 /\ x[2] = Code[sent.value]
      BY <1>4, <2>1
    <3>2. Len(t) = Len(x) + 3 /\ \A i \in 1..Len(x) : t[i + 3] = x[i]
      BY <1>5
    <3>3. Len(t) = 5 /\ t[2 + 3] = x[2]
      BY ONLY <3>1, <3>2
    <3> QED
      BY <2>1, <3>1, <3>3
  <2> QED
    BY <1>4, <1>5, <2>1
<1>8. f[4] = <<t[4]>> /\ t[4] # NoWord
  <2>1. Len(t) >= 4 /\ Len(t) \in Nat
    BY <1>7
  <2>2. t[4] # NoWord
    BY <1>5, <2>1 DEF Full
  <2>3. Len(t) = 4 \/ Len(t) = 5
    BY <1>7
  <2>4. f[4] = IF 4 < 5 THEN <<t[4]>> ELSE SubSeq(t, 5, Len(t))
    BY <2>1, <2>3 DEF Splitn
  <2> QED
    BY <2>2, <2>4
<1>9. CASE sent.op = "PUT"
  <2>1. Len(f) = 5 /\ f[5] = SubSeq(t, 5, 5)
    <3>1. Len(t) = 5
      BY <1>7, <1>9
    <3> QED
      BY ONLY <3>1 DEF Splitn, f
  <2>2. Len(SubSeq(t, 5, 5)) = 1 /\ SubSeq(t, 5, 5)[1] = t[5]
    BY <1>5, <1>7, <1>9
  <2>3. Decodes(t[5])
    BY <1>7, <1>9 DEF Decodes, PutRequests, OtherRequests
  <2> HIDE DEF f
  <2>4. r = PutRequest(f[2], f[3], f[4], Decode(f[5][1]))
    <3>1. /\ ~(Len(f) < 4 \/ t[1] \notin Verbs) /\ t[1] = "PUT"
          /\ ~(Len(f) < 5 \/ Len(f[5]) # 1 \/ ~Decodes(f[5][1]))
      BY <1>3, <1>5, <1>9, <2>1, <2>2, <2>3
    <3> QED
      BY <1>6, <3>1 DEF ParseRequest, f
  <2>5. r.op = "PUT" /\ r.key = f[4]
    BY <2>4 DEF PutRequest
  <2> QED
    BY <1>8, <2>5 DEF Refused
<1>10. CASE sent.op # "PUT"
  <2>1. Len(f) = 4
    <3>1. Len(t) = 4
      BY <1>7, <1>10
    <3> QED
      BY ONLY <3>1 DEF Splitn, f
  <2> HIDE DEF f
  <2>2. r = Request(t[1], f[2], f[3], f[4])
    BY <1>3, <1>5, <1>6, <1>10, <2>1 DEF ParseRequest, f
  <2>3. r.op \in Verbs /\ r.key = f[4]
    BY <1>3, <1>5, <2>2 DEF Request
  <2> QED
    BY <1>8, <2>3 DEF Refused, Verbs
<1> QED
  BY <1>9, <1>10

-----------------------------------------------------------------------------
(* Responses and messages. *)

\* What of a text stays without its first word.
LEMMA RestOf ==
  ASSUME NEW S, NEW t \in Seq(S), NEW m \in 1..Len(t), Full(t)
  PROVE  LET rest == SubSeq(t, m, Len(t))
         IN /\ rest \in Seq(S) /\ Len(rest) = Len(t) - m + 1 /\ Full(rest) /\ rest # <<>>
            /\ \A i \in 1..Len(t) - m + 1 : rest[i] = t[i + (m - 1)]
<1> DEFINE rest == SubSeq(t, m, Len(t))
<1>1. Len(t) \in Nat /\ m \in Nat /\ m >= 1 /\ m <= Len(t) /\ Len(t) - m + 1 \in Nat /\ Len(t) - m + 1 >= 1
  OBVIOUS
<1>2. \A i \in m..Len(t) : t[i] \in S
  BY <1>1
<1>3. /\ rest \in Seq(S) /\ Len(rest) = IF m <= Len(t) THEN Len(t) - m + 1 ELSE 0
      /\ \A i \in 1..Len(t) - m + 1 : rest[i] = t[m + i - 1]
  BY <1>1, <1>2, SubSeqProperties
<1> HIDE DEF rest
<1>4. Len(rest) = Len(t) - m + 1 /\ rest # <<>>
  BY <1>1, <1>3
<1>5. ASSUME NEW i \in 1..Len(t) - m + 1 PROVE rest[i] = t[i + (m - 1)] /\ i + (m - 1) \in 1..Len(t)
  <2>1. m + i - 1 = i + (m - 1) /\ i + (m - 1) \in 1..Len(t)
    BY <1>1
  <2> QED
    BY <1>3, <2>1
<1>6. Full(rest)
  BY <1>4, <1>5 DEF Full
<1> QED
  BY <1>3, <1>4, <1>5, <1>6 DEF rest

\* A response with a kind, an id and a status, and full words behind them, comes apart into these.
LEMMA HeardResponse ==
  ASSUME NEW S, NEW t \in Seq(S), NEW x \in Seq(S), Full(t), Len(t) = Len(x) + 3,
         t[1] \in {"base", "data", "trace", "version"}, NEW ok \in BOOLEAN, t[3] = IF ok THEN "OK" ELSE "FAILED",
         \A i \in 1..Len(x) : t[i + 3] = x[i]
  PROVE  ParseResponse(TrimEnd(t)) =
           CASE t[1] = "base" -> BaseResp(<<t[2]>>, ok)
             [] t[1] = "data" -> IF IsMarshalled(x) THEN DataResp("data", <<t[2]>>, ok, Unmarshal(x)) ELSE Unparsed
             [] OTHER -> DataResp(t[1], <<t[2]>>, ok, x)
<1> DEFINE tail == SubSeq(t, 2, Len(t))
           data == SubSeq(tail, 3, Len(tail))
<1>1. Len(x) \in Nat /\ Len(t) \in Nat /\ Len(t) >= 3 /\ t # <<>>
  OBVIOUS
<1>2. TrimEnd(t) = t
  BY <1>1, FullTexts
<1>3. /\ tail \in Seq(S) /\ Len(tail) = Len(x) + 2 /\ Full(tail) /\ tail # <<>>
      /\ \A i \in 1..Len(x) + 2 : tail[i] = t[i + 1]
  <2>1. 2 \in 1..Len(t) /\ Len(t) - 2 + 1 = Len(x) + 2 /\ 2 - 1 = 1
    BY <1>1
  <2> HIDE DEF tail
  <2> QED
    BY <2>1, RestOf DEF tail
<1> HIDE DEF tail
<1>4. TrimStart(tail) = tail /\ SplitWhitespace(tail) = tail
  BY <1>3, FullTexts
<1>5. tail[1] = t[2] /\ tail[2] = t[3]
  BY <1>1, <1>3
<1>6. data = x
  <2>1. CASE Len(x) = 0
    <3>1. data = <<>>
      BY <1>3, <2>1, SubSeqEmpty
    <3>2. x = <<>>
      BY <2>1
    <3> QED
      BY <3>1, <3>2
  <2>2. CASE Len(x) # 0
    <3>1. 3 \in 1..Len(tail) /\ Len(tail) - 3 + 1 = Len(x) /\ 3 - 1 = 2
      BY <1>1, <1>3, <2>2
    <3>2. data \in Seq(S) /\ Len(data) = Len(x) /\ \A i \in 1..Len(x) : data[i] = tail[i + 2]
      BY <1>3, <3>1, RestOf
    <3> HIDE DEF data
    <3>3. ASSUME NEW i \in 1..Len(x) PROVE data[i] = x[i]
      <4>1. i + 2 \in 1..Len(x) + 2 /\ (i + 2) + 1 = i + 3
        BY <1>1
      <4> QED
        BY <1>3, <3>2, <4>1
    <3> QED
      BY <3>2, <3>3
  <2> QED
    BY <2>1, <2>2
<1> HIDE DEF data
<1>7. tail[2] \in {"OK", "FAILED"} /\ (tail[2] = "OK") = ok /\ ~(Len(tail) < 2)
  BY <1>1, <1>3, <1>5
<1>8. ParseResponse(t) =
        CASE t[1] = "base" -> BaseResp(<<tail[1]>>, tail[2] = "OK")
          [] t[1] = "data" ->
               IF IsMarshalled(data) THEN DataResp("data", <<tail[1]>>, tail[2] = "OK", Unmarshal(data))
               ELSE Unparsed
          [] OTHER -> DataResp(t[1], <<tail[1]>>, tail[2] = "OK", data)
  <2>1. CASE t[1] = "base"
    BY <1>4, <1>7, <2>1 DEF ParseResponse, tail, data
  <2>2. CASE t[1] = "data"
    BY <1>4, <1>7, <2>2 DEF ParseResponse, tail, data
  <2>3. CASE t[1] \in {"trace", "version"}
    BY <1>4, <1>7, <2>3 DEF ParseResponse, tail, data
  <2> QED
    BY <2>1, <2>2, <2>3
<1> QED
  BY <1>2, <1>5, <1>6, <1>7, <1>8

\* The words of what is said: those of keys, codes and requests, and those that responses add.
Spoken == Words \cup {"base", "data", "trace", "version", "OK", "FAILED", "0.1", "UPDATE", "CLOSE", "HELLO"}

\* A text that consists of two full ones.
LEMMA JoinedFull ==
  ASSUME NEW S, NEW s \in Seq(S), NEW t \in Seq(S), Full(s), Full(t)
  PROVE  Full(s \o t)
<1> DEFINE u == s \o t
<1>1. /\ u \in Seq(S) /\ Len(u) = Len(s) + Len(t)
      /\ \A i \in 1..Len(s) : u[i] = s[i]
      /\ \A i \in 1..Len(t) : u[i + Len(s)] = t[i]
  BY Joined
<1> HIDE DEF u
<1>2. ASSUME NEW i \in 1..Len(u) PROVE u[i] # NoWord
  <2>1. Len(s) \in Nat /\ Len(t) \in Nat
    OBVIOUS
  <2>2. CASE i <= Len(s)
    <3>1. i \in 1..Len(s)
      BY <1>1, <2>1, <2>2
    <3> QED
      BY <1>1, <3>1 DEF Full
  <2>3. CASE i > Len(s)
    <3>1. i - Len(s) \in 1..Len(t) /\ (i - Len(s)) + Len(s) = i
      BY <1>1, <2>1, <2>3
    <3>2. t[i - Len(s)] # NoWord
      BY <3>1 DEF Full
    <3> QED
      BY <1>1, <3>1, <3>2
  <2> QED
    BY <2>1, <2>2, <2>3
<1> QED
  BY <1>2 DEF Full, u

\* The kind, the id and the status in front of a response.
IsAnswer(r) ==
  r.kind \in {"base", "data", "trace", "version"} /\ r.id \in {<<"id">>, <<"me">>} /\ r.ok \in BOOLEAN

HeadOf(r) == <<r.kind>> \o BaseText(r)

LEMMA ResponseHead ==
  ASSUME NEW r, IsAnswer(r)
  PROVE  /\ HeadOf(r) \in Seq(Spoken) /\ Len(HeadOf(r)) = 3 /\ Full(HeadOf(r))
         /\ HeadOf(r)[1] = r.kind /\ HeadOf(r)[2] = r.id[1] /\ <<r.id[1]>> = r.id
         /\ HeadOf(r)[3] = IF r.ok THEN "OK" ELSE "FAILED"
<1>1. PICK kind \in {"base", "data", "trace", "version"}, w \in {"id", "me"}, status \in {"OK", "FAILED"} :
        /\ kind = r.kind /\ r.id = <<w>> /\ w = r.id[1] /\ status = IF r.ok THEN "OK" ELSE "FAILED"
  BY DEF IsAnswer
<1> DEFINE base == <<w>> \o <<status>>
           whole == <<kind>> \o base
<1>2. kind \in Spoken /\ w \in Spoken /\ status \in Spoken
  BY DEF Spoken, Words
<1>3. kind # NoWord /\ w # NoWord /\ status # NoWord
  BY DEF NoWord
<1>4. HeadOf(r) = whole
  BY <1>1 DEF BaseText, HeadOf
<1>5. base \in Seq(Spoken) /\ Len(base) = 2 /\ base[1] = w /\ base[2] = status
  BY <1>2, ConcatProperties
<1> HIDE DEF base
<1>6. whole \in Seq(Spoken) /\ Len(whole) = 3 /\ whole[1] = kind /\ whole[2] = w /\ whole[3] = status
  <2>1. <<kind>> \in Seq(Spoken) /\ Len(<<kind>>) = 1 /\ <<kind>>[1] = kind
    BY <1>2
  <2>2. /\ whole \in Seq(Spoken) /\ Len(whole) = Len(<<kind>>) + Len(base)
        /\ \A i \in 1..Len(<<kind>>) : whole[i] = <<kind>>[i]
        /\ \A i \in 1..Len(base) : whole[i + Len(<<kind>>)] = base[i]
    <3>1. <<kind>> \in Seq(Spoken) /\ base \in Seq(Spoken)
      BY <1>5, <2>1
    <3> QED
      BY ONLY <3>1, Joined
  <2>3. whole[1] = kind /\ whole[1 + 1] = base[1] /\ whole[2 + 1] = base[2]
    BY <1>5, <2>1, <2>2
  <2> QED
    BY <1>5, <2>1, <2>2, <2>3
<1> HIDE DEF whole
<1>7. Full(whole)
  BY <1>3, <1>6 DEF Full
<1> QED
  BY <1>1, <1>4, <1>6, <1>7

\* Such a response and its data are heard as they were said.
LEMMA SaidAndHeard ==
  ASSUME NEW r, IsAnswer(r), r.kind # "base", NEW x \in Seq(Spoken), Full(x)
  PROVE  ParseResponse(TrimEnd(HeadOf(r) \o x)) =
           IF r.kind = "data"
             THEN IF IsMarshalled(x) THEN DataResp("data", r.id, r.ok, Unmarshal(x)) ELSE Unparsed
             ELSE DataResp(r.kind, r.id, r.ok, x)
<1> DEFINE head == HeadOf(r)
           t == head \o x
<1>1. /\ head \in Seq(Spoken) /\ Len(head) = 3 /\ Full(head)
      /\ head[1] = r.kind /\ head[2] = r.id[1] /\ <<r.id[1]>> = r.id
      /\ head[3] = IF r.ok THEN "OK" ELSE "FAILED"
  BY ResponseHead
<1> HIDE DEF head
<1>2. /\ t \in Seq(Spoken) /\ Len(t) = Len(head) + Len(x)
      /\ \A i \in 1..Len(head) : t[i] = head[i]
      /\ \A i \in 1..Len(x) : t[i + Len(head)] = x[i]
  <2>1. head \in Seq(Spoken) /\ x \in Seq(Spoken)
    BY <1>1
  <2> QED
    BY ONLY <2>1, Joined
<1>3. Full(t)
  BY <1>1, JoinedFull
<1> HIDE DEF t
<1>4. /\ Len(t) = Len(x) + 3 /\ \A i \in 1..Len(x) : t[i + 3] = x[i]
      /\ t[1] = r.kind /\ t[2] = r.id[1] /\ t[3] = IF r.ok THEN "OK" ELSE "FAILED"
  <2>1. Len(x) \in Nat
    OBVIOUS
  <2> QED
    BY <1>1, <1>2, <2>1
<1>5. ParseResponse(TrimEnd(t)) =
           CASE t[1] = "base" -> BaseResp(<<t[2]>>, r.ok)
             [] t[1] = "data" -> IF IsMarshalled(x) THEN DataResp("data", <<t[2]>>, r.ok, Unmarshal(x)) ELSE Unparsed
             [] OTHER -> DataResp(t[1], <<t[2]>>, r.ok, x)
  <2>1. t[1] \in {"base", "data", "trace", "version"} /\ r.ok \in BOOLEAN
    BY <1>4 DEF IsAnswer
  <2>2. /\ t \in Seq(Spoken) /\ Full(t) /\ Len(t) = Len(x) + 3 /\ \A i \in 1..Len(x) : t[i + 3] = x[i]
        /\ t[3] = IF r.ok THEN "OK" ELSE "FAILED"
    BY <1>2, <1>3, <1>4
  <2> QED
    BY ONLY <2>1, <2>2, HeardResponse
<1> QED
  BY <1>1, <1>4, <1>5 DEF t, head

\* The answers to PUT, DEL, UNSUB and HEALTH.
LEMMA BaseHeard ==
  ASSUME NEW r, IsAnswer(r), r.kind = "base", NEW text \in ResponseTexts(r)
  PROVE  ParseResponse(TrimEnd(text)) = BaseResp(r.id, r.ok)
<1>1. text = HeadOf(r)
  BY DEF ResponseTexts, HeadOf
<1>2. /\ text \in Seq(Spoken) /\ Len(text) = 3 /\ Full(text)
      /\ text[1] = "base" /\ text[2] = r.id[1] /\ <<r.id[1]>> = r.id
      /\ text[3] = IF r.ok THEN "OK" ELSE "FAILED"
  BY <1>1, ResponseHead
<1> DEFINE x == <<>>
<1>3. x \in Seq(Spoken) /\ Len(text) = Len(x) + 3 /\ \A i \in 1..Len(x) : text[i + 3] = x[i]
  <2>1. <<>> \in Seq(Spoken) /\ Len(<<>>) = 0
    OBVIOUS
  <2> QED
    BY <1>2, <2>1
<1> HIDE DEF x
<1>4. ParseResponse(TrimEnd(text)) =
           CASE text[1] = "base" -> BaseResp(<<text[2]>>, r.ok)
             [] text[1] = "data" ->
                  IF IsMarshalled(x) THEN DataResp("data", <<text[2]>>, r.ok, Unmarshal(x)) ELSE Unparsed
             [] OTHER -> DataResp(text[1], <<text[2]>>, r.ok, x)
  <2>1. text[1] \in {"base", "data", "trace", "version"} /\ r.ok \in BOOLEAN
    BY <1>2 DEF IsAnswer
  <2> QED
    BY <1>2, <1>3, <2>1, HeardResponse
<1> QED
  BY <1>2, <1>4

\* The answers to TRACE and VERSION.
LEMMA WordsHeard ==
  ASSUME NEW r, IsAnswer(r), r.kind \in {"trace", "version"}, r.data \in {<<>>, <<"me">>, <<"0.1">>}, NEW text \in ResponseTexts(r)
  PROVE  ParseResponse(TrimEnd(text)) = DataResp(r.kind, r.id, r.ok, r.data)
<1>1. text = HeadOf(r) \o r.data
  BY DEF ResponseTexts, HeadOf
<1>2. r.data \in Seq(Spoken) /\ Full(r.data)
  <2>1. CASE r.data = <<>>
    BY <2>1 DEF Full
  <2>2. ASSUME NEW v \in {"me", "0.1"}, r.data = <<v>> PROVE r.data \in Seq(Spoken) /\ Full(r.data)
    <3>1. v \in Spoken /\ v # NoWord
      BY DEF Spoken, Words, NoWord
    <3> QED
      BY <2>2, <3>1 DEF Full
  <2> QED
    BY <2>1, <2>2
<1>3. r.kind # "base" /\ r.kind # "data"
  OBVIOUS
<1>4. ParseResponse(TrimEnd(HeadOf(r) \o r.data)) =
        IF r.kind = "data"
          THEN IF IsMarshalled(r.data) THEN DataResp("data", r.id, r.ok, Unmarshal(r.data)) ELSE Unparsed
          ELSE DataResp(r.kind, r.id, r.ok, r.data)
  BY <1>2, <1>3, SaidAndHeard
<1> QED
  BY <1>1, <1>3, <1>4

\* What a server keeps: no key and no value is empty.
Kept(store) ==
  /\ IsFiniteSet(DOMAIN store)
  /\ \A k \in DOMAIN store : k \in Words /\ k # NoWord /\ store[k] \in Values /\ store[k] # Empty

\* A map is written as its keys and the codes of their values, in turn.
LEMMA Marshalled ==
  ASSUME NEW store, Kept(store), NEW keys \in Orders(DOMAIN store)
  PROVE  LET m == Marshal(store, keys)
         IN /\ m \in Seq(Spoken) /\ Full(m) /\ Len(m) = 2 * Len(keys) /\ Len(keys) \in Nat
            /\ \A i \in 1..Len(keys) :
                 /\ keys[i] \in DOMAIN store /\ m[2 * i - 1] = keys[i]
                 /\ m[2 * i] = Code[store[keys[i]]]
            /\ \A k \in DOMAIN store : \E i \in 1..Len(keys) : keys[i] = k
<1> DEFINE D == DOMAIN store
           n == Cardinality(D)
           m == Marshal(store, keys)
<1>1. n \in Nat
  BY FS_CardinalityType DEF Kept
<1> HIDE DEF n
<1>2. keys \in [1..n -> D] /\ \A k \in D : \E i \in 1..n : keys[i] = k
  BY DEF Orders, n
<1>3. Len(keys) = n
  BY <1>1, <1>2
<1>4. ASSUME NEW i \in 1..n PROVE keys[i] \in Spoken \ {NoWord} /\ Code[store[keys[i]]] \in Spoken \ {NoWord}
  <2>1. keys[i] \in D
    BY <1>2
  <2>2. keys[i] \in Words /\ keys[i] # NoWord /\ store[keys[i]] \in Values /\ store[keys[i]] # Empty
    BY <2>1 DEF Kept
  <2>3. Code[store[keys[i]]] # NoWord /\ Code[store[keys[i]]] \in Word
    BY <2>2, CodesAreWords, CodeAssumption
  <2> QED
    BY <2>2, <2>3 DEF Spoken, Words
<1> HIDE DEF D
<1>5. m = [i \in 1..2 * n |-> IF i % 2 = 1 THEN keys[(i + 1) \div 2] ELSE Code[store[keys[i \div 2]]]]
  BY <1>3 DEF Marshal
<1> HIDE DEF m
<1>6. ASSUME NEW i \in 1..2 * n PROVE m[i] \in Spoken \ {NoWord}
  <2>1. CASE i % 2 = 1
    <3>1. (i + 1) \div 2 \in 1..n
      BY <1>1, <2>1
    <3>2. m[i] = keys[(i + 1) \div 2]
      BY <1>5, <2>1
    <3> QED
      BY <1>4, <3>1, <3>2
  <2>2. CASE i % 2 # 1
    <3>1. i \div 2 \in 1..n
      BY <1>1, <2>2
    <3>2. m[i] = Code[store[keys[i \div 2]]]
      BY <1>5, <2>2
    <3> QED
      BY <1>4, <3>1, <3>2
  <2> QED
    BY <2>1, <2>2
<1>7. m \in Seq(Spoken) /\ Len(m) = 2 * n /\ Full(m)
  <2>1. DOMAIN m = 1..2 * n /\ 2 * n \in Nat /\ m = [i \in 1..2 * n |-> m[i]]
    BY <1>1, <1>5
  <2>2. m \in [1..2 * n -> Spoken]
    BY <1>6, <2>1
  <2>3. m \in Seq(Spoken) /\ Len(m) = 2 * n
    BY <2>1, <2>2
  <2> QED
    BY <1>6, <2>3 DEF Full
<1>8. ASSUME NEW i \in 1..n PROVE m[2 * i - 1] = keys[i] /\ m[2 * i] = Code[store[keys[i]]]
  <2>1. /\ 2 * i - 1 \in 1..2 * n /\ (2 * i - 1) % 2 = 1 /\ ((2 * i - 1) + 1) \div 2 = i
        /\ 2 * i \in 1..2 * n /\ (2 * i) % 2 # 1 /\ (2 * i) \div 2 = i
    BY <1>1
  <2>2. m[2 * i - 1] = keys[((2 * i - 1) + 1) \div 2]
    BY <1>5, <2>1
  <2>3. m[2 * i] = Code[store[keys[(2 * i) \div 2]]]
    BY <1>5, <2>1
  <2> QED
    BY <2>1, <2>2, <2>3
<1> QED
  BY <1>1, <1>2, <1>3, <1>7, <1>8 DEF m, D

\* From this the map is read again.
LEMMA Unmarshalled ==
  ASSUME NEW store, Kept(store), store = [k \in DOMAIN store |-> store[k]], NEW keys \in Orders(DOMAIN store)
  PROVE  IsMarshalled(Marshal(store, keys)) /\ Unmarshal(Marshal(store, keys)) = store
<1> DEFINE m == Marshal(store, keys)
           n == Len(keys)
           D == DOMAIN store
           last(k) == CHOOSE i \in 1..Len(m) \div 2 :
                        /\ m[2 * i - 1] = k
                        /\ \A j \in i + 1..Len(m) \div 2 : m[2 * j - 1] # k
<1>1. /\ m \in Seq(Spoken) /\ Len(m) = 2 * n /\ n \in Nat
      /\ \A i \in 1..n : keys[i] \in D /\ m[2 * i - 1] = keys[i] /\ m[2 * i] = Code[store[keys[i]]]
      /\ \A k \in D : \E i \in 1..n : keys[i] = k
  BY Marshalled
<1>2. \A k \in D : store[k] \in Values /\ store[k] # Empty
  BY DEF Kept
<1> HIDE DEF m, n, D
<1>3. Len(m) \div 2 = n /\ Len(m) % 2 = 0
  BY <1>1
<1>4. IsMarshalled(m)
  BY <1>1, <1>2, <1>3, CodesAreWords DEF IsMarshalled
<1>5. {m[2 * i - 1] : i \in 1..Len(m) \div 2} = D
  <2>1. \A i \in 1..n : m[2 * i - 1] \in D
    BY <1>1
  <2>2. \A k \in D : \E i \in 1..n : k = m[2 * i - 1]
    BY <1>1
  <2>3. {m[2 * i - 1] : i \in 1..n} = D
    BY ONLY <2>1, <2>2
  <2> QED
    BY <1>3, <2>3
<1>6. ASSUME NEW k \in D PROVE Decode(m[2 * last(k)]) = store[k]
  <2> DEFINE after == {d \in Nat : \E i \in 1..n : d = n - i /\ keys[i] = k}
  <2>1. after \in SUBSET Nat /\ after # {}
    <3>1. PICK i \in 1..n : keys[i] = k
      BY <1>1
    <3>2. n - i \in after
      BY <1>1, <3>1
    <3> QED
      BY <3>2
  <2>2. PICK d \in after : \A e \in after : d <= e
    <3> HIDE DEF after
    <3> QED
      BY <2>1, Least
  <2>3. PICK i \in 1..n : d = n - i /\ keys[i] = k
    BY <2>2
  <2>4. ASSUME NEW j \in i + 1..n PROVE keys[j] # k
    <3>1. j \in 1..n /\ n - j \in Nat /\ n - j < d
      BY <1>1, <2>3
    <3> QED
      BY <2>2, <3>1
  <2>5. \E c \in 1..Len(m) \div 2 : m[2 * c - 1] = k /\ \A j \in c + 1..Len(m) \div 2 : m[2 * j - 1] # k
    <3>1. \A j \in i + 1..n : j \in 1..n
      BY <1>1
    <3>2. m[2 * i - 1] = k
      BY <1>1, <2>3
    <3>3. ASSUME NEW j \in i + 1..n PROVE m[2 * j - 1] # k
      <4>1. j \in 1..n
        BY <3>1
      <4> QED
        BY <1>1, <2>4, <4>1
    <3>4. \E c \in 1..n : m[2 * c - 1] = k /\ \A j \in c + 1..n : m[2 * j - 1] # k
      BY <3>2, <3>3
    <3> QED
      BY <1>3, <3>4
  <2>6. last(k) \in 1..n /\ m[2 * last(k) - 1] = k
    BY <1>3, <2>5
  <2> HIDE DEF last
  <2>7. keys[last(k)] = k /\ m[2 * last(k)] = Code[store[k]]
    BY <1>1, <2>6
  <2> QED
    BY <1>2, <2>7, CodesAreWords
<1>7. Unmarshal(m) = [k \in {m[2 * i - 1] : i \in 1..Len(m) \div 2} |-> Decode(m[2 * last(k)])]
  BY DEF Unmarshal
<1> HIDE DEF last
<1>8. Unmarshal(m) = [k \in D |-> store[k]]
  BY <1>5, <1>6, <1>7
<1> QED
  BY <1>4, <1>8 DEF m, D

\* The answer to GET.
LEMMA DataHeard ==
  ASSUME NEW r, IsAnswer(r), r.kind = "data", Kept(r.data), r.data = [k \in DOMAIN r.data |-> r.data[k]],
         NEW text \in ResponseTexts(r)
  PROVE  ParseResponse(TrimEnd(text)) = DataResp("data", r.id, r.ok, r.data)
<1>1. PICK keys \in Orders(DOMAIN r.data) : text = HeadOf(r) \o Marshal(r.data, keys)
  BY DEF ResponseTexts, HeadOf
<1> DEFINE x == Marshal(r.data, keys)
<1>2. x \in Seq(Spoken) /\ Full(x)
  BY Marshalled
<1>3. IsMarshalled(x) /\ Unmarshal(x) = r.data
  BY Unmarshalled
<1> HIDE DEF x
<1>4. ParseResponse(TrimEnd(HeadOf(r) \o x)) =
           IF r.kind = "data"
             THEN IF IsMarshalled(x) THEN DataResp("data", r.id, r.ok, Unmarshal(x)) ELSE Unparsed
             ELSE DataResp(r.kind, r.id, r.ok, x)
  BY <1>2, SaidAndHeard
<1> QED
  BY <1>1, <1>3, <1>4 DEF x

\* The messages for Subscribers.
LEMMA MessageParsed ==
  ASSUME NEW t \in Seq(Spoken), t # <<>>, Full(t)
  PROVE  ParseMessage(TrimEnd(t)) =
           CASE t[1] \in {"HELLO", "NOTFOUND"} -> [kind |-> t[1]]
             [] t[1] = "UPDATE" /\ Len(t) > 2 /\ Decodes(t[3]) ->
                  [kind |-> "UPDATE", key |-> <<t[2]>>, value |-> Decode(t[3])]
             [] t[1] = "CLOSE" /\ Len(t) > 1 -> [kind |-> "CLOSE", key |-> <<t[2]>>]
             [] OTHER -> Unparsed
BY FullTexts DEF ParseMessage

LEMMA FirstWord ==
  ASSUME NEW first \in {"UPDATE", "CLOSE", "HELLO"}
  PROVE  first \in Spoken /\ first # NoWord /\ <<first>> \in Seq(Spoken) /\ Full(<<first>>)
<1>1. first \in Spoken /\ first # NoWord
  BY DEF Spoken, NoWord
<1> QED
  BY <1>1 DEF Full

LEMMA HelloHeard == Heard(Hello).got = Hello
<1> DEFINE t == <<"HELLO">>
<1>1. t \in Seq(Spoken) /\ t[1] = "HELLO" /\ t # <<>> /\ Full(t)
  BY FirstWord
<1> HIDE DEF t
<1>2. ParseMessage(TrimEnd(t)) = [kind |-> "HELLO"]
  BY <1>1, MessageParsed
<1>3. MessageText(Hello) = t
  BY DEF MessageText, Hello, t
<1> QED
  BY <1>2, <1>3 DEF Heard, Hello

LEMMA CloseHeard ==
  ASSUME NEW w \in Words, w # NoWord
  PROVE  Heard([kind |-> "CLOSE", key |-> <<w>>]).got = [kind |-> "CLOSE", key |-> <<w>>]
<1> DEFINE t == <<"CLOSE">> \o <<w>>
<1>1. t \in Seq(Spoken) /\ Len(t) = 2 /\ t[1] = "CLOSE" /\ t[2] = w
  <2>1. w \in Spoken /\ "CLOSE" \in Spoken
    BY DEF Spoken
  <2> QED
    BY <2>1, ConcatProperties
<1> HIDE DEF t
<1>2. t # <<>> /\ Full(t)
  BY <1>1, FirstWord DEF Full
<1>3. ParseMessage(TrimEnd(t)) = [kind |-> "CLOSE", key |-> <<w>>]
  BY <1>1, <1>2, MessageParsed
<1>4. MessageText([kind |-> "CLOSE", key |-> <<w>>]) = t
  BY DEF MessageText, t
<1> QED
  BY <1>3, <1>4 DEF Heard

LEMMA UpdateHeard ==
  ASSUME NEW w \in Words, w # NoWord, NEW v \in Values, v # Empty
  PROVE  Heard([kind |-> "UPDATE", key |-> <<w>>, value |-> v]).got = [kind |-> "UPDATE", key |-> <<w>>, value |-> v]
<1> DEFINE t == (<<"UPDATE">> \o <<w>>) \o <<Code[v]>>
           front == <<"UPDATE">> \o <<w>>
<1>1. Code[v] \in Words /\ Code[v] # NoWord /\ Decodes(Code[v]) /\ Decode(Code[v]) = v
  BY CodesAreWords, CodeAssumption DEF Words
<1>2. w \in Spoken /\ Code[v] \in Spoken /\ "UPDATE" \in Spoken
  BY <1>1 DEF Spoken
<1>3. front \in Seq(Spoken) /\ Len(front) = 2 /\ front[1] = "UPDATE" /\ front[2] = w
  BY <1>2, ConcatProperties
<1>4. <<Code[v]>> \in Seq(Spoken) /\ Len(<<Code[v]>>) = 1 /\ <<Code[v]>>[1] = Code[v]
  BY <1>2
<1>5. t = front \o <<Code[v]>>
  OBVIOUS
<1> HIDE DEF t, front
<1>6. t \in Seq(Spoken) /\ Len(t) = 3 /\ t[1] = "UPDATE" /\ t[2] = w /\ t[3] = Code[v]
  <2>1. /\ t \in Seq(Spoken) /\ Len(t) = Len(front) + Len(<<Code[v]>>)
        /\ \A i \in 1..Len(front) : t[i] = front[i]
        /\ \A i \in 1..Len(<<Code[v]>>) : t[i + Len(front)] = <<Code[v]>>[i]
    BY <1>3, <1>4, <1>5, Joined
  <2>2. t[1 + 2] = <<Code[v]>>[1]
    BY <1>3, <1>4, <2>1
  <2> QED
    BY <1>3, <1>4, <2>1, <2>2
<1>7. t # <<>> /\ Full(t)
  BY <1>1, <1>6, FirstWord DEF Full
<1>8. ParseMessage(TrimEnd(t)) = [kind |-> "UPDATE", key |-> <<w>>, value |-> v]
  BY <1>1, <1>6, <1>7, MessageParsed
<1>9. MessageText([kind |-> "UPDATE", key |-> <<w>>, value |-> v]) = t
  BY DEF MessageText, t
<1> QED
  BY <1>8, <1>9 DEF Heard

-----------------------------------------------------------------------------
(* nkv-client hears what the server said, and survives at its prompt. *)

\* What nkv-client sends at the prompt parses, and what it hears is what was said.
ClientTalks(c) ==
  /\ c.pc = "responded" => ParseResponse(TrimEnd(c.text)) = c.reply /\ c.reply # Unparsed
  /\ c.pc \in {"connects", "waits"} /\ (c.parts = <<>> \/ c.subs # {}) => Plain(c.request)
  /\ c.parts # <<>> /\ c.subs # {} => c.pc \notin {"connects", "waits", "responded", "ready"}
  /\ c.pc = "crashed" /\ c.parts = <<>> => c.cut

Talk ==
  /\ \A p \in Servers : Kept(servers[p].store)
  /\ ClientTalks(client)
  /\ news.got = news.sent

\* The words of a line are not empty, so neither is what a command of them asks for.
LEMMA RequestedPlain ==
  ASSUME NEW line \in Lines, NEW parts, parts = [i \in DOMAIN line |-> <<line[i]>>],
         Requested(parts) # Refused
  PROVE  Plain(Requested(parts))
<1>1. line \in Seq(Word) /\ line # <<>> /\ \A i \in DOMAIN line : line[i] # NoWord
  BY ProgramsAssumption DEF Texts
<1>2. Len(parts) = Len(line) /\ \A i \in 1..Len(parts) : \E w \in Words : w # NoWord /\ parts[i] = <<w>>
  <2>1. DOMAIN line = 1..Len(line) /\ Len(line) \in Nat
    BY <1>1
  <2>2. DOMAIN parts = 1..Len(line) /\ \A i \in 1..Len(line) : parts[i] = <<line[i]>>
    BY <2>1
  <2>3. Len(parts) = Len(line)
    BY <2>1, <2>2
  <2>4. \A i \in 1..Len(line) : line[i] \in Words /\ line[i] # NoWord
    BY <1>1, <2>1 DEF Words
  <2> QED
    BY ONLY <2>2, <2>3, <2>4
<1>3. Len(parts) \in Nat
  BY <1>1, <1>2
<1>4. Requested(parts) # Refused
  OBVIOUS
<1> DEFINE of(op) == IF Len(parts) >= 2 THEN Request(op, <<"id">>, Me, parts[2]) ELSE Refused
<1>5. ASSUME NEW op \in {"GET", "TRACE", "DEL", "UNSUB"}, of(op) # Refused PROVE Plain(of(op))
  <2>1. of(op) = Request(op, <<"id">>, Me, parts[2]) /\ 2 \in 1..Len(parts)
    BY <1>3, <1>5
  <2>2. of(op).op = op /\ of(op).key = parts[2]
    BY <2>1 DEF Request
  <2>3. of(op).op # "PUT"
    BY <2>2
  <2> HIDE DEF of
  <2> QED
    BY <1>2, <2>1, <2>2, <2>3 DEF Plain
<1>6. ASSUME Len(parts) >= 3 PROVE Plain(PutRequest(<<"id">>, Me, parts[2], parts[3]))
  <2> DEFINE r == PutRequest(<<"id">>, Me, parts[2], parts[3])
  <2>1. r.key = parts[2] /\ r.value = parts[3]
    BY DEF PutRequest
  <2>2. 2 \in 1..Len(parts) /\ 3 \in 1..Len(parts)
    BY <1>3, <1>6
  <2>3. PICK w \in Words : w # NoWord /\ parts[2] = <<w>>
    BY <1>2, <2>2
  <2>4. PICK v \in Words : v # NoWord /\ parts[3] = <<v>>
    BY <1>2, <2>2
  <2>5. parts[3] # Empty
    BY <2>4 DEF Empty
  <2> HIDE DEF r
  <2>6. Plain(r)
    BY <2>1, <2>3, <2>5 DEF Plain
  <2> QED
    BY <2>6 DEF r
<1>7. Plain(Request("HEALTH", <<"id">>, Me, <<"HK">>))
  <2>1. "HK" \in Words /\ "HK" # NoWord
    BY DEF Words, NoWord
  <2> QED
    BY <2>1 DEF Plain, Request
<1>8. \/ Requested(parts) = PutRequest(<<"id">>, Me, parts[2], parts[3]) /\ Len(parts) >= 3
      \/ \E op \in {"GET", "TRACE", "DEL", "UNSUB"} : Requested(parts) = of(op)
      \/ Requested(parts) = Request("HEALTH", <<"id">>, Me, <<"HK">>)
  BY ONLY <1>4 DEF Requested, of
<1> HIDE DEF of
<1> QED
  BY <1>5, <1>6, <1>7, <1>8

\* The client's own steps.
LEMMA ClientKeepsTalking ==
  ASSUME Inv, ClientTalks(client),
         StartClient \/ ClientMain \/ SendRequest \/ ReadResponse \/ RunSingle \/ RunLine \/ Leaves
  PROVE  ClientTalks(client')
<1>1. /\ client = [pc |-> client.pc, args |-> client.args, parts |-> client.parts, stage |-> client.stage,
                   request |-> client.request, to |-> client.to, text |-> client.text,
                   reply |-> client.reply, subs |-> client.subs, cut |-> client.cut]
  BY DEF Inv, Shapes, ClientOK
<1>2. CASE StartClient
  <2>1. client'.pc = "parses" /\ client'.parts = <<>> /\ client'.subs = {}
    BY <1>2 DEF StartClient, NewClient
  <2> QED
    BY <2>1 DEF ClientTalks
<1>3. CASE ClientMain
  <2>1. \/ client'.pc = "ended" /\ client'.subs = {}
        \/ /\ client'.pc = "connects" /\ client'.subs = {}
           /\ client'.request = Request("VERSION", Me, Me, <<"DISCARDME">>)
    BY <1>3 DEF ClientMain, NewClient
  <2>2. Plain(Request("VERSION", Me, Me, <<"DISCARDME">>))
    <3>1. "DISCARDME" \in Words /\ "DISCARDME" # NoWord
      BY DEF Words, NoWord
    <3> QED
      BY <3>1 DEF Plain, Request
  <2> QED
    BY <2>1, <2>2 DEF ClientTalks
<1>4. ASSUME NEW cut, Fails(cut)
      PROVE  /\ client'.pc \in {"failed", "crashed"} /\ client'.parts = client.parts
             /\ client'.subs = client.subs /\ client'.cut = cut
  BY <1>1, <1>4 DEF Fails
<1>5. CASE SendRequest
  <2>1. CASE Fails(TRUE)
    BY <1>4, <2>1 DEF ClientTalks
  <2>2. ASSUME ~Fails(TRUE) PROVE ClientTalks(client')
    <3>1. client' = [client EXCEPT !.pc = "waits", !.to = path.owner, !.text = RequestText(client.request)]
      BY <1>5, <2>2 DEF SendRequest
    <3>2. /\ client'.pc = "waits" /\ client'.parts = client.parts /\ client'.subs = client.subs
          /\ client'.request = client.request /\ client.pc = "connects"
      BY <1>1, <1>5, <3>1 DEF SendRequest
    <3> QED
      BY <3>2 DEF ClientTalks
  <2> QED
    BY <2>1, <2>2
<1>6. CASE ReadResponse
  <2>1. client.pc = "responded" /\ ParseResponse(TrimEnd(client.text)) # Unparsed
    BY <1>6 DEF ReadResponse, ClientTalks
  <2>2. /\ client'.pc \in {"ready", "ended"} /\ client'.parts = client.parts /\ client'.subs = client.subs
    BY <1>1, <1>6, <2>1 DEF ReadResponse, AfterCommand
  <2> QED
    BY <2>1, <2>2 DEF ClientTalks
<1>7. ASSUME client.pc = "ready", NEW parts, NEW next \in {"ready", "interrupt", "ended"}, HandleCommand(parts, next)
      PROVE  /\ client'.parts = client.parts
             /\ \/ /\ client'.pc = "connects" /\ client'.subs = client.subs
                   /\ Requested(parts) # Refused /\ client'.request = Requested(parts)
                \/ client'.pc = next
  <2> DEFINE r == Requested(parts)
             subs == client.subs \cup IF parts[1] = <<"subscribe">> /\ Len(parts) > 1 THEN {parts[2]} ELSE {}
  <2>1. IF r # Refused THEN client' = [client EXCEPT !.pc = "connects", !.request = r]
        ELSE client' = [client EXCEPT !.pc = next, !.subs = subs]
    BY <1>1, <1>7 DEF HandleCommand
  <2> HIDE DEF r, subs
  <2> QED
    BY <1>1, <2>1 DEF r
<1>8. CASE RunSingle
  <2>1. client.pc = "ready" /\ client.parts # <<>> /\ client.subs = {}
    BY <1>8 DEF RunSingle, ClientTalks
  <2>2. CASE client' = [client EXCEPT !.pc = "ended"]
    <3>1. client'.pc = "ended"
      BY <1>1, <2>2
    <3> QED
      BY <3>1 DEF ClientTalks
  <2>3. ASSUME NEW next \in {"interrupt", "ended"}, HandleCommand(client.parts, next)
        PROVE  ClientTalks(client')
    BY <1>7, <2>1, <2>3 DEF ClientTalks
  <2> QED
    BY <1>8, <2>2, <2>3 DEF RunSingle
<1>9. CASE RunLine
  <2>1. PICK line \in Lines, next \in {"ended", "ready"} :
          HandleCommand([i \in DOMAIN line |-> <<line[i]>>], next)
    BY <1>9 DEF RunLine
  <2> DEFINE parts == [i \in DOMAIN line |-> <<line[i]>>]
  <2>2. client.pc = "ready" /\ client.parts = <<>>
    BY <1>9 DEF RunLine
  <2>3. Requested(parts) # Refused => Plain(Requested(parts))
    BY RequestedPlain
  <2> HIDE DEF parts
  <2> QED
    BY <1>7, <2>1, <2>2, <2>3 DEF ClientTalks, parts
<1>10. CASE Leaves
  <2>1. client'.pc = "ended"
    BY <1>1, <1>10 DEF Leaves
  <2> QED
    BY <2>1 DEF ClientTalks
<1> QED
  BY <1>2, <1>3, <1>5, <1>6, <1>8, <1>9, <1>10

\* A response of the server is heard as it was said.
LEMMA Responded ==
  ASSUME Inv, ClientTalks(client), client.pc = "waits", NEW reply, Responds(reply), IsAnswer(reply),
         \/ reply = BaseResp(reply.id, reply.ok)
         \/ reply = DataResp(reply.kind, reply.id, reply.ok, reply.data) /\
              \/ reply.kind \in {"trace", "version"} /\ reply.data \in {<<>>, <<"me">>, <<"0.1">>}
              \/ /\ reply.kind = "data" /\ Kept(reply.data)
                 /\ reply.data = [k \in DOMAIN reply.data |-> reply.data[k]]
  PROVE  ClientTalks(client')
<1>1. client = [pc |-> client.pc, args |-> client.args, parts |-> client.parts, stage |-> client.stage,
                request |-> client.request, to |-> client.to, text |-> client.text,
                reply |-> client.reply, subs |-> client.subs, cut |-> client.cut]
  BY DEF Inv, Shapes, ClientOK
<1>2. PICK text \in ResponseTexts(reply) :
        client' = [client EXCEPT !.pc = "responded", !.to = Nobody, !.reply = reply, !.text = text]
  BY DEF Responds
<1>3. /\ client'.pc = "responded" /\ client'.parts = client.parts /\ client'.subs = client.subs
      /\ client'.reply = reply /\ client'.text = text
  BY <1>1, <1>2
<1>4. ParseResponse(TrimEnd(text)) = reply
  <2>1. CASE reply = BaseResp(reply.id, reply.ok)
    <3>1. reply.kind = "base"
      BY <2>1 DEF BaseResp
    <3> QED
      BY <2>1, <3>1, BaseHeard
  <2>2. CASE /\ reply = DataResp(reply.kind, reply.id, reply.ok, reply.data)
             /\ reply.kind \in {"trace", "version"} /\ reply.data \in {<<>>, <<"me">>, <<"0.1">>}
    BY <2>2, WordsHeard
  <2>3. CASE /\ reply = DataResp(reply.kind, reply.id, reply.ok, reply.data)
             /\ reply.kind = "data" /\ Kept(reply.data)
             /\ reply.data = [k \in DOMAIN reply.data |-> reply.data[k]]
    BY <2>3, DataHeard
  <2> QED
    BY <2>1, <2>2, <2>3
<1>5. reply # Unparsed
  <2>1. reply.kind \in {"base", "data", "trace", "version"}
    BY DEF IsAnswer
  <2> QED
    BY <2>1 DEF Unparsed
<1> QED
  BY <1>3, <1>4, <1>5 DEF ClientTalks

\* What the client is told, and whether it survives.
LEMMA RequestKeepsTalking ==
  ASSUME Inv, Talk, HandleRequest
  PROVE  ClientTalks(client')
<1> DEFINE r == ParseRequest(TrimEnd(client.text))
           p == client.to
           sent == client.request
<1>1. /\ p \in Servers /\ client.pc = "waits" /\ ClientTalks(client) /\ Kept(servers[p].store)
      /\ sent \in PutRequests \cup OtherRequests /\ r = ParseRequest(TrimEnd(RequestText(sent)))
  BY HandleRequestEffect DEF Inv, Talk, Shapes, ClientOK
<1>2. r # Refused => r.id \in {<<"id">>, <<"me">>}
  BY <1>1, ArrivingParts
<1>3. client.parts = <<>> => r # Refused
  BY <1>1, PlainArrives DEF ClientTalks
<1>4. client = [pc |-> client.pc, args |-> client.args, parts |-> client.parts, stage |-> client.stage,
                request |-> client.request, to |-> client.to, text |-> client.text,
                reply |-> client.reply, subs |-> client.subs, cut |-> client.cut]
  BY DEF Inv, Shapes, ClientOK
<1>5. \/ HandlePut(p, r) \/ HandleDelete(p, r) \/ HandleGet(p, r) \/ HandleTrace(p, r)
      \/ HandleUnsub(p, r) \/ HandleHealth(r) \/ HandleVersion(r) \/ HandleMalformed(r)
  BY DEF HandleRequest
<1> HIDE DEF r, p, sent
<1>6. ASSUME r # Refused, NEW ok \in BOOLEAN, Responds(BaseResp(r.id, ok)) PROVE ClientTalks(client')
  <2> DEFINE reply == BaseResp(r.id, ok)
  <2>1. reply.kind = "base" /\ reply.id = r.id /\ reply.ok = ok
    BY DEF BaseResp
  <2>2. IsAnswer(reply)
    BY <1>2, <1>6, <2>1 DEF IsAnswer
  <2>3. reply = BaseResp(reply.id, reply.ok) /\ Responds(reply)
    BY <1>6, <2>1
  <2> HIDE DEF reply
  <2> QED
    BY <1>1, <2>2, <2>3, Responded
<1>7. ASSUME r # Refused, NEW kind \in {"data", "trace", "version"}, NEW ok \in BOOLEAN, NEW data,
             Responds(DataResp(kind, r.id, ok, data)),
             \/ kind # "data" /\ data \in {<<>>, <<"me">>, <<"0.1">>}
             \/ kind = "data" /\ Kept(data) /\ data = [k \in DOMAIN data |-> data[k]]
      PROVE  ClientTalks(client')
  <2> DEFINE reply == DataResp(kind, r.id, ok, data)
  <2>1. reply.kind = kind /\ reply.id = r.id /\ reply.ok = ok /\ reply.data = data
    BY DEF DataResp
  <2>2. IsAnswer(reply)
    BY <1>2, <1>7, <2>1 DEF IsAnswer
  <2>3. reply = DataResp(reply.kind, reply.id, reply.ok, reply.data) /\ Responds(reply)
    BY <1>7, <2>1
  <2> HIDE DEF reply
  <2>4. \/ reply.kind \in {"trace", "version"} /\ reply.data \in {<<>>, <<"me">>, <<"0.1">>}
        \/ /\ reply.kind = "data" /\ Kept(reply.data)
           /\ reply.data = [k \in DOMAIN reply.data |-> reply.data[k]]
    BY <1>7, <2>1
  <2> QED
    BY <1>1, <2>2, <2>3, <2>4, Responded
<1>8. ASSUME r.op # "refused" PROVE r # Refused
  BY <1>8 DEF Refused
<1>9. CASE HandlePut(p, r) \/ HandleDelete(p, r) \/ HandleUnsub(p, r) \/ HandleHealth(r)
  <2>1. r # Refused
    BY <1>8, <1>9 DEF HandlePut, HandleDelete, HandleUnsub, HandleHealth
  <2>2. \E ok \in BOOLEAN : Responds(BaseResp(r.id, ok))
    <3>1. CASE HandlePut(p, r)
      BY <3>1 DEF HandlePut
    <3>2. CASE HandleDelete(p, r)
      BY <3>2 DEF HandleDelete
    <3>3. CASE HandleUnsub(p, r)
      <4>1. Responds(BaseResp(r.id, r.key \in servers[p].subs))
        BY <3>3 DEF HandleUnsub
      <4>2. CASE r.key \in servers[p].subs
        <5>1. (r.key \in servers[p].subs) = TRUE
          BY <4>2
        <5> QED
          BY <4>1, <5>1, Zenon
      <4>3. CASE r.key \notin servers[p].subs
        <5>1. (r.key \in servers[p].subs) = FALSE
          BY <4>3
        <5> QED
          BY <4>1, <5>1, Zenon
      <4> QED
        BY <4>2, <4>3
    <3>4. CASE HandleHealth(r)
      BY <3>4 DEF HandleHealth
    <3> QED
      BY <1>9, <3>1, <3>2, <3>3, <3>4
  <2> QED
    BY <1>6, <2>1, <2>2
<1>10. CASE HandleGet(p, r)
  <2> DEFINE found == Matching(p, r.key)
             data == [k \in found |-> servers[p].store[k]]
  <2>1. r # Refused /\ Responds(DataResp("data", r.id, found # {}, data))
    BY <1>8, <1>10 DEF HandleGet
  <2>2. found \subseteq DOMAIN servers[p].store
    BY DEF Matching
  <2>3. Kept(data)
    <3>1. IsFiniteSet(found)
      BY <1>1, <2>2, FS_Subset DEF Kept
    <3> QED
      BY <1>1, <2>2, <3>1 DEF Kept
  <2>4. data = [k \in DOMAIN data |-> data[k]] /\ (found # {}) \in BOOLEAN
    OBVIOUS
  <2> HIDE DEF found, data
  <2> QED
    BY <1>7, <2>1, <2>3, <2>4
<1>11. CASE HandleTrace(p, r)
  <2>1. PICK uuids \in {<<>>, <<"me">>} : Responds(DataResp("trace", r.id, uuids # <<>>, uuids))
    BY <1>11 DEF HandleTrace, Me
  <2>2. r # Refused /\ (uuids # <<>>) \in BOOLEAN
    BY <1>8, <1>11 DEF HandleTrace
  <2> QED
    BY <1>7, <2>1, <2>2
<1>12. CASE HandleVersion(r)
  <2>1. r # Refused /\ Responds(DataResp("version", r.id, TRUE, <<"0.1">>))
    BY <1>8, <1>12 DEF HandleVersion
  <2> QED
    BY <1>7, <2>1
<1>13. CASE HandleMalformed(r)
  <2>1. r = Refused /\ client' = [client EXCEPT !.pc = "crashed", !.to = Nobody]
    BY <1>13 DEF HandleMalformed
  <2>2. client'.pc = "crashed" /\ client'.parts = client.parts /\ client'.subs = client.subs
    BY <1>4, <2>1
  <2> QED
    BY <1>3, <2>1, <2>2 DEF ClientTalks
<1> QED
  BY <1>5, <1>9, <1>10, <1>11, <1>12, <1>13

\* What the Subscriber is told.
LEMMA NewsIsHeard ==
  ASSUME Inv, Talk, HandleRequest
  PROVE  news'.got = news'.sent
<1> DEFINE r == ParseRequest(TrimEnd(client.text))
           p == client.to
           sent == client.request
<1>1. /\ p \in Servers /\ client.pc = "waits" /\ ClientTalks(client)
      /\ sent \in PutRequests \cup OtherRequests /\ r = ParseRequest(TrimEnd(RequestText(sent)))
  BY HandleRequestEffect DEF Inv, Talk, Shapes, ClientOK
<1>2. client.subs # {} => r.key[1] # NoWord
  BY <1>1, PlainArrives DEF ClientTalks
<1>3. r # Refused => \E w \in Words : r.key = <<w>> /\ w = r.key[1]
  BY <1>1, ArrivingParts
<1>4. r.op = "PUT" => r.value \in Values /\ r.value # Empty
  BY <1>1, ArrivingParts DEF Refused
<1>5. \/ HandlePut(p, r) \/ HandleDelete(p, r) \/ HandleUnsub(p, r) \/ UNCHANGED news
  BY DEF HandleRequest, HandleGet, HandleTrace, HandleHealth, HandleVersion, HandleMalformed
<1> HIDE DEF r, p, sent
<1>6. ASSUME r # Refused, client.subs # {}, news' = Heard([kind |-> "CLOSE", key |-> r.key])
      PROVE  news'.got = news'.sent
  <2>1. PICK w \in Words : w # NoWord /\ r.key = <<w>>
    BY <1>2, <1>3, <1>6
  <2>2. Heard([kind |-> "CLOSE", key |-> <<w>>]).got = [kind |-> "CLOSE", key |-> <<w>>]
    BY <2>1, CloseHeard
  <2> QED
    BY <1>6, <2>1, <2>2 DEF Heard
<1>7. CASE HandlePut(p, r)
  <2>1. r.op = "PUT" /\ r # Refused
    BY <1>7 DEF HandlePut, Refused
  <2>2. \/ UNCHANGED news
        \/ client.subs # {} /\ news' = Heard([kind |-> "UPDATE", key |-> r.key, value |-> r.value])
    BY <1>7 DEF HandlePut, Tells
  <2>3. PICK w \in Words : client.subs # {} => w # NoWord /\ r.key = <<w>>
    BY <1>2, <1>3, <2>1
  <2>4. client.subs # {} => Heard([kind |-> "UPDATE", key |-> <<w>>, value |-> r.value]).got =
                              [kind |-> "UPDATE", key |-> <<w>>, value |-> r.value]
    BY <1>4, <2>1, <2>3, UpdateHeard
  <2> QED
    BY <2>2, <2>3, <2>4 DEF Heard, Talk
<1>8. CASE HandleDelete(p, r)
  BY <1>6, <1>8 DEF HandleDelete, Tells, Refused, Talk
<1>9. CASE HandleUnsub(p, r)
  BY <1>6, <1>9 DEF HandleUnsub, Tells, Refused, Talk
<1> QED
  BY <1>5, <1>7, <1>8, <1>9 DEF Talk

\* What is stored.
LEMMA RequestKeepsStores ==
  ASSUME Inv, Talk, HandleRequest
  PROVE  \A q \in Servers : Kept(servers'[q].store)
<1> DEFINE r == ParseRequest(TrimEnd(client.text))
           p == client.to
<1>1. /\ p \in Servers /\ client.pc = "waits" /\ Touched(p) /\ StoreStep(p, r)
      /\ r # Refused => \E w \in Words : r.key = <<w>> /\ w = r.key[1]
      /\ r.op = "PUT" => r.value \in Values /\ r.value # Empty
  <2>1. /\ p \in Servers /\ client.pc = "waits" /\ Touched(p) /\ StoreStep(p, r)
    BY HandleRequestEffect DEF Inv
  <2>2. client.request \in PutRequests \cup OtherRequests /\ r = ParseRequest(TrimEnd(RequestText(client.request)))
    BY <2>1 DEF Inv, Shapes, ClientOK
  <2> HIDE DEF r, p
  <2> QED
    BY <2>1, <2>2, ArrivingParts DEF Refused
<1>2. \/ HandlePut(p, r) \/ HandleDelete(p, r) \/ HandleGet(p, r) \/ HandleTrace(p, r)
      \/ HandleUnsub(p, r) \/ HandleHealth(r) \/ HandleVersion(r) \/ HandleMalformed(r)
  BY DEF HandleRequest
<1> HIDE DEF r, p
<1>3. Kept(servers[p].store) /\ \A q \in Servers : Kept(servers[q].store)
  BY <1>1 DEF Talk
<1>4. Kept(servers'[p].store)
  <2>1. CASE \A k \in DOMAIN servers'[p].store :
               k \in DOMAIN servers[p].store /\ servers'[p].store[k] = servers[p].store[k]
    <3>1. IsFiniteSet(DOMAIN servers'[p].store)
      BY <1>3, <2>1, FS_Subset DEF Kept
    <3> QED
      BY <1>3, <2>1, <3>1 DEF Kept
  <2>2. CASE /\ r.op = "PUT" /\ servers'[p].store = With(servers[p].store, r.key[1], r.value)
             /\ r.key[1] # NoWord
    <3> DEFINE store == With(servers[p].store, r.key[1], r.value)
    <3>1. r.key[1] \in Words
      BY <1>1, <2>2 DEF Refused
    <3>2. DOMAIN store = DOMAIN servers[p].store \cup {r.key[1]}
      BY DEF With
    <3>3. IsFiniteSet(DOMAIN store)
      BY <1>3, <3>2, FS_AddElement DEF Kept
    <3>4. \A k \in DOMAIN store : k \in Words /\ k # NoWord /\ store[k] \in Values /\ store[k] # Empty
      BY <1>1, <1>3, <2>2, <3>1, <3>2 DEF Kept, With
    <3> HIDE DEF store
    <3> QED
      BY <2>2, <3>3, <3>4 DEF Kept, store
  <2>3. CASE r.op = "PUT"
    <3>1. HandlePut(p, r)
      BY <1>2, <2>3 DEF HandleDelete, HandleGet, HandleTrace, HandleUnsub, HandleHealth, HandleVersion,
                        HandleMalformed, Refused
    <3>2. CASE servers' = servers
      BY <1>3, <3>2
    <3>3. CASE servers' # servers
      <4>1. r.key[1] # NoWord
        BY <3>1, <3>3 DEF HandlePut
      <4> QED
        BY <1>1, <2>1, <2>2, <4>1 DEF StoreStep
    <3> QED
      BY <3>2, <3>3
  <2> QED
    BY <1>1, <2>1, <2>3 DEF StoreStep
<1> QED
  BY <1>1, <1>3, <1>4 DEF Touched

LEMMA TalkInit ==
  ASSUME Init
  PROVE  Talk
<1>1. \A p \in Servers : Kept(servers[p].store)
  <2>1. \A p \in Servers : servers[p].store = <<>>
    BY DEF Init, NewServer
  <2>2. DOMAIN <<>> = {}
    OBVIOUS
  <2> QED
    BY <2>1, <2>2, FS_EmptySet DEF Kept
<1>2. ClientTalks(client)
  BY DEF Init, NewClient, ClientTalks
<1> QED
  BY <1>1, <1>2 DEF Init, Talk

LEMMA TalkNext ==
  ASSUME Inv, Talk, [Next]_vars
  PROVE  Talk'
<1>1. /\ \A p \in Servers : Kept(servers[p].store)
      /\ ClientTalks(client) /\ news.got = news.sent
      /\ ServersOK /\ ClientOK(client)
  BY DEF Talk, Inv, Shapes
<1>2. ASSUME NEW p \in Servers, Starts(p) \/ StopServer(p)
      PROVE  (\A q \in Servers : Kept(servers'[q].store)) /\ UNCHANGED news
  <2>1. servers'[p].store = <<>> /\ \A q \in Servers \ {p} : servers'[q] = servers[q]
    <3>1. CASE Starts(p)
      <4>1. Start(p)
        BY <1>1, <3>1, StartsEffect DEF Inv, Shapes
      <4> QED
        BY <4>1 DEF Start, Moves, Removed, Binds
    <3>2. CASE StopServer(p)
      <4>1. Goes(p, "stopped")
        BY <3>2 DEF StopServer
      <4> QED
        BY <1>1, <4>1 DEF Goes, NewServer, ServersOK
    <3> QED
      BY <1>2, <3>1, <3>2
  <2>2. Kept(<<>>)
    <3>1. DOMAIN <<>> = {}
      OBVIOUS
    <3> QED
      BY <3>1, FS_EmptySet DEF Kept
  <2>3. UNCHANGED news
    BY <1>2 DEF StopServer, Starts, StartServer, StartEmbedded, MainParses, MainChecks, MainRemoves, StorageFails,
                NewChecks, NewUnlinks, Serves, RemoveFile
  <2> QED
    BY <1>1, <2>1, <2>2, <2>3
<1>3. ASSUME NEW p \in Servers, Starts(p) PROVE Talk'
  <2>1. client' = client
    BY <1>3 DEF Starts, StartServer, StartEmbedded, MainParses, MainChecks, MainRemoves, StorageFails,
                NewChecks, NewUnlinks, Serves, RemoveFile
  <2> QED
    BY <1>1, <1>2, <1>3, <2>1 DEF Talk
<1>4. ASSUME NEW p \in Servers, StopServer(p) PROVE Talk'
  <2>1. CASE client.to = p
    <3>1. client' = [client EXCEPT !.pc = "crashed", !.to = Nobody, !.cut = TRUE]
      BY <1>4, <2>1 DEF StopServer
    <3>2. client'.pc = "crashed" /\ client'.cut
      BY <1>1, <3>1 DEF ClientOK
    <3>3. ClientTalks(client')
      BY <3>2 DEF ClientTalks
    <3> QED
      BY <1>1, <1>2, <1>4, <3>3 DEF Talk
  <2>2. CASE client.to # p
    <3>1. client' = client
      BY <1>4, <2>2 DEF StopServer
    <3> QED
      BY <1>1, <1>2, <1>4, <3>1 DEF Talk
  <2> QED
    BY <2>1, <2>2
<1>5. ASSUME StartClient \/ ClientMain \/ SendRequest \/ ReadResponse \/ RunSingle \/ RunLine \/ Leaves
      PROVE  Talk'
  <2>1. servers' = servers /\ news' = news
    BY <1>5 DEF StartClient, ClientMain, SendRequest, ReadResponse, RunSingle, RunLine, Leaves
  <2>2. ClientTalks(client')
    BY <1>1, <1>5, ClientKeepsTalking
  <2> QED
    BY <1>1, <2>1, <2>2 DEF Talk
<1>6. ASSUME HandleRequest PROVE Talk'
  <2>1. \A q \in Servers : Kept(servers'[q].store)
    BY <1>6, RequestKeepsStores
  <2>2. ClientTalks(client')
    BY <1>6, RequestKeepsTalking
  <2>3. news'.got = news'.sent
    BY <1>6, NewsIsHeard
  <2> QED
    BY <2>1, <2>2, <2>3 DEF Talk
<1>7. ASSUME NEW key, SubscriberConnects(key) PROVE Talk'
  <2>1. /\ path.owner \in Servers /\ Touched(path.owner)
        /\ servers'[path.owner].store = servers[path.owner].store /\ client' = client
    BY <1>7, SubscriberConnectsEffect DEF Inv
  <2>2. \A q \in Servers : Kept(servers'[q].store)
    BY <1>1, <2>1 DEF Touched
  <2>3. news' = Heard(Hello)
    BY <1>7 DEF SubscriberConnects
  <2>4. news'.got = news'.sent
    BY <2>3, HelloHeard DEF Heard
  <2> QED
    BY <1>1, <2>1, <2>2, <2>4 DEF Talk
<1>8. CASE UNCHANGED vars
  BY <1>1, <1>8 DEF vars, Talk
<1> QED
  BY <1>3, <1>4, <1>5, <1>6, <1>7, <1>8 DEF Next

\* Shapes, paths and what is said, together, are kept by every step.
THEOREM TalkAlways == Spec => [](Inv /\ Talk)
<1>1. Init => Inv /\ Talk
  BY InvInit, TalkInit
<1>2. Inv /\ Talk /\ [Next]_vars => (Inv /\ Talk)'
  BY InvNext, TalkNext
<1> QED
  BY <1>1, <1>2, PTL DEF Spec

(***************************************************************************)
(* Whatever keys and values were stored, every response and every message  *)
(* for a Subscriber is parsed to what the server made the text of.         *)
(***************************************************************************)
THEOREM ResponsesAreHeard == Spec => []WhatIsSaidIsHeard
<1>1. Talk => WhatIsSaidIsHeard
  BY DEF Talk, ClientTalks, WhatIsSaidIsHeard
<1> QED
  BY <1>1, TalkAlways, PTL

(***************************************************************************)
(* No line that is entered at the prompt, and nothing that is stored, ever *)
(* makes nkv-client panic where it unwraps the result of a request.        *)
(***************************************************************************)
THEOREM ThePromptSurvives == Spec => []PromptSurvives
<1>1. Talk => PromptSurvives
  BY DEF Talk, ClientTalks, PromptSurvives
<1> QED
  BY <1>1, TalkAlways, PTL

=============================================================================
