------------------------------ MODULE Protocol ------------------------------
(***************************************************************************)
(* src/request_msg.rs: requests, responses and messages as text, and back. *)
(*                                                                         *)
(* A text is the sequence of its words, which single spaces separate:      *)
(* "a b" is <<"a", "b">>, "a  b" is <<"a", "", "b">> and "" is <<"">>, so  *)
(* that joining texts with a space is \o.  No other white space occurs but *)
(* the end of the line, which both sides trim.  Base64 is a function Code  *)
(* from values to words, and some words that users write, keys among them, *)
(* are codes as well ("name" is).                                          *)
(***************************************************************************)
EXTENDS Naturals, Sequences, FiniteSets

CONSTANTS
  Values,  \* what is stored, texts too
  Code     \* the base64 code of a value

\* What stands between two spaces in a row.
NoWord == ""

Word == STRING

Texts == Seq(Word) \ {<<>>}

Empty == <<NoWord>>

ASSUME CodeAssumption ==
  /\ Values \subseteq Texts /\ Empty \in Values
  /\ DOMAIN Code = Values /\ Code[Empty] = NoWord /\ \A v \in Values : Code[v] \in Word
  /\ \A v, w \in Values : Code[v] = Code[w] => v = w

-----------------------------------------------------------------------------
(* Texts. *)

\* Faulty variant: only the end of the line goes.
TrimEndOfLine(t) == t

TrimEnd(t) ==
  LET kept == {i \in DOMAIN t : \E j \in i..Len(t) : t[j] # NoWord} \cup {1}
  IN SubSeq(t, 1, Cardinality(kept))

TrimStart(t) ==
  LET kept == {i \in DOMAIN t : \E j \in 1..i : t[j] # NoWord}
  IN SubSeq(t, Len(t) - Cardinality(kept) + 1, Len(t))

\* The fields that splitn(n, ' ') yields, the last one with all that remains.
Splitn(t, n) ==
  [i \in 1..(IF Len(t) < n THEN Len(t) ELSE n) |->
     IF i < n THEN <<t[i]>> ELSE SubSeq(t, n, Len(t))]

\* The words that are not empty, in their order.
SplitWhitespace(t) ==
  LET kept == {i \in DOMAIN t : t[i] # NoWord}
      nth(n) == CHOOSE i \in kept : Cardinality({j \in kept : j <= i}) = n
  IN [n \in 1..Cardinality(kept) |-> t[nth(n)]]

Decodes(w) == \E v \in Values : Code[v] = w

Decode(w) == CHOOSE v \in Values : Code[v] = w

-----------------------------------------------------------------------------
(* ServerRequest: [op, id, client, key] and, for a put, a value. *)

Verbs == {"PUT", "GET", "DEL", "SUB", "UNSUB", "TRACE", "HEALTH", "VERSION"}

Request(op, id, client, key) == [op |-> op, id |-> id, client |-> client, key |-> key]

PutRequest(id, client, key, value) ==
  [op |-> "PUT", id |-> id, client |-> client, key |-> key, value |-> value]

\* Faulty variant: HEALTH and VERSION have no placeholder for the key.
RequestTextShort(r) ==
  <<r.op>> \o r.id \o r.client \o
    (CASE r.op = "PUT" -> r.key \o <<Code[r.value]>>
       [] r.op \in {"HEALTH", "VERSION"} -> <<>>
       [] OTHER -> r.key)

RequestText(r) ==
  <<r.op>> \o r.id \o r.client \o
    (CASE r.op = "PUT" -> r.key \o <<Code[r.value]>>
       [] r.op = "HEALTH" -> <<"HK">>
       [] r.op = "VERSION" -> <<"DISCARDME">>
       [] OTHER -> r.key)

\* An error, or the panic of decode: the connection ends either way.
Refused == [op |-> "refused"]

\* Faulty variant: splitn(4), which leaves the value in the key.
ParseRequestInFour(t) ==
  LET f == Splitn(t, 4)
  IN IF Len(f) < 4 \/ t[1] \notin Verbs THEN Refused
     ELSE IF t[1] # "PUT" THEN Request(t[1], f[2], f[3], f[4])
     ELSE IF ~Decodes(t[Len(t)]) THEN Refused
     ELSE PutRequest(f[2], f[3], f[4], Decode(t[Len(t)]))

ParseRequest(t) ==
  LET f == Splitn(t, 5)
  IN IF Len(f) < 4 \/ t[1] \notin Verbs THEN Refused
     ELSE IF t[1] # "PUT" THEN Request(t[1], f[2], f[3], f[4])
     ELSE IF Len(f) < 5 \/ Len(f[5]) # 1 \/ ~Decodes(f[5][1]) THEN Refused
     ELSE PutRequest(f[2], f[3], f[4], Decode(f[5][1]))

-----------------------------------------------------------------------------
(* ServerResponse: [kind, id, ok] and, but for a base, its data. *)

BaseResp(id, ok) == [kind |-> "base", id |-> id, ok |-> ok]

\* The data of a get is a function from keys, of a trace a sequence, of version a text.
DataResp(kind, id, ok, data) == [kind |-> kind, id |-> id, ok |-> ok, data |-> data]

BaseText(r) == r.id \o <<IF r.ok THEN "OK" ELSE "FAILED">>

\* A HashMap is written in any order, here that of keys.
Marshal(data, keys) ==
  [i \in 1..2 * Len(keys) |->
     IF i % 2 = 1 THEN keys[(i + 1) \div 2] ELSE Code[data[keys[i \div 2]]]]

Orders(S) == {f \in [1..Cardinality(S) -> S] : \A k \in S : \E i \in DOMAIN f : f[i] = k}

ResponseTexts(r) ==
  LET head == <<r.kind>> \o BaseText(r)
  IN CASE r.kind = "base" -> {head}
       [] r.kind = "data" -> {head \o Marshal(r.data, keys) : keys \in Orders(DOMAIN r.data)}
       [] OTHER -> {head \o r.data}

Unparsed == [kind |-> "unparsed"]

\* The last pair of a key counts.
Unmarshal(words) ==
  [k \in {words[2 * i - 1] : i \in 1..Len(words) \div 2} |->
     Decode(words[2 * (CHOOSE i \in 1..Len(words) \div 2 :
                         /\ words[2 * i - 1] = k
                         /\ \A j \in i + 1..Len(words) \div 2 : words[2 * j - 1] # k)])]

IsMarshalled(words) ==
  Len(words) % 2 = 0 /\ \A i \in 1..Len(words) \div 2 : Decodes(words[2 * i])

\* Base goes by the first three fields, the others by their words.
ParseResponse(t) ==
  LET tail == TrimStart(SubSeq(t, 2, Len(t)))
      words == SplitWhitespace(tail)
      fields == IF t[1] = "base" THEN tail ELSE words
      data == SubSeq(words, 3, Len(words))
  IN CASE t[1] \notin {"base", "data", "trace", "version"} \/ Len(fields) < 2 -> Unparsed
       [] fields[2] \notin {"OK", "FAILED"} -> Unparsed
       [] t[1] = "base" -> BaseResp(<<fields[1]>>, fields[2] = "OK")
       [] t[1] = "data" ->
            IF IsMarshalled(data) THEN DataResp("data", <<words[1]>>, words[2] = "OK", Unmarshal(data))
            ELSE Unparsed
       [] OTHER -> DataResp(t[1], <<words[1]>>, words[2] = "OK", data)

-----------------------------------------------------------------------------
(* Message: Hello, Update, Close and NotFound. *)

MessageText(m) ==
  CASE m.kind = "UPDATE" -> <<"UPDATE">> \o m.key \o <<Code[m.value]>>
    [] m.kind = "CLOSE" -> <<"CLOSE">> \o m.key
    [] OTHER -> <<m.kind>>

\* Unparsed also stands for the panic of decode, which ends the Subscriber.
ParseMessage(t) ==
  LET words == SplitWhitespace(t)
  IN CASE words = <<>> -> Unparsed
       [] words[1] \in {"HELLO", "NOTFOUND"} -> [kind |-> words[1]]
       [] words[1] = "UPDATE" /\ Len(words) > 2 /\ Decodes(words[3]) ->
            [kind |-> "UPDATE", key |-> <<words[2]>>, value |-> Decode(words[3])]
       [] words[1] = "CLOSE" /\ Len(words) > 1 -> [kind |-> "CLOSE", key |-> <<words[2]>>]
       [] OTHER -> Unparsed
=============================================================================
