------------------------------- MODULE Service ------------------------------
(***************************************************************************)
(* What the server promises about the data: every call takes effect on the *)
(* map of KVStore at most once, at one instant between its arrival and its *)
(* answer, and the answer is the one the map gave then.  A call that is    *)
(* lost, because the server stops, may have taken effect or not.           *)
(***************************************************************************)
EXTENDS KeySpace

CONSTANTS Keys, Values, Empty, Durable

VARIABLES
  db, last,  \* the map and what it answered last
  calls      \* the calls so far: [req, phase, answer]

vars == <<db, last, calls>>

Store == INSTANCE KVStore WITH answer <- last

DataOps == {"put", "get", "delete"}

Init == Store!Init /\ calls = <<>>

\* A call arrives; it may be refused at once, which is no effect.
Arrive ==
  /\ Len(calls') = Len(calls) + 1
  /\ SubSeq(calls', 1, Len(calls)) = calls
  /\ LET new == calls'[Len(calls')]
     IN \/ new.phase \in {"called", "lost"}
        \/ new.phase = "returned" /\ (new.req.op \in DataOps => ~new.answer.ok)
  /\ UNCHANGED <<db, last>>

\* The one instant at which the call of a client meets the map.
Effect(c) ==
  LET req == calls[c].req
  IN /\ calls[c].phase = "called"
     /\ \/ req.op = "put" /\ Store!Put(req.key, req.value)
        \/ req.op = "delete" /\ Store!Delete(req.key)
        \/ req.op = "get" /\ Store!Get(req.key)
     /\ calls' = [calls EXCEPT
                    ![c] = [req |-> req, phase |-> "done",
                            answer |-> [ok |-> IF req.op = "get" THEN last'.data # {} ELSE last'.ok,
                                        data |-> last'.data]]]

\* Calls about subscriptions are answered, lost or still under way, and leave the map alone.
OtherEffect(c) ==
  /\ calls[c].phase = "called" /\ calls[c].req.op \notin DataOps
  /\ Store!Other
  /\ \E phase \in {"called", "done", "lost"} :
       calls' = [calls EXCEPT ![c] = [@ EXCEPT !.phase = phase, !.answer = calls'[c].answer]]

Return(c) ==
  /\ calls[c].phase = "done"
  /\ calls' = [calls EXCEPT ![c].phase = "returned"]
  /\ UNCHANGED <<db, last>>

\* The caller never hears what became of its call.
Lose(c) ==
  /\ calls[c].phase \in {"called", "done"}
  /\ calls' = [calls EXCEPT ![c].phase = "lost"]
  /\ UNCHANGED <<db, last>>

\* Whoever is still connected loses the connection.
Restart ==
  /\ Store!Restart
  /\ calls' = [c \in DOMAIN calls |->
                 IF calls[c].phase = "returned" THEN calls[c]
                 ELSE [calls[c] EXCEPT !.phase = "lost"]]

Next ==
  \/ Arrive
  \/ \E c \in DOMAIN calls : Effect(c) \/ OtherEffect(c) \/ Return(c) \/ Lose(c)
  \/ Restart

Spec == Init /\ [][Next]_vars
=============================================================================
