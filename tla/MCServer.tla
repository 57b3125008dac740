------------------------------ MODULE MCServer ------------------------------
(***************************************************************************)
(* Server for TLC: two clients, one key and the pattern that selects it.   *)
(***************************************************************************)
EXTENDS Server

CONSTANTS a, star, u, v, x

MCStarred == {star}

MCKeys == {<<a>>, <<star>>}

MCDurable == {<<a>>}

MCUuids == {u, v}

MCValues == {x}

Ask(op, key, uuid) == [op |-> op, key |-> key, uuid |-> uuid, value |-> x]

\* What changes the core, or reads it.
MCRequests ==
  {Ask(op, <<a>>, u) : op \in {"put", "delete", "unsubscribe", "get"}}
    \cup {Ask("subscribe", <<star>>, u)}
    \cup {Ask("subscribe", <<a>>, w) : w \in MCUuids}

\* All kinds.
MCAllRequests ==
  MCRequests \cup {Ask(op, <<a>>, u) : op \in {"trace", "health", "version", "malformed"}}

MCSubscriptions == {Ask("put", <<a>>, u)} \cup {Ask("subscribe", <<a>>, w) : w \in MCUuids}
=============================================================================
