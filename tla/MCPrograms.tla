----------------------------- MODULE MCPrograms -----------------------------
(***************************************************************************)
(* Programs for TLC.  The value <<"x">> has the code "n", which users also *)
(* take for the name of a key.                                             *)
(***************************************************************************)
EXTENDS Programs, TLC

MCSymmetry == Permutations(Servers)

Flag(word) == [flag |-> TRUE, text |-> <<word>>]
Arg(text) == [flag |-> FALSE, text |-> text]
Words(line) == [i \in DOMAIN line |-> Arg(<<line[i]>>)]

MCServerArgs == {<<>>, <<Flag("level"), Arg(<<"info">>)>>, <<Flag("level"), Arg(<<"loud">>)>>, <<Flag("version")>>}

MCLevels == {<<"info">>}

\* Keys and values with spaces or nothing in them, as only a shell passes them on.
Quoted ==
  {<<Arg(<<"put">>), Arg(key), Arg(value)>> :
     key \in {<<"a">>, <<"a", "n">>, <<"a", "n", "">>, <<"">>, <<"*">>}, value \in {<<"x">>, Empty}}
  \cup {<<Arg(<<"get">>), Arg(<<"a", "n">>)>>, <<Arg(<<"get">>), Arg(<<"">>)>>}

\* Flags anywhere, with and without a value, twice and unknown.
Flagged ==
  LET A == {Flag("addr"), Flag("help"), Arg(<<"health">>)}
  IN {<<>>, <<Flag("version")>>} \cup UNION {[1..n -> A] : n \in 1..3}

MCClientArgs ==
  Quoted \cup Flagged \cup
  {Words(<<"subscribe", "a">>), Words(<<"subscribe">>), Words(<<"unsubscribe", "a">>)}

MCLines ==
  {<<"put", "a", "x">>, <<"put", "n", "x">>, <<"put", "a">>, <<"get", "a">>, <<"tree", "*">>,
   <<"trace", "a">>, <<"delete", "a">>, <<"subscribe", "a">>, <<"unsubscribe", "a">>,
   <<"health">>, <<"quit">>, <<"what">>}

MCValues ==
  {Empty} \cup UNION {{args[i].text : i \in DOMAIN args} : args \in MCServerArgs \cup MCClientArgs}
  \cup UNION {{<<line[i]>> : i \in DOMAIN line} : line \in MCLines}

MCCode == [v \in MCValues |-> CASE v = Empty -> "" [] v = <<"x">> -> "n" [] OTHER -> ToString(v)]
=============================================================================
