----------------------------- MODULE FlagParser -----------------------------
(***************************************************************************)
(* src/flag_parser.rs: "--key value" and "--help" among the arguments of a *)
(* program.  An argument is [flag, text], where flag says that it began    *)
(* with the two dashes, and the program's name is left out already.  A     *)
(* flag's value is a text, <<>> if there is none.                          *)
(***************************************************************************)
EXTENDS Naturals, Sequences, FiniteSets

NoValue == <<>>

Rejected == [ok |-> FALSE]

\* The map with one more entry: HashMap::insert.
With(map, k, v) == [x \in DOMAIN map \cup {k} |-> IF x = k THEN v ELSE map[x]]

\* The loop of new between two turns: the next argument, and what there is so far.
Begin == [ok |-> TRUE, next |-> 1, flags |-> <<>>, positional |-> <<>>]

WithArg(s, arg) ==
  [ok |-> s.ok, next |-> s.next + 1, flags |-> s.flags,
   positional |-> Append(s.positional, arg.text)]

WithFlag(s, text, value, n) ==
  [ok |-> s.ok, next |-> s.next + n, flags |-> With(s.flags, text, value),
   positional |-> s.positional]

\* Faulty variant: a flag's value stays among the positional arguments.
TurnKeeping(s, args) ==
  LET arg == args[s.next]
      valued == s.next < Len(args) /\ ~args[s.next + 1].flag
  IN IF ~s.ok \/ s.next > Len(args) THEN s
     ELSE IF ~arg.flag THEN WithArg(s, arg)
     ELSE IF arg.text \in DOMAIN s.flags THEN [s EXCEPT !.ok = FALSE]
     ELSE WithFlag(s, arg.text, IF valued THEN args[s.next + 1].text ELSE NoValue, 1)

\* One turn, which peeks at the argument after a flag and takes it for its value.
Turn(s, args) ==
  LET arg == args[s.next]
      valued == s.next < Len(args) /\ ~args[s.next + 1].flag
  IN IF ~s.ok \/ s.next > Len(args) THEN s
     ELSE IF ~arg.flag THEN WithArg(s, arg)
     ELSE IF arg.text \in DOMAIN s.flags THEN [s EXCEPT !.ok = FALSE]
     ELSE IF valued THEN WithFlag(s, arg.text, args[s.next + 1].text, 2)
     ELSE WithFlag(s, arg.text, NoValue, 1)

\* Every turn takes an argument.
Loop(args) ==
  LET after[n \in 0..Len(args)] == IF n = 0 THEN Begin ELSE Turn(after[n - 1], args)
  IN after[Len(args)]

\* Unknown flags are only looked for at the end.
New(args, allowed) ==
  LET r == Loop(args)
  IN IF r.ok /\ DOMAIN r.flags \subseteq allowed
       THEN [ok |-> TRUE, flags |-> r.flags, positional |-> r.positional]
       ELSE Rejected

-----------------------------------------------------------------------------
(* What the comment of the file promises, argument by argument. *)

FlagsOf(args) == {i \in DOMAIN args : args[i].flag}

\* The arguments that are the value of the flag before them.
ValuesOf(args) == {i \in DOMAIN args \ FlagsOf(args) : i > 1 /\ i - 1 \in FlagsOf(args)}

Expected(args, allowed) ==
  LET F == FlagsOf(args)
      positional == DOMAIN args \ (F \cup ValuesOf(args))
      value(i) == IF i + 1 \in ValuesOf(args) THEN args[i + 1].text ELSE NoValue
  IN IF \/ \E i, j \in F : i # j /\ args[i].text = args[j].text
        \/ \E i \in F : args[i].text \notin allowed
     THEN Rejected
     ELSE [ok |-> TRUE,
           flags |-> [t \in {args[i].text : i \in F} |-> value(CHOOSE i \in F : args[i].text = t)],
           positional |-> [n \in 1..Cardinality(positional) |->
             args[CHOOSE i \in positional : Cardinality({j \in positional : j <= i}) = n].text]]
=============================================================================
