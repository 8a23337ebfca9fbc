-------------------------------- MODULE Args --------------------------------
(***************************************************************************)
(* The arguments of a program, as toolsdir/args.c parses them.  An         *)
(* argument is a sequence of characters; what get_args leaves in Cmd is    *)
(* the options that are set and the other arguments, each with the option  *)
(* it is associated with.                                                  *)
(***************************************************************************)
EXTENDS CTools, FiniteSets

NO_OPTION == "-"

\* in the order of their indices, capitals first
OptionChars == {l[1] : l \in Letters} \cup {l[2] : l \in Letters}

IsOption(arg) == arg # <<>> /\ arg[1] = "-"

NoCmd == [error |-> FALSE, options |-> {}, dash |-> NO_OPTION, args |-> <<>>]

Option(dupError, cmd, c) ==
  IF cmd.error THEN cmd
  ELSE IF c \notin OptionChars \/ (dupError /\ c \in cmd.options)
    THEN [cmd EXCEPT !.error = TRUE]
  ELSE [cmd EXCEPT !.options = @ \cup {c}, !.dash = c]

\* an option of its own for each character after a dash
SetOptions(dupError, cmd, chars) ==
  LET before[i \in 0..Len(chars)] ==
        IF i = 0 THEN cmd ELSE Option(dupError, before[i - 1], chars[i])
  IN before[Len(chars)]

Argument_ForgetsOption(dupError, cmd, arg) ==
  IF cmd.error THEN cmd
  ELSE IF ~IsOption(arg)
    THEN [cmd EXCEPT !.args = Append(@, [text |-> arg, option |-> NO_OPTION])]
  ELSE IF Len(arg) < 2 THEN [cmd EXCEPT !.error = TRUE]
  ELSE SetOptions(dupError, cmd, Tail(arg))

\* any other argument belongs to the option before it
Argument(dupError, cmd, arg) ==
  IF cmd.error THEN cmd
  ELSE IF ~IsOption(arg)
    THEN [cmd EXCEPT !.args = Append(@, [text |-> arg, option |-> cmd.dash])]
  ELSE IF Len(arg) < 2 THEN [cmd EXCEPT !.error = TRUE]
  ELSE SetOptions(dupError, cmd, Tail(arg))

GetArgs(argv, dupError) ==
  LET before[i \in 0..Len(argv)] ==
        IF i = 0 THEN NoCmd ELSE Argument(dupError, before[i - 1], argv[i])
  IN before[Len(argv)]

OptionPresent(cmd, c) == c \in cmd.options

\* how many of the first arguments are associated with an option
Counted(cmd, option, i) == Cardinality({j \in 1..i : cmd.args[j].option = option})

GetOptionArg(cmd, option, n) ==
  LET nth == {i \in DOMAIN cmd.args :
                cmd.args[i].option = option /\ Counted(cmd, option, i) = n}
  IN IF nth = {} THEN <<>> ELSE cmd.args[CHOOSE i \in nth : TRUE].text
NonOptionArg(cmd, n) == GetOptionArg(cmd, NO_OPTION, n)

ArgCounter(cmd, option) == Counted(cmd, option, Len(cmd.args))
NOptionArgs(cmd, c) == ArgCounter(cmd, c)
NNonOptionArgs(cmd) == ArgCounter(cmd, NO_OPTION)

LegalOptions(cmd, legal) == cmd.options \subseteq legal

=============================================================================
