--------------------------- MODULE MCCommandLine ----------------------------
(* The sessions for tlc: every short argument of every command, every short *)
(* text of a task and some longer ones, and several lines.                  *)
EXTENDS CommandLine

AnyGarbage == {-1, 0, 7}

Upto(S, n) == UNION {[1..k -> S] : k \in 0..n}

Arguments == Upto({Space, "w", "-", "0", "1"}, 3)

Texts ==
  Upto({"a", "b", Space, ";", "|", "<", ">"}, 4)
    \cup {<<"a">> \o x \o <<"b">> \o y \o <<"a">> :
            x, y \in Upto({Space, ";", "|", "<", ">"}, 2)}

Quoted == Upto({"'", "a", Space}, 4)

Several ==
  {x \o <<Newline>> \o y \o z :
     x, y \in Upto({"jobs", "quit", "a", Space}, 2), z \in {<<>>, <<Newline>>, <<Newline, "help">>}}

ShortSessions ==
  {<<name>> \o x : name \in SimpleCommands \cup JobCommands \cup {"w"}, x \in Arguments}
    \cup {<<"spool", Space>> \o x : x \in Texts}
    \cup {<<"spool">> \o x : x \in Quoted}
    \cup {<<"spool", Space, "'">> \o x \o <<"'">> : x \in {<<"a", ";", "b">>, <<"a", "|", Space, "b">>}}
    \cup Several

=============================================================================
