----------------------------- MODULE RoloMenus ------------------------------
(***************************************************************************)
(* The user of the rolodex of hw2 at its menus: the arguments rolo_main    *)
(* is called with (rolo.c), the menus of toolsdir/menu.c, and who asks     *)
(* with them: look_for_person and interactive_rolo (options.c), the        *)
(* choice of a field and of a string to search for (search.c), and the     *)
(* questions of menuaux.c.                                                 *)
(*                                                                         *)
(* What the user types is one text, read line by line, that ends.  What    *)
(* happens to the list of the entries is module RoloList, to the files     *)
(* module RoloStore; here an entry is [name, company, other], other being  *)
(* the text of a user-defined field.                                       *)
(***************************************************************************)
EXTENDS Args

CONSTANTS
  Calls,      \* the arguments a user may give
  Keys(_, _), \* the characters he may type, called with what and after what
  Rolodex,    \* the entries
  NFields,    \* N_BASIC_FIELDS: the last number of select_field_to_search_by
  MAX_MENU_RESPONSE_LENGTH,
  MAXCONTINUE \* the length of the buffer of any_char_to_continue

ASSUME RoloMenusAssumption ==
  /\ NFields \in 1..MAXINT
  /\ MAX_MENU_RESPONSE_LENGTH \in Nat \ {0, 1} /\ MAXCONTINUE \in Nat \ {0, 1}
  /\ Calls \subseteq Seq(Seq(STRING))
  /\ Rolodex \in Seq([name : Seq(STRING), company : Seq(STRING), other : Seq(STRING)])

VARIABLES
  argv,     \* the arguments of the program, and what get_args made of them
  Cmd,
  total,    \* all that the user types
  text,     \* what of it is still to be read
  entries,  \* the rolodex
  pc,       \* "start", the menu that asks, "next", "show", "continue", "field_help",
            \* "search", "over", "error"
  result,   \* the variable of look_for_person, or "unset"
  n,        \* the argument print_people is at
  at,       \* the entry look_for_person is at
  shown,    \* the entries shown, as <<argument, entry>>
  skipped,  \* the arguments whose search the user left
  field,    \* the field to search by, or 0
  reply     \* the last response to a menu, and what menu_match made of it

called == <<argv, Cmd, total>>
search == <<n, at, shown, skipped>>
vars == <<called, text, entries, pc, result, search, field, reply>>

NoReply == [menu |-> "", rval |-> "", value |-> "", response |-> <<>>]
P_VALUES == {"continue", "next_person", "abort", "help"}

-----------------------------------------------------------------------------
(* toolsdir/menu.c.                                                        *)

YES == <<"Y", "e", "s">>
NO == <<"N", "o">>
HELP == <<"H", "e", "l", "p">>
CONTINUE == <<"C", "o", "n", "t", "i", "n", "u", "e">>
NEXT == <<"N", "e", "x", "t">>
ABORTSTRING == <<"\\">>

Menus == {"main", "person", "add", "field", "field_name", "string"}

\* the options of menu_match, each a text and a value; "" is <<>>
HelpOrAbort == {<<ABORTSTRING, "abort">>, <<<<"?">>, "help">>, <<HELP, "help">>}
Options == [menu \in Menus |->
  CASE menu = "main" ->
         {<<<<"+">>, "add">>, <<<<"%">>, "peruse">>, <<ABORTSTRING, "exit">>,
          <<<<"?">>, "help">>, <<<<"*">>, "save">>, <<<<"$">>, "by_other">>,
          <<<<"!">>, "print">>}
    [] menu = "person" ->
         HelpOrAbort \cup {<<CONTINUE, "continue">>, <<<<>>, "continue">>,
                           <<NEXT, "next_person">>}
    [] menu = "add" ->
         HelpOrAbort \cup {<<YES, "yes">>, <<NO, "no">>, <<<<>>, "return">>}
    [] OTHER -> HelpOrAbort]

AgainIfNoMatch == {"person"}
AgainIfAmbiguous == Menus \ {"add"}

\* initial substrings match, in capitals or not
Compares(s, option) == Len(s) <= Len(option) /\ NocaseEqual(s, SubSeq(option, 1, Len(s)))

\* what the loop over the options finds
Found(menu, s) == {o \in Options[menu] : Compares(s, o[1])}
Blank(menu) == {o \in Options[menu] : o[1] = <<>>}

Matched(menu, s) ==
  LET found == Found(menu, s)
      once(rval, menus) == {<<IF menu \in menus THEN "again" ELSE rval, "">>}
  IN IF AllWhitespace(s)
       THEN IF Blank(menu) = {} THEN {<<"again", "">>}
            ELSE {<<"match", o[2]>> : o \in Blank(menu)}
     ELSE IF found = {} THEN once("no_match", AgainIfNoMatch)
     ELSE IF \E o, p \in found : o # p THEN once("ambiguous", AgainIfAmbiguous)
     ELSE {<<"match", o[2]>> : o \in found}

Got == GetLine(text, MAX_MENU_RESPONSE_LENGTH)

Replies_NoEof(menu) ==
  IF pc # menu THEN {}
  ELSE IF Got.status = "line"
    THEN {[menu |-> menu, rval |-> m[1], value |-> m[2], response |-> Got.line] :
            m \in Matched(menu, RemoveExcessBlanks(Got.line))}
  ELSE {[NoReply EXCEPT !.menu = menu, !.rval = "again"]}

Replies_TakesPart(menu) ==
  IF pc # menu THEN {}
  ELSE IF Got.status = "eof" THEN {[NoReply EXCEPT !.menu = menu, !.rval = "eof"]}
  ELSE {[menu |-> menu, rval |-> m[1], value |-> m[2], response |-> Got.line] :
          m \in Matched(menu, RemoveExcessBlanks(Got.line))}

\* one turn of menu_match, for the menu that asks: a line is read and compared
Replies(menu) ==
  CASE pc # menu -> {}
    [] pc = menu /\ Got.status = "eof" ->
         {[NoReply EXCEPT !.menu = menu, !.rval = "eof"]}
    [] pc = menu /\ Got.status = "too many" ->
         {[NoReply EXCEPT !.menu = menu, !.rval = "again"]}
    [] pc = menu /\ Got.status = "line" ->
         {[menu |-> menu, rval |-> m[1], value |-> m[2], response |-> Got.line] :
            m \in Matched(menu, RemoveExcessBlanks(Got.line))}

\* menu_match has returned to the one who asked
Answer(r) ==
  r.rval # "again" /\ text' = Got.rest /\ reply' = r

\* or it asks again
Again ==
  /\ pc \in Menus
  /\ \E r \in Replies(pc) : r.rval = "again"
  /\ text' = Got.rest
  /\ UNCHANGED <<called, entries, pc, result, search, field, reply>>

\* menu_data_help_or_abort
DataHelpOrAbort(r) ==
  CASE r.rval = "no_match" -> "data" [] r.rval = "match" -> r.value [] r.rval = "eof" -> "eof"

\* menu_number_help_or_abort compares with 0 and MAXINT, whatever it was given
NumberIn(response) == StrToPosInt(RemoveExcessBlanks(response), 0, MAXINT)

\* menu_yes_no_abort_or_help
YesNoAbortOrHelp(r, returnForYes) ==
  CASE r.rval = "no_match" -> "redo"
    [] r.rval = "match" -> IF r.value = "return" THEN returnForYes ELSE r.value
    [] r.rval = "eof" -> "eof"
    [] r.rval = "ambiguous" -> "error"

-----------------------------------------------------------------------------
(* rolo_main.                                                              *)

OTHERUSERFLAG == "u"
SUMMARYFLAG == "s"
LEGAL_OPTIONS == {"l", "s", "u"}

Goto(loc) == pc' = loc

\* the user calls the program, and types ahead
Type ==
  /\ pc = "start"
  /\ \E c \in Keys(argv, total) : total' = Append(total, c)
  /\ text' = total'
  /\ UNCHANGED <<argv, Cmd, entries, pc, result, search, field, reply>>

Start ==
  /\ pc = "start"
  /\ Cmd' = GetArgs(argv, TRUE)
  /\ Goto(IF \/ Cmd'.error \/ ~LegalOptions(Cmd', LEGAL_OPTIONS)
             \/ OptionPresent(Cmd', OTHERUSERFLAG) /\ NOptionArgs(Cmd', OTHERUSERFLAG) # 1
            THEN "error"
          ELSE IF OptionPresent(Cmd', SUMMARYFLAG) THEN "over"
          ELSE IF NNonOptionArgs(Cmd') > 0 THEN "next" ELSE "main")
  /\ UNCHANGED <<argv, total, text, entries, result, search, field, reply>>

-----------------------------------------------------------------------------
(* print_people and look_for_person.                                       *)

PersonMatch(person, entry) ==
  StrNCSearch(entry.name, person) \/ StrNCSearch(entry.company, person)

NextPerson ==
  /\ pc = "next"
  /\ n' = n + 1 /\ at' = 0
  /\ result' = "unset"
  /\ Goto(IF n + 1 > NNonOptionArgs(Cmd) THEN "over" ELSE "show")
  /\ UNCHANGED <<called, text, entries, shown, skipped, field, reply>>

Show ==
  /\ pc = "show"
  /\ LET left == {i \in at + 1..Len(entries) : PersonMatch(NonOptionArg(Cmd, n), entries[i])}
         i == CHOOSE i \in left : \A j \in left : i <= j
     IN IF left = {} THEN Goto("next") /\ UNCHANGED <<at, shown>>
        ELSE at' = i /\ shown' = Append(shown, <<n, i>>) /\ Goto("person")
  /\ UNCHANGED <<called, text, entries, result, n, skipped, field, reply>>

\* nobody looks at what menu_match returns, which sets result when it matches
LookForPerson ==
  /\ \E r \in Replies("person") :
       /\ Answer(r)
       /\ \E value \in IF r.rval = "match" THEN {r.value}
                       ELSE IF result = "unset" THEN P_VALUES \cup {"garbage"} ELSE {result} :
            /\ result' = value
            /\ skipped' = IF value = "next_person" THEN skipped \cup {n} ELSE skipped
            /\ Goto(CASE value = "continue" -> "show"
                      [] value = "next_person" -> "next"
                      [] value = "help" -> "person"
                      [] value = "abort" -> "over"
                      [] OTHER -> "error")
  /\ UNCHANGED <<called, entries, n, at, shown, field>>

-----------------------------------------------------------------------------
(* interactive_rolo.                                                       *)

\* a save, a scan and a search by name end here again, or the program does
InteractiveRolo ==
  /\ \E r \in Replies("main") :
       /\ Answer(r)
       /\ Goto(CASE r.rval = "eof" -> "over"
                 [] r.rval = "no_match" -> "main"
                 [] r.rval = "ambiguous" -> "error"
                 [] r.value = "exit" -> "over"
                 [] r.value = "add" -> "add"
                 [] r.value = "by_other" -> "field"
                 [] r.value = "help" -> "continue"
                 [] OTHER -> "main")
  /\ UNCHANGED <<called, entries, result, search, field>>

\* rolo_menu_yes_no, for the last of the questions of rolo_add
AddTheEntry ==
  /\ \E r \in Replies("add") :
       /\ Answer(r)
       /\ LET rval == YesNoAbortOrHelp(r, "yes") IN
            Goto(CASE rval = "eof" -> "over"
                   [] rval \in {"help", "redo"} -> "add"
                   [] rval = "error" -> "error"
                   [] OTHER -> "main")
  /\ UNCHANGED <<called, entries, result, search, field>>

AnyCharToContinue ==
  /\ pc \in {"continue", "field_help"}
  /\ text' = AfterFgets(text, MAXCONTINUE)
  /\ Goto(IF pc = "continue" THEN "main" ELSE "field")
  /\ UNCHANGED <<called, entries, result, search, field, reply>>

\* rolo_menu_number_help_or_abort ends the program at the end of the input
SelectField ==
  /\ \E r \in Replies("field") :
       /\ Answer(r)
       /\ LET rval == DataHelpOrAbort(r) IN
            \/ rval = "eof" /\ Goto("over") /\ UNCHANGED field
            \/ rval = "help" /\ Goto("field_help") /\ UNCHANGED field
            \/ rval = "abort" /\ Goto("main") /\ UNCHANGED field
            \/ /\ rval = "data"
               /\ \E value \in NumberIn(r.response) :
                    IF value \in {-1, -2} THEN Goto("field") /\ UNCHANGED field
                    ELSE field' = value
                           /\ Goto(IF value = NFields THEN "field_name" ELSE "string")
  /\ UNCHANGED <<called, entries, result, search>>

\* rolo_menu_data_help_or_abort asks again after its help only
DataOrAbort(r, data, abort, eof) ==
  LET rval == DataHelpOrAbort(r) IN
  Goto(CASE rval = "data" -> data [] rval = "abort" -> abort [] rval = "eof" -> eof
         [] rval = "help" -> pc)

\* at the end of the input the name and the index of the field stay unset
SelectUserField ==
  /\ \E r \in Replies("field_name") : Answer(r) /\ DataOrAbort(r, "string", "main", "string")
  /\ UNCHANGED <<called, entries, result, search, field>>

\* an end of the input is like an abort
SelectSearchString ==
  /\ \E r \in Replies("string") : Answer(r) /\ DataOrAbort(r, "search", "main", "main")
  /\ UNCHANGED <<called, entries, result, search, field>>

\* match_link, for each entry: the search by a user-defined field writes over what
\* it compares
Search ==
  /\ pc = "search"
  /\ entries' = IF field # NFields THEN entries
                ELSE [i \in DOMAIN entries |->
                        [entries[i] EXCEPT !.other = IF @ = <<>> THEN @ ELSE <<":">> \o Tail(@)]]
  /\ Goto("main")
  /\ UNCHANGED <<called, text, result, search, field, reply>>

-----------------------------------------------------------------------------
Init ==
  /\ argv \in Calls /\ Cmd = NoCmd /\ total = <<>> /\ text = <<>>
  /\ entries = Rolodex
  /\ pc = "start" /\ result = "unset"
  /\ n = 0 /\ at = 0 /\ shown = <<>> /\ skipped = {}
  /\ field = 0 /\ reply = NoReply

Program ==
  \/ Start \/ NextPerson \/ Show \/ LookForPerson \/ InteractiveRolo \/ AddTheEntry
  \/ AnyCharToContinue \/ SelectField \/ SelectUserField \/ SelectSearchString \/ Search
  \/ Again

Next == Type \/ Program

Spec == Init /\ [][Next]_vars

\* the program is one process, that runs; nobody has to type
FairSpec == Spec /\ WF_vars(Program)

-----------------------------------------------------------------------------
(* Properties.                                                             *)

\* The people looked for are the arguments before the first option, each in its turn;
\* each is shown the entries that match in Name or Company, in their order, none twice
\* and none left out, up to where the user leaves that search.
Asked == {p \in DOMAIN argv : \A q \in 1..p : ~IsOption(argv[q])}
Upcase(s) == [i \in DOMAIN s |-> ToUpperIfLower(s[i])]
Contained(s, t) == \E p \in 0..Len(t) : IsPrefix(Upcase(s), SubSeq(Upcase(t), p + 1, Len(t)))
Matches(person) ==
  {i \in DOMAIN entries : \/ Contained(person, entries[i].name)
                          \/ Contained(person, entries[i].company)}
ShownFor(p) == {shown[k][2] : k \in {l \in DOMAIN shown : shown[l][1] = p}}
InTurn ==
  \A k, l \in DOMAIN shown : k < l =>
    \/ shown[k][1] < shown[l][1]
    \/ shown[k][1] = shown[l][1] /\ shown[k][2] < shown[l][2]
Leaves(p) == p \in skipped \/ (p = n /\ result = "abort")
ShowsPeople ==
  pc \in {"next", "over"} /\ n > 0 =>
    /\ InTurn
    /\ \A k \in DOMAIN shown : shown[k][1] \in Asked /\ shown[k][1] <= n
    /\ \A p \in Asked : p <= n =>
         /\ ShownFor(p) \subseteq Matches(argv[p])
         /\ \A i \in Matches(argv[p]) \ ShownFor(p) :
              Leaves(p) /\ \A k \in ShownFor(p) : k < i

\* the line that has begun, in all that was typed
Begins(position) ==
  CHOOSE i \in 0..position :
    (i = 0 \/ total[i] = "\n") /\ \A j \in i + 1..position : total[j] # "\n"
\* the least that a read for which a line is too long takes of it
TooLong ==
  (IF MAXCONTINUE < MAX_MENU_RESPONSE_LENGTH THEN MAXCONTINUE ELSE MAX_MENU_RESPONSE_LENGTH) - 1
AnswerEndsLine ==
  LET before == Len(total) - Len(text)
      typed == SubSeq(total, before + 1, Len(total) - Len(text'))
  IN /\ typed \in {reply'.response, Append(reply'.response, "\n")}
     /\ typed = reply'.response => text' = <<>>
     /\ Begins(before) < before => before - Begins(before) >= TooLong

\* What a menu takes for a response is all that was typed up to a newline, or to the
\* end: after a newline too, or else after the beginning of a line that was too long
\* for the response before it, or for any_char_to_continue.
AnswersEndLines == [][reply' # reply /\ reply'.rval # "eof" => AnswerEndsLine]_vars

\* The end of the input ends the program, whatever it is asking then and however
\* much of a line that is too long it has to ask again for.
EndOfInputEnds == pc = "main" ~> pc \in {"over", "error"}

-----------------------------------------------------------------------------
(* What the documentation says and the code does not do.                   *)

\* menu.h:70: a user whose response is too long "is asked to try again"; what is left of
\* that response is not the next one.
AnswersAreLines ==
  [][reply' # reply =>
       LET before == Len(total) - Len(text) IN before = 0 \/ total[before] = "\n"]_vars

\* menu.h:142: the range of a number "is checked, inclusivewise", so that the field to
\* search by is one of those listed.
NumberInRange == pc \in {"string", "field_name"} => field \in 1..NFields

\* ctools.c:564: an integer that "is out of range" is refused, not read as another one.
NumberIsTyped ==
  pc = "string" /\ reply.menu = "field" =>
    NumberOf(RemoveExcessBlanks(reply.response)) = field

\* options.c:157: a result of the menu that is none of its values is called impossible.
NeverImpossible == n > 0 => pc # "error"

\* rolo.c:147: at "Unexpected EOF on terminal" the program is "exiting", and
\* tests/base_tests.c:110 asks for it: the end of the input ends a search for people too.
EveryEndOfInputEnds == pc = "person" ~> pc # "person"

=============================================================================
