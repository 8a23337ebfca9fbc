---------------------------- MODULE MCRoloMenus -----------------------------
(* Calls, texts and a rolodex for tlc: ints of six bits, lines of three    *)
(* characters.                                                             *)
EXTENDS RoloMenus

Entry(name, company, other) == [name |-> name, company |-> company, other |-> other]

Four == <<Entry(<<"a", "b">>, <<>>, <<>>), Entry(<<"b">>, <<"A">>, <<>>),
          Entry(<<"c">>, <<>>, <<"x", "y">>), Entry(<<"a", "B">>, <<"b", "a">>, <<>>)>>

Upto(S, k) == UNION {[1..i -> S] : i \in 0..k}

Words == {<<"a">>, <<"A", "b">>, <<"B">>, <<"-">>, <<"-", "l">>, <<"-", "u">>, <<"-", "l", "s">>}
AnyCalls == Upto(Words, 3)
PeopleCalls == {<<<<"a">>, <<"B">>>>, <<<<"b">>, <<"-", "l">>, <<"c">>>>}

AllCalls == AnyCalls \cup PeopleCalls

Menu == {"$", "+", "?", "\\", "3", "\n"}
Replying == {"n", "?", "\\", " ", "\n"}

Searching == <<"$", "\n">>
SearchingOther == <<"$", "\n", "3", "\n">>

AllKeys(args, typed) ==
  CASE args = <<>> /\ Len(typed) < 5 -> Menu \cup IF IsPrefix(Searching, typed) THEN {"9"} ELSE {}
    [] args = <<>> /\ Len(typed) < 8 /\ IsPrefix(SearchingOther, typed) -> {"+", "\n"}
    [] args \in PeopleCalls /\ Len(typed) < 4 -> Replying
    [] args \notin PeopleCalls /\ Len(typed) < 3 -> IF Len(typed) = 1 THEN {"\n"} ELSE {"c"}
    [] OTHER -> {}

SixBits == <<"3", "1">>

=============================================================================
