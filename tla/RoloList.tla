------------------------------ MODULE RoloList -------------------------------
(***************************************************************************)
(* The rolodex of hw2 in memory: the doubly linked list of entries         *)
(* (src/hw2/src/rlist.c), and the commands of one user that add, show,     *)
(* scan, search, delete and update entries (operations.c, search.c,        *)
(* update.c), with the reading and writing of the file (io.c).             *)
(*                                                                         *)
(* A scan may start another scan from the entry it shows, so the calls of  *)
(* display_list_of_entries and of entry_action nest: stack holds a frame   *)
(* for each that has not returned.  A step goes from one question to the   *)
(* user to the next, or returns from one frame.                            *)
(*                                                                         *)
(* A link is a number, 0 the null pointer.  next[0] and prev[0] are        *)
(* Begin_Rlist and End_Rlist: the head of the list is what follows no      *)
(* link.  With them the cases of rolo_insert and rolo_delete are one.      *)
(*                                                                         *)
(* An entry is a number: its third stands for the name, in the order of    *)
(* nocase_compare, and the rest for all else: 0 for an entry without       *)
(* fields the user defined, 1 for one with them, and 2 for one the first   *)
(* characters of whose fields have been overwritten (see SearchByOther).   *)
(***************************************************************************)
EXTENDS Naturals, Sequences, SequencesExt, FiniteSets, FiniteSetsExt

CONSTANTS
  MaxLinks,    \* bound: the links of one session
  Entries,     \* the entries there can be
  Files,       \* the files a session may find: sequences of entries
  MaxMatches,  \* MAXMATCHES, 17 in datadef.h
  Depth,       \* bound: scans within scans
  MaxEdits,    \* bound: additions, deletions and updates of one session
  Habits       \* "outer": deletes an entry that an outer scan still shows;
               \* "zero": asks for match number 0

ASSUME ListAssumption ==
  /\ MaxLinks \in Nat /\ MaxMatches \in Nat /\ MaxEdits \in Nat
  /\ Depth \in Nat \ {0}
  /\ Entries \subseteq Nat /\ Entries # {}
  /\ \A e \in Entries : e % 3 = 1 => e + 1 \in Entries
  /\ \A f \in Files : f \in Seq(Entries) /\ Len(f) <= MaxLinks
  /\ Habits \subseteq {"outer", "zero"}

Links == 1..MaxLinks
Pointers == 0..MaxLinks
Rank(e) == e \div 3
HasOthers(e) == e % 3 # 0
Overwritten(e) == IF e % 3 = 1 THEN e + 1 ELSE e

VARIABLES
  list,     \* [next, prev], each Pointers -> Pointers
  entry,    \* entry[x]: what link x holds
  matched,  \* the links whose matched is set
  stack,    \* frames [kind, at, first], the innermost last
  phase,    \* "start", "off", "menu", "ask" (entry_action), "pick" (from a
            \* short list), "back" (the innermost frame is about to return)
  changed,
  disk,     \* the entries of the file, in its order
  made,     \* the links made in this session
  edits,    \* the entries added, deleted and updated in it
  live,     \* those inserted and not deleted (history)
  misfiled  \* a changed name was left in its old place (history)

vars == <<list, entry, matched, stack, phase, changed, disk, made, edits, live,
          misfiled>>

-----------------------------------------------------------------------------
(* The list.                                                               *)

\* the pointers met from x on
Follow(step, x) ==
  LET at[n \in 0..MaxLinks] ==
        IF n = 0 THEN x ELSE IF at[n - 1] = 0 THEN 0 ELSE step[at[n - 1]]
  IN at

Chain(step) ==
  LET at == Follow(step, step[0])
      length == Cardinality({n \in DOMAIN at : at[n] # 0})
  IN [n \in 1..length |-> at[n - 1]]

\* the first link of S that is met, or 0
Seek(step, x, S) ==
  LET at == Follow(step, x)
      met == {n \in DOMAIN at : at[n] \in S}
  IN IF met = {} THEN 0 ELSE at[Min(met)]

Reach(step, x) == Range(Follow(step, x)) \ {0}

Empty == [next |-> [x \in Pointers |-> 0], prev |-> [x \in Pointers |-> 0]]

\* x goes before link p, at the end when p is 0
Splice(L, x, p) ==
  [next |-> [L.next EXCEPT ![x] = p, ![L.prev[p]] = x],
   prev |-> [L.prev EXCEPT ![x] = L.prev[p], ![p] = x]]

Insert_AtTheEnd(L, x, contents) == Splice(L, x, 0)

\* a name equal to that of x stays before it
Insert(L, x, contents) ==
  Splice(L, x, Seek(L.next, L.next[0],
                    {y \in Links : Rank(contents[y]) > Rank(contents[x])}))

Unlink_OneWay(L, x) == [L EXCEPT !.next[L.prev[x]] = L.next[x]]

\* the link itself keeps its pointers
Unlink(L, x) ==
  [next |-> [L.next EXCEPT ![L.prev[x]] = L.next[x]],
   prev |-> [L.prev EXCEPT ![L.next[x]] = L.prev[x]]]

\* links 1 to n, each put at the end
Appended(n) ==
  LET upto[k \in 0..n] == IF k = 0 THEN Empty ELSE Splice(upto[k - 1], k, 0)
  IN upto[n]

Reorder(L, contents) ==
  LET chain == Chain(L.next)
      upto[k \in 0..Len(chain)] ==
        IF k = 0 THEN Empty ELSE Insert(upto[k - 1], chain[k], contents)
  IN upto[Len(chain)]

Contents(L, contents) ==
  LET chain == Chain(L.next) IN [n \in DOMAIN chain |-> contents[chain[n]]]

InOrder(es) == \A n \in 1..Len(es) - 1 : Rank(es[n]) <= Rank(es[n + 1])

-----------------------------------------------------------------------------
(* The file.                                                               *)

\* read_rolodex, and the repair of a file that is out of order
Read ==
  /\ phase = "start"
  /\ LET read == Appended(Len(disk))
         held == [x \in Links |-> IF x <= Len(disk) THEN disk[x] ELSE entry[x]]
     IN /\ entry' = held
        /\ list' = IF InOrder(disk) THEN read ELSE Reorder(read, held)
        /\ disk' = Contents(list', held)
  /\ made' = Len(disk) /\ live' = 1..Len(disk)
  /\ phase' = "menu"
  /\ UNCHANGED <<matched, stack, changed, edits, misfiled>>

Saved == Contents(list, entry)

Save ==
  /\ phase = "menu" /\ changed
  /\ disk' = Saved
  /\ changed' = FALSE
  /\ UNCHANGED <<list, entry, matched, stack, phase, made, edits, live, misfiled>>

Ends ==
  /\ phase' = "off"
  /\ list' = Empty /\ matched' = {} /\ stack' = <<>>
  /\ entry' = [x \in Links |-> Min(Entries)]
  /\ changed' = FALSE /\ made' = 0 /\ edits' = 0 /\ live' = {} /\ misfiled' = FALSE

\* from the menu, or by the end of the input at any question
SaveAndExit ==
  /\ phase \in {"menu", "ask", "pick"}
  /\ disk' = IF changed THEN Saved ELSE disk
  /\ Ends

\* by an interrupt or a fault: a field left empty in rolo_add stays a null pointer
\* that display_entry reads, and so do the fields the user defined in copy_entry
Dies ==
  /\ phase \notin {"start", "off"}
  /\ Ends
  /\ UNCHANGED disk

-----------------------------------------------------------------------------
(* Frames.                                                                 *)

\* one edit more, within the bound
Edited == edits < MaxEdits /\ edits' = edits + 1

Frame == [kind : {"peruse", "scan", "one", "pick"}, at : Pointers, first : Pointers]
Top == Last(stack)
SetTop(f) == stack' = [stack EXCEPT ![Len(stack)] = f]
Push(kind, at, first) ==
  stack' = Append(stack, [kind |-> kind, at |-> at, first |-> first])
IsScan(f) == f.kind \in {"peruse", "scan"}

\* the innermost frame is done
Back == phase' = "back" /\ UNCHANGED stack

\* it shows the next matched entry from x on, if there is one
ShowFrom(x, step, marks) ==
  LET y == Seek(step, x, marks) IN
  /\ SetTop([Top EXCEPT !.at = y])
  /\ phase' = IF y = 0 THEN "back" ELSE "ask"

\* after an action that is neither E_CONTINUE, E_ABORT nor E_PREV, a scan goes on
\* and a search returns
GoesOn(step, marks) ==
  \/ IsScan(Top) /\ ShowFrom(step[Top.at], step, marks)
  \/ ~IsScan(Top) /\ Back

\* display_list_of_entries is called
StartScan(kind, x, marks) ==
  LET y == Seek(list.next, x, marks) IN
  /\ Push(kind, y, x)
  /\ phase' = IF y = 0 THEN "back" ELSE "ask"

\* rolo_peruse_mode is called
StartPeruse(x) ==
  /\ matched' = matched \cup Reach(list.next, x)
  /\ StartScan("peruse", x, matched')

\* what rolo_peruse_mode leaves of the marks; a search leaves them all
Left(f) ==
  matched \ IF f.kind = "peruse" THEN Reach(list.next, f.first) ELSE {}

\* the frame below, if there is one, called from E_SCAN
Return ==
  /\ phase = "back"
  /\ matched' = Left(Top)
  /\ LET f == Top
         outer == Front(stack)
     IN IF outer = <<>> THEN stack' = <<>> /\ phase' = "menu"
        ELSE IF ~IsScan(Last(outer)) THEN stack' = outer /\ phase' = "back"
        ELSE LET y == Seek(list.next, list.next[Last(outer).at], matched') IN
             /\ stack' = [outer EXCEPT ![Len(outer)].at = y]
             /\ phase' = IF y = 0 THEN "back" ELSE "ask"
  /\ UNCHANGED <<list, entry, changed, disk, made, edits, live, misfiled>>

-----------------------------------------------------------------------------
(* The menu.                                                               *)

\* rolo_add, confirmed
Add(e) ==
  /\ phase = "menu" /\ made < MaxLinks /\ Edited
  /\ made' = made + 1
  /\ entry' = [entry EXCEPT ![made'] = e]
  /\ list' = Insert(list, made', entry')
  /\ live' = live \cup {made'}
  /\ changed' = TRUE
  /\ UNCHANGED <<matched, stack, phase, disk, misfiled>>

Peruse ==
  /\ phase = "menu" /\ list.next[0] # 0
  /\ StartPeruse(list.next[0])
  /\ UNCHANGED <<list, entry, changed, disk, made, edits, live, misfiled>>

All == Reach(list.next, list.next[0])

\* rolo_search_mode for any other field; which entries match depends on what they hold
Search(E) ==
  /\ phase = "menu"
  /\ LET all == Reach(list.next, list.next[0])
         found == {x \in all : entry[x] \in E}
         n == Cardinality(found)
     IN /\ matched' = (matched \ All) \cup found
        /\ \/ n = 0 /\ UNCHANGED <<stack, phase>>
           \/ /\ n = 1 /\ phase' = "ask"
              /\ Push("one", Seek(list.next, list.next[0], found), 0)
           \/ n > MaxMatches /\ n > 1 /\ UNCHANGED <<stack, phase>>
           \/ n > MaxMatches /\ n > 1 /\ StartScan("scan", list.next[0], found)
           \/ n \in 2..MaxMatches /\ Push("pick", 0, 0) /\ phase' = "pick"
  /\ UNCHANGED <<list, entry, changed, disk, made, edits, live, misfiled>>

\* rolo_search_mode for a field the user defined.  match_link ends every such field of
\* every entry at its first character, for which it puts a colon afterwards: it sees no
\* name of a field, so that nothing matches.
SearchByOther ==
  /\ phase = "menu"
  /\ matched' = matched \ All
  /\ entry' = [x \in Links |-> IF x \in All THEN Overwritten(entry[x]) ELSE entry[x]]
  /\ UNCHANGED <<list, stack, phase, changed, disk, made, edits, live, misfiled>>

\* The user picks match x by its number.  For 0 no link is looked at, and the
\* variable holds the one picked before, or whatever there was.
Pick(x) ==
  /\ phase = "pick"
  /\ \/ x \in All \cap matched
     \/ "zero" \in Habits /\ x \in IF Top.at # 0 THEN {Top.at} ELSE 1..made
  /\ SetTop([Top EXCEPT !.at = x])
  /\ phase' = "ask"
  /\ UNCHANGED <<list, entry, matched, changed, disk, made, edits, live, misfiled>>

\* all of them one by one, or none
PickAll ==
  /\ phase = "pick"
  /\ LET y == Seek(list.next, list.next[0], matched) IN
     /\ SetTop([kind |-> "scan", at |-> y, first |-> 0])
     /\ phase' = IF y = 0 THEN "back" ELSE "ask"
  /\ UNCHANGED <<list, entry, matched, changed, disk, made, edits, live, misfiled>>

PickNone ==
  /\ phase = "pick" /\ Back
  /\ UNCHANGED <<list, entry, matched, changed, disk, made, edits, live, misfiled>>

-----------------------------------------------------------------------------
(* The actions on the entry shown: entry_action.                           *)

Asked == phase = "ask"

Continue ==
  /\ Asked
  /\ \/ IsScan(Top) /\ ShowFrom(list.next[Top.at], list.next, matched)
     \/ Top.kind = "one" /\ Back
     \/ Top.kind = "pick" /\ phase' = "pick" /\ UNCHANGED stack
  /\ UNCHANGED <<list, entry, matched, changed, disk, made, edits, live, misfiled>>

Abort_ToMenu ==
  /\ Asked /\ phase' = "menu"
  /\ UNCHANGED <<list, entry, matched, stack, changed, disk, made, edits, live,
                 misfiled>>

Abort ==
  /\ Asked /\ Back
  /\ UNCHANGED <<list, entry, matched, changed, disk, made, edits, live, misfiled>>

\* the previous match; a scan that has none shows the same again
Previous ==
  /\ Asked
  /\ \/ /\ IsScan(Top) /\ UNCHANGED phase
        /\ LET y == Seek(list.prev, list.prev[Top.at], matched) IN
           SetTop([Top EXCEPT !.at = IF y = 0 THEN @ ELSE y])
     \/ Top.kind = "one" /\ Back
     \/ Top.kind = "pick" /\ phase' = "pick" /\ UNCHANGED stack
  /\ UNCHANGED <<list, entry, matched, changed, disk, made, edits, live, misfiled>>

ShownOutside(x) == \E n \in 1..Len(stack) - 1 : stack[n].at = x

Delete_Unnoticed ==
  /\ Asked
  /\ Edited
  /\ "outer" \in Habits \/ ~ShownOutside(Top.at)
  /\ list' = Unlink(list, Top.at)
  /\ live' = live \ {Top.at}
  /\ GoesOn(list'.next, matched)
  /\ UNCHANGED <<entry, matched, changed, disk, made, misfiled>>

Delete ==
  /\ Asked
  /\ Edited
  /\ "outer" \in Habits \/ ~ShownOutside(Top.at)
  /\ list' = Unlink(list, Top.at)
  /\ live' = live \ {Top.at}
  /\ changed' = TRUE
  /\ GoesOn(list'.next, matched)
  /\ UNCHANGED <<entry, matched, disk, made, misfiled>>

\* A confirmed update, of an entry whose copy can be shown (see Dies).  The entry
\* is filed again if the name was the last field the user typed (name_changed),
\* whether it differs or not.
Update(e, name_changed) ==
  /\ Asked /\ ~HasOthers(entry[Top.at]) /\ Edited
  /\ entry' = [entry EXCEPT ![Top.at] = e]
  /\ list' = IF name_changed THEN Insert(Unlink(list, Top.at), Top.at, entry')
             ELSE list
  /\ misfiled' = (misfiled \/ (~name_changed /\ Rank(e) # Rank(entry[Top.at])))
  /\ changed' = TRUE
  /\ GoesOn(list'.next, matched)
  /\ UNCHANGED <<matched, disk, made, live>>

\* one that is given up
NoUpdate ==
  /\ Asked
  /\ GoesOn(list.next, matched)
  /\ UNCHANGED <<list, entry, matched, changed, disk, made, edits, live, misfiled>>

\* E_SCAN: a scan from the next entry on; there is none without a list
ScanFromHere ==
  /\ Asked /\ Len(stack) < Depth
  /\ \/ list.next[0] # 0 /\ StartPeruse(list.next[Top.at])
     \/ list.next[0] = 0 /\ GoesOn(list.next, matched) /\ UNCHANGED matched
  /\ UNCHANGED <<list, entry, changed, disk, made, edits, live, misfiled>>

Init ==
  /\ disk \in Files
  /\ phase = "start"
  /\ list = Empty /\ matched = {} /\ stack = <<>>
  /\ entry = [x \in Links |-> Min(Entries)]
  /\ changed = FALSE /\ made = 0 /\ edits = 0 /\ live = {} /\ misfiled = FALSE

Next ==
  \/ Read \/ Save \/ SaveAndExit \/ Dies \/ Return
  \/ \E e \in Entries : Add(e)
  \/ Peruse
  \/ \E E \in SUBSET {entry[x] : x \in All} : Search(E)
  \/ SearchByOther
  \/ \E x \in Links : Pick(x)
  \/ PickAll \/ PickNone
  \/ Continue \/ Abort \/ Previous \/ Delete
  \/ \E e \in Entries, name_changed \in BOOLEAN : Update(e, name_changed)
  \/ NoUpdate \/ ScanFromHere

Spec == Init /\ [][Next]_vars

-----------------------------------------------------------------------------
(* Properties.                                                             *)

TypeOK ==
  /\ list \in [next : [Pointers -> Pointers], prev : [Pointers -> Pointers]]
  /\ entry \in [Links -> Entries]
  /\ matched \subseteq Links /\ live \subseteq Links
  /\ stack \in Seq(Frame) /\ Len(stack) <= Depth
  /\ phase \in {"start", "off", "menu", "ask", "pick", "back"}
  /\ stack = <<>> <=> phase \in {"start", "off", "menu"}
  /\ changed \in BOOLEAN /\ misfiled \in BOOLEAN
  /\ disk \in Seq(Entries) /\ Len(disk) <= MaxLinks
  /\ made \in Pointers /\ edits \in 0..MaxEdits

\* Whatever is added, deleted and filed again in nested scans, the list holds the
\* entries that were added and not deleted, each once, and reads the same from
\* either end: nothing is lost, doubled or brought back.
Sound ==
  LET forward == Chain(list.next) IN
  /\ Range(forward) = live
  /\ Len(forward) = Cardinality(live)
  /\ Chain(list.prev) = Reverse(forward)

\* The entries are in order by name through every insertion, deletion and change,
\* until a changed name is left in its old place.
Sorted == ~misfiled => InOrder(Saved)

\* the entries are the same but for the first characters of the user's fields
Undamaged(e) == IF e % 3 = 2 THEN e - 1 ELSE e
Alike(es, fs) ==
  Len(es) = Len(fs) /\ \A n \in DOMAIN es : Undamaged(es[n]) = Undamaged(fs[n])

\* While nothing is marked as changed, the file holds the list in memory, entry for
\* entry, but for what searches by the user's fields overwrite: whoever leaves then
\* loses no addition, no deletion and no update, made in whatever scan within a scan.
ChangedTells == phase \notin {"start", "off"} /\ ~changed => Alike(disk, Saved)

-----------------------------------------------------------------------------
(* What the documentation says and the code does not do.                   *)

\* helplib/escanhelp: "the entries are ordered alphabetically"; rolo.c:326: the
\* rolodex "should never be out of order since it is written to disk ordered".
WrittenInOrder == phase = "menu" => InOrder(Saved)

\* helplib/escanhelp: the entry displayed is one of "your rolodex database": it has not
\* been deleted, by a scan within the one that shows it (Habits has "outer").
ShownIsLive == phase = "ask" => Top.at \in live

\* helplib/escanhelp: '-' is to "delete the entry from your rolodex": one that has been
\* deleted does not come back, when a scan that still shows it files it again.
DeletedIsGone == phase = "menu" => Range(Chain(list.next)) \subseteq live

\* options.c:259: when nothing is marked as changed there are "No changes to be saved".
NoChangesToBeSaved == phase = "menu" /\ ~changed => disk = Saved

\* helplib/escanhelp: a scan shows "each entry in your rolodex database", and the
\* next one is displayed when the user types RETURN.
ScanGoesOn ==
  phase = "ask" /\ Top.kind = "peruse" => list.next[Top.at] \in matched \cup {0}

=============================================================================
