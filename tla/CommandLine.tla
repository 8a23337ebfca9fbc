---------------------------- MODULE CommandLine -----------------------------
(***************************************************************************)
(* The user of jobber (hw4): how a line is read (src/hw4/src/sf_readline.c)*)
(* and carried out (main.c, helper_func.c), up to the call into the job    *)
(* table, which is module Jobber, and the task that job_create parses,     *)
(* which is module TaskSyntax.                                             *)
(*                                                                         *)
(* A piece stands for a character; the name of a command is one piece.     *)
(* What main does with a line is a record of the call it makes, with the   *)
(* id of a job, or with the text and the task that is made of it.          *)
(***************************************************************************)
EXTENDS TaskSyntax, Integers

CONSTANTS
  Sessions,    \* what the user may type before the end of the input
  BUFSIZE,     \* bound: the first size of the buffer
  Garbage,     \* the values an uninitialised int may have
  MayRefuse    \* realloc may find no memory

ASSUME CommandLineAssumption ==
  /\ BUFSIZE \in Nat \ {0, 1}
  /\ Garbage \subseteq Int
  /\ MayRefuse \in BOOLEAN
  /\ Sessions \subseteq Seq(STRING)

VARIABLES
  session,  \* what the user types
  typed,    \* how much of it has been read
  buf,      \* the line so far
  room,     \* the size of the allocated buffer
  size,     \* what the reader takes it for
  pc,       \* "read", "dispatch", "fini", "crashed"
  did,      \* the last call, see Call
  from,     \* how much had been read when this line was begun
  refused   \* realloc has failed

vars == <<session, typed, buf, room, size, pc, did, from, refused>>

Newline == "\n"
NoTask == <<>>
Call(command) == [command |-> command, id |-> -1, text |-> <<>>, task |-> NoTask]

-----------------------------------------------------------------------------
(* sf_readline.                                                            *)

Piece == session[typed + 1]
AtEnd == typed = Len(session)
Carry == pc' = "dispatch" /\ UNCHANGED <<buf, room, size>>

\* an end of file ends a line that has begun, and the program where none has
ReadEof ==
  /\ pc = "read" /\ AtEnd
  /\ IF buf = <<>> THEN pc' = "fini" /\ UNCHANGED <<buf, room, size>> ELSE Carry
  /\ UNCHANGED <<session, typed, did, from, refused>>

ReadNewline ==
  /\ pc = "read" /\ ~AtEnd /\ Piece = Newline
  /\ Carry
  /\ typed' = typed + 1
  /\ UNCHANGED <<session, did, from, refused>>

\* realloc has found memory
Doubles == room' = 2 * size /\ size' = 2 * size
Stays == UNCHANGED <<room, size>>

ReadPiece_LateGrowth ==
  /\ pc = "read" /\ ~AtEnd /\ Piece # Newline
  /\ buf' = Append(buf, Piece)
  /\ IF Len(buf) >= size THEN Doubles ELSE Stays
  /\ typed' = typed + 1
  /\ UNCHANGED <<session, pc, did, from, refused>>

ReadPiece_ForgetsPiece ==
  /\ pc = "read" /\ ~AtEnd /\ Piece # Newline
  /\ IF Len(buf) >= size - 1 THEN Doubles /\ UNCHANGED buf
     ELSE buf' = Append(buf, Piece) /\ Stays
  /\ typed' = typed + 1
  /\ UNCHANGED <<session, pc, did, from, refused>>

\* a full buffer is doubled first
ReadPiece ==
  /\ pc = "read" /\ ~AtEnd /\ Piece # Newline
  /\ buf' = Append(buf, Piece)
  /\ IF Len(buf) >= size - 1 THEN Doubles ELSE Stays
  /\ typed' = typed + 1
  /\ UNCHANGED <<session, pc, did, from, refused>>

\* or there is no memory: the line ends before the piece, which is lost, in the buffer
\* as it was
ReallocFails ==
  /\ MayRefuse
  /\ pc = "read" /\ ~AtEnd /\ Piece # Newline
  /\ Len(buf) >= size - 1
  /\ pc' = "dispatch"
  /\ size' = 2 * size
  /\ typed' = typed + 1
  /\ refused' = TRUE
  /\ UNCHANGED <<session, buf, room, did, from>>

-----------------------------------------------------------------------------
(* main, command_eq, second_word, get_job_id.                              *)

IsSpaces(s) == \A i \in DOMAIN s : s[i] = Space
Begins(name, s) == s # <<>> /\ s[1] = name

CommandEq(name, s) == Begins(name, s) /\ IsSpaces(Tail(s))

\* what follows the name, without the spaces before it, or <<>>
SecondWord(name, s) ==
  IF Begins(name, s) THEN SubSeq(s, SkipSpaces(s, 2), Len(s)) ELSE <<>>

Digits == <<"0", "1", "2", "3", "4", "5", "6", "7", "8", "9">>
IsDigit(x) == Contains(Digits, x)
Value(x) == CHOOSE n \in 0..9 : Digits[n + 1] = x
NumberOf(s) ==
  LET upto[n \in 0..Len(s)] == IF n = 0 THEN 0 ELSE 10 * upto[n - 1] + Value(s[n])
  IN upto[Len(s)]

\* sscanf with %d, into a variable that has no value yet
Scanned(s) ==
  LET i == IF s[1] \in {"-", "+"} THEN 2 ELSE 1
      n == NumberOf(SubSeq(s, i, SkipWhile(s, i, IsDigit) - 1))
  IN IF i \notin DOMAIN s \/ ~IsDigit(s[i]) THEN Garbage
     ELSE {IF s[1] = "-" THEN -n ELSE n}

JobIds_FromNothing(name, s) ==
  IF Begins(name, s) THEN IF SecondWord(name, s) = <<>> THEN {0} ELSE Scanned(SecondWord(name, s))
  ELSE {-1}

JobIds(name, s) ==
  IF SecondWord(name, s) = <<>> THEN {-1} ELSE Scanned(SecondWord(name, s))

\* the tokens of strtok
Tokens(s) == Without(Split(s, {"'"}), {<<>>})

SimpleCommands == {"help", "quit", "enable", "disable", "jobs"}
JobCommands == {"pause", "resume", "cancel", "expunge", "status"}

\* job_create takes a text that is no task like one that is
Create(text) == [Call("spool") EXCEPT !.text = text, !.task = ParseTask(text)]

SpoolTokens(tokens) ==
  IF Len(tokens) > 1 THEN {Call("wrong number of args")}
  ELSE IF tokens = <<>> THEN {Call("crash")}
  ELSE {Create(tokens[1])}
Spool(s) == SpoolTokens(Tokens(SecondWord("spool", s)))

JobCalls(s) ==
  UNION {{[Call(name) EXCEPT !.id = n] : n \in JobIds(name, s) \ {-1}} : name \in JobCommands}

\* no number of a job is -1, so that a command may come to be unrecognized
CallsFor(s) ==
  LET simple == {name \in SimpleCommands : CommandEq(name, s)} IN
  IF s = <<>> THEN {Call("none")}
  ELSE IF simple # {} THEN {Call(name) : name \in simple}
  ELSE IF SecondWord("spool", s) # <<>> THEN Spool(s)
  ELSE JobCalls(s) \cup
    (IF \A name \in JobCommands : -1 \in JobIds(name, s) THEN {Call("unrecognized")} ELSE {})

\* the loop of main, and the buffer of the next sf_readline
Dispatch ==
  /\ pc = "dispatch"
  /\ \E call \in CallsFor(buf) :
       /\ did' = call
       /\ pc' = CASE call.command = "quit" -> "fini"
                  [] call.command = "crash" -> "crashed"
                  [] OTHER -> "read"
  /\ buf' = <<>> /\ room' = BUFSIZE /\ size' = BUFSIZE
  /\ from' = typed
  /\ UNCHANGED <<session, typed, refused>>

-----------------------------------------------------------------------------
Init ==
  /\ session \in Sessions
  /\ typed = 0 /\ buf = <<>> /\ room = BUFSIZE /\ size = BUFSIZE /\ from = 0
  /\ pc = "read" /\ did = Call("none") /\ refused = FALSE

Next == ReadEof \/ ReadNewline \/ ReadPiece \/ ReallocFails \/ Dispatch

Spec == Init /\ [][Next]_vars

-----------------------------------------------------------------------------
(* Properties.                                                             *)

\* A line is carried out as it was typed, from one newline to the next, or to the end
\* of the input, however often the buffer grows on the way; and the memory that is
\* allocated has room for the terminator, even where it could not grow and the reader
\* takes it for larger than it is.
LineIntact ==
  pc = "dispatch" =>
    /\ Len(buf) < room
    /\ ~refused =>
         LET read == SubSeq(session, from + 1, typed) IN
         /\ (read = buf /\ AtEnd) \/ read = Append(buf, Newline)
         /\ \A i \in DOMAIN buf : buf[i] # Newline
         /\ from > 0 => session[from] = Newline

\* The argument of a command, if it is a number
Argument(s) == Without(Tail(s), {Space})
NamesJob(s) ==
  /\ s # <<>> /\ s[1] \in JobCommands
  /\ Argument(s) # <<>> /\ \A i \in DOMAIN Argument(s) : IsDigit(Argument(s)[i])
  /\ Len(Without(Split(Tail(s), {Space}), {<<>>})) = 1

\* What is done is what was typed: a command that is given a number does what it is
\* named for to the job of that number, a line that names no command does nothing to any
\* job, and the words of a task that is spooled are those of the line, in their order,
\* through the quotes, the tokens and the parser.
DoesWhatIsTyped ==
  [][pc = "dispatch" =>
       /\ NamesJob(buf) => did' = [Call(buf[1]) EXCEPT !.id = NumberOf(Argument(buf))]
       /\ did'.command \in JobCommands =>
            Begins(did'.command, buf) /\ Argument(buf) # <<>>
       /\ did'.task # NoTask =>
            WordsOfTask(did'.task) = WordsIn(Without(Tail(buf), {"'"}))]_vars

\* A text that the grammar of task.h makes a task of is parsed to that task, if none
\* of its pipelines is redirected twice.
ParsesTasks ==
  did.command = "spool" /\ IsTask(did.text)
    /\ (\A n \in DOMAIN TaskOf(did.text) :
          NoPath \in {TaskOf(did.text)[n].input, TaskOf(did.text)[n].output})
  => did.task = TaskOf(did.text)

\* task.h:80: what unparse_task prints is understood by parse_task, and is the same
\* task: the status of a job shows what will be run.
RoundTrip == did.task # NoTask => ParseTask(UnparseTask(did.task)) = did.task

-----------------------------------------------------------------------------
(* What the documentation says and the code does not do.                   *)

\* task.h:15: a pipeline is followed by "one or both" of the redirections, "either order
\* permitted", and its task has both.
ParsesEveryTask ==
  did.command = "spool" /\ IsTask(did.text) => did.task = TaskOf(did.text)

\* jobber.h:187: job_create fails if the text is no task; none that is spooled goes
\* without one, in an entry that looks free.
ValidatesTasks == did.command = "spool" => did.task # NoTask

\* main.c:31: the commands for a job take one argument, the job, and act on the job the
\* user has named: an argument that is no number names none.
ActsOnlyOnNamedJob ==
  [][pc = "dispatch" /\ did'.command \in JobCommands => NamesJob(buf)]_vars

=============================================================================
