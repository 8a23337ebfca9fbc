----------------------------- MODULE TaskSyntax -----------------------------
(***************************************************************************)
(* The text of a task of hw4, as parse_task reads and unparse_task writes  *)
(* it (src/hw4/src/task.c), beside the grammar in words at the head of     *)
(* src/hw4/include/task.h.                                                 *)
(*                                                                         *)
(* A text is a sequence of pieces: a space, a delimiter, or anything else, *)
(* of which words are made.  A task is a sequence of pipelines             *)
(* [commands, input, output]; a command is a sequence of words, a word or  *)
(* a path a sequence of pieces.  A list that is a null pointer is <<>>.    *)
(***************************************************************************)
EXTENDS Naturals, Sequences, SequencesExt

Space == " "
Delimiters == {";", "|", "<", ">"}
IsWordPiece(x) == x # Space /\ x \notin Delimiters

NoPath == <<"no path">>
Path(pieces) == <<"path">> \o pieces

\* the first position from i on that is not one of P, or the one after the end
SkipWhile(s, i, P(_)) ==
  CHOOSE j \in i..Len(s) + 1 :
    /\ j = Len(s) + 1 \/ ~P(s[j])
    /\ \A k \in i..j - 1 : P(s[k])

-----------------------------------------------------------------------------
(* Parsing.  Each operator is a function of the position linep points to,  *)
(* and returns what it has read and the position it leaves linep at.       *)

SkipSpaces(s, i) == SkipWhile(s, i, LAMBDA x : x = Space)
WordEnd(s, i) == SkipWhile(s, i, IsWordPiece)
Is(s, i, x) == i \in DOMAIN s /\ s[i] = x

SkipOneSpace(s, e) == IF Is(s, e, Space) THEN e + 1 ELSE e

\* parse_word from b on, with parse_word_list, which f continues
WordsFrom(s, f, b) ==
  LET e == WordEnd(s, b)
      after == SkipOneSpace(s, e)
      word == SubSeq(s, b, e - 1)
  IN IF b = e THEN [words |-> <<>>, at |-> b]
     ELSE IF after \notin DOMAIN s \/ s[after] \in Delimiters
       THEN [words |-> <<word>>, at |-> after]
     ELSE [words |-> <<word>> \o f[after].words, at |-> f[after].at]

ParseWordList(s) ==
  LET f[i \in 1..Len(s) + 1] == WordsFrom(s, f, SkipSpaces(s, i)) IN f

CommandsFrom(s, f, command) ==
  LET j == SkipSpaces(s, command.at) IN
  IF command.words = <<>> THEN [commands |-> <<>>, at |-> command.at]
  ELSE IF Is(s, j, "|")
    THEN [commands |-> <<command.words>> \o f[j + 1].commands, at |-> f[j + 1].at]
  ELSE [commands |-> <<command.words>>, at |-> j]

ParseCommandList(s) ==
  LET f[i \in 1..Len(s) + 1] ==
        CommandsFrom(s, f, ParseWordList(s)[SkipSpaces(s, i)])
  IN f

PathFrom(s, b) ==
  LET e == WordEnd(s, b) IN [path |-> Path(SubSeq(s, b, e - 1)), at |-> e]
ParsePath(s, i) == PathFrom(s, SkipSpaces(s, i))

\* one redirection of either sort at most
PipelineFrom(s, list) ==
  LET j == SkipSpaces(s, list.at)
      file == ParsePath(s, j + 1)
      parsed(input, output, at) ==
        [pipeline |-> <<[commands |-> list.commands, input |-> input, output |-> output]>>,
         at |-> at]
  IN IF list.commands = <<>> THEN [pipeline |-> <<>>, at |-> list.at]
     ELSE IF Is(s, j, "<") THEN parsed(file.path, NoPath, file.at)
     ELSE IF Is(s, j, ">") THEN parsed(NoPath, file.path, file.at)
     ELSE parsed(NoPath, NoPath, j)

ParsePipeline(s, i) == PipelineFrom(s, ParseCommandList(s)[i])

PipelinesFrom_Once(s, f, first) ==
  [pipelines |-> first.pipeline, at |-> SkipSpaces(s, first.at)]

PipelinesFrom(s, f, first) ==
  LET j == SkipSpaces(s, first.at) IN
  IF first.pipeline = <<>> THEN [pipelines |-> <<>>, at |-> first.at]
  ELSE IF Is(s, j, ";")
    THEN [pipelines |-> first.pipeline \o f[j + 1].pipelines, at |-> f[j + 1].at]
  ELSE [pipelines |-> first.pipeline, at |-> j]

ParsePipelineList(s) ==
  LET f[i \in 1..Len(s) + 1] ==
        PipelinesFrom(s, f, ParsePipeline(s, SkipSpaces(s, i)))
  IN f

\* <<>> when the text is not taken for a task
Wholly(s, list) == IF SkipSpaces(s, list.at) \in DOMAIN s THEN <<>> ELSE list.pipelines
ParseTask(s) == Wholly(s, ParsePipelineList(s)[1])

-----------------------------------------------------------------------------
(* Unparsing.                                                              *)

Joined(texts, between) ==
  LET upto[n \in 0..Len(texts)] ==
        IF n = 0 THEN <<>>
        ELSE IF n = 1 THEN texts[1]
        ELSE upto[n - 1] \o between \o texts[n]
  IN upto[Len(texts)]

Redirection(sign, path) ==
  IF path = NoPath THEN <<>> ELSE <<Space, sign, Space>> \o Tail(path)

UnparseCommand(words) == Joined(words, <<Space>>)

UnparsePipeline(p) ==
  Joined([n \in DOMAIN p.commands |-> UnparseCommand(p.commands[n])], <<Space, "|", Space>>)
    \o Redirection("<", p.input) \o Redirection(">", p.output)

UnparseTask_Spaced(task) ==
  Joined([n \in DOMAIN task |-> UnparsePipeline(task[n])], <<Space>>)

UnparseTask(task) ==
  Joined([n \in DOMAIN task |-> UnparsePipeline(task[n])], <<Space, ";", Space>>)

-----------------------------------------------------------------------------
(* The grammar of task.h, by splitting a text instead of reading it.       *)

\* the parts of a sequence between the elements of S
Split(s, S) ==
  LET upto[n \in 0..Len(s)] ==
        IF n = 0 THEN << <<>> >>
        ELSE IF s[n] \in S THEN Append(upto[n - 1], <<>>)
        ELSE Append(Front(upto[n - 1]), Append(Last(upto[n - 1]), s[n]))
  IN upto[Len(s)]

\* a sequence without the elements of S
Without(s, S) ==
  LET upto[n \in 0..Len(s)] ==
        IF n = 0 THEN <<>>
        ELSE IF s[n] \in S THEN upto[n - 1]
        ELSE Append(upto[n - 1], s[n])
  IN upto[Len(s)]

WordsIn(s) == Without(Split(s, {Space} \cup Delimiters), {<<>>})

\* the redirections that follow a pipeline, as <<sign, words>>
Redirections(s) ==
  LET signs == Without(s, ToSet(s) \ {"<", ">"})
      parts == Split(s, {"<", ">"})
  IN [n \in DOMAIN signs |-> <<signs[n], WordsIn(parts[n + 1]), parts[n + 1]>>]

WordsOfEach(parts) == [n \in DOMAIN parts |-> WordsIn(parts[n])]
Commands(s) == WordsOfEach(Split(Split(s, {"<", ">"})[1], {"|"}))

PathNamed(named) == IF named = <<>> THEN NoPath ELSE Path(named[1][2][1])
PathOf(s, sign) ==
  LET all == Redirections(s) IN PathNamed(Without(all, {r \in ToSet(all) : r[1] # sign}))

\* "one or both of an input redirection and an output redirection, either order permitted"
AreRedirections(all) ==
  /\ \A n \in DOMAIN all : Len(all[n][2]) = 1 /\ ~Contains(all[n][3], "|")
  /\ \A m, n \in DOMAIN all : all[m][1] = all[n][1] => m = n

\* "a sequence of one or more" pipelines, commands and words
IsPipeline(s) == <<>> \notin ToSet(Commands(s)) /\ AreRedirections(Redirections(s))
IsTask(s) == \A part \in ToSet(Split(s, {";"})) : IsPipeline(part)

PipelineOf(s) ==
  [commands |-> Commands(s), input |-> PathOf(s, "<"), output |-> PathOf(s, ">")]
PipelinesOf(parts) == [n \in DOMAIN parts |-> PipelineOf(parts[n])]
TaskOf(s) == PipelinesOf(Split(s, {";"}))

WordsOfTask(task) ==
  FlattenSeq([n \in DOMAIN task |->
    FlattenSeq(task[n].commands)
      \o Without(<<Tail(task[n].input), Tail(task[n].output)>>, {<<>>})])

=============================================================================
