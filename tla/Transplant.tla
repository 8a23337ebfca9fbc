----------------------------- MODULE Transplant ------------------------------
(***************************************************************************)
(* hw1: "transplant -s" writes a tree of files and directories as a        *)
(* sequence of records, and "transplant -d", at the other end of a pipe,   *)
(* makes the tree anew (src/hw1/src/transplant.c).                         *)
(*                                                                         *)
(* A tree maps paths, sequences of names, to Dir or to the data of a file; *)
(* 0 is an empty file and <<>> the directory given with -p.  A record is   *)
(* its header and, of two types, the bytes after it: they are separate     *)
(* units of the stream because deserialize_file reads the header of a      *)
(* record it cannot use and leaves the bytes.  The bytes of a name or of a *)
(* file do not begin with the magic sequence.  Everything in the source    *)
(* can be read, and nothing there changes meanwhile.                       *)
(***************************************************************************)
EXTENDS Naturals, Sequences, SequencesExt

CONSTANTS
  Dir,      \* the contents of a directory
  Names,    \* what an entry of a directory can be called
  NoName,   \* in a unit that holds no name
  Sources,  \* the trees to be copied
  Targets   \* what may be there before; a tree without <<>> when nothing is

\* files and directories are in directories
IsTree(tree) ==
  /\ tree = [p \in DOMAIN tree |-> tree[p]] /\ DOMAIN tree \subseteq Seq(Names)
  /\ \A p \in DOMAIN tree \ {<<>>} : Front(p) \in DOMAIN tree /\ tree[Front(p)] = Dir

ASSUME TreesAssumption ==
  /\ NoName \notin Names
  /\ \A tree \in Sources \cup Targets : IsTree(tree)
  /\ \A tree \in Sources : <<>> \in DOMAIN tree /\ tree[<<>>] = Dir

VARIABLES
  source,   \* the tree that is written
  clobber,  \* option -c of the reader
  sent,     \* the units written so far
  open,     \* the writer's open directories [at, todo], the innermost last
  taken,    \* how many units the reader has read
  reader,   \* "begin", "records" (deserialize_directory), "file"
            \* (deserialize_file) or "done"
  depth,    \* the depth the reader expects
  path,     \* its path_buf
  target,   \* the tree it makes
  before    \* what was there before (history)

writer == <<source, sent, open>>
vars == <<writer, clobber, taken, reader, depth, path, target, before>>

-----------------------------------------------------------------------------
(* Writing: serialize, serialize_directory, serialize_file.                *)

Header(type, d) == [type |-> type, depth |-> d, name |-> NoName, data |-> 0]
Bytes(name, data) == [type |-> "bytes", depth |-> 0, name |-> name, data |-> data]

Inside(tree, p) ==
  {Last(q) : q \in {r \in DOMAIN tree : r # <<>> /\ Front(r) = p}}

Opened(p) == [at |-> p, todo |-> Inside(source, p)]
Here == Last(open)

StartTransmission ==
  /\ sent = <<>>
  /\ sent' = <<Header("START_OF_TRANSMISSION", 0), Header("START_OF_DIRECTORY", 1)>>
  /\ open' = <<Opened(<<>>)>>
  /\ UNCHANGED source

\* the records of a file; an empty one has none
FileData(d, data) ==
  IF data = 0 THEN <<>> ELSE <<Header("FILE_DATA", d), Bytes(NoName, data)>>

Directory_SameDepth(d) == <<Header("START_OF_DIRECTORY", d)>>
Directory(d) == <<Header("START_OF_DIRECTORY", d + 1)>>

\* one turn of the loop; readdir returns the names in any order.  What follows the
\* header of an entry says whether it is a directory, and what it is called.
Entry(name) ==
  /\ open # <<>> /\ name \in Here.todo
  /\ LET p == Append(Here.at, name)
         d == Len(open)
         rest == [open EXCEPT ![d].todo = @ \ {name}]
         entry(data) == <<Header("DIRECTORY_ENTRY", d), Bytes(name, data)>>
     IN \/ /\ source[p] = Dir
           /\ sent' = sent \o entry(Dir) \o Directory(d)
           /\ open' = Append(rest, Opened(p))
        \/ /\ source[p] # Dir
           /\ sent' = sent \o entry(0) \o FileData(d, source[p])
           /\ open' = rest
  /\ UNCHANGED source

EndDirectory ==
  /\ open # <<>> /\ Here.todo = {}
  /\ sent' = Append(sent, Header("END_OF_DIRECTORY", Len(open)))
             \o IF Len(open) = 1 THEN <<Header("END_OF_TRANSMISSION", 0)>> ELSE <<>>
  /\ open' = Front(open)
  /\ UNCHANGED source

Written == sent # <<>> /\ open = <<>>

-----------------------------------------------------------------------------
(* Reading: deserialize, deserialize_directory, deserialize_file.          *)

\* the reader waits for a unit, or notices the end of the stream
Ready == taken < Len(sent) \/ Written
AtEnd == taken = Len(sent)
Unit == sent[taken + 1]

\* a header of the expected depth comes next
Comes(type, d) == ~AtEnd /\ Unit.type = type /\ Unit.depth = d

Exists(p) == p \in DOMAIN target
IsDir(p) == Exists(p) /\ target[p] = Dir
CanMake(p) == p = <<>> \/ IsDir(Front(p))
Put(tree, p, contents) ==
  [q \in DOMAIN tree \cup {p} |-> IF q = p THEN contents ELSE tree[q]]

\* mkdir, whose result is ignored
Mkdir(p) == IF CanMake(p) /\ ~Exists(p) THEN Put(target, p, Dir) ELSE target

Stops == reader' = "done" /\ UNCHANGED <<depth, path, target>>

\* deserialize
Begin ==
  /\ reader = "begin" /\ Len(sent) >= 2
  /\ taken' = 2
  /\ \/ /\ sent[1] = Header("START_OF_TRANSMISSION", 0)
        /\ sent[2] = Header("START_OF_DIRECTORY", 1)
        /\ target' = Mkdir(path)
        /\ reader' = "records"
        /\ UNCHANGED <<depth, path>>
     \/ /\ \/ sent[1] # Header("START_OF_TRANSMISSION", 0)
           \/ sent[2] # Header("START_OF_DIRECTORY", 1)
        /\ Stops

\* A record in deserialize_directory.  At the end of a directory the function calls
\* itself before it takes the name of the directory off path_buf, which is then
\* done when the stream has been read.
ReadEntry ==
  /\ reader = "records" /\ Comes("DIRECTORY_ENTRY", depth)
  /\ taken + 1 < Len(sent)
  /\ taken' = taken + 2
  /\ path' = Append(path, sent[taken + 2].name)
  /\ reader' = "file"
  /\ UNCHANGED <<depth, target>>

ReadStart ==
  /\ reader = "records" /\ Comes("START_OF_DIRECTORY", depth)
  /\ taken' = taken + 1
  /\ UNCHANGED <<reader, depth, path, target>>

ReadEnd ==
  /\ reader = "records" /\ Comes("END_OF_DIRECTORY", depth)
  /\ taken' = taken + 1
  /\ depth' = depth - 1
  /\ UNCHANGED <<reader, path, target>>

\* no header, the wrong depth, or a type it does not expect: it returns
ReadOther ==
  /\ reader = "records" /\ Ready
  /\ \A type \in {"DIRECTORY_ENTRY", "START_OF_DIRECTORY", "END_OF_DIRECTORY"} :
       ~Comes(type, depth)
  /\ taken' = IF AtEnd THEN taken ELSE taken + 1
  /\ Stops

\* deserialize_file fails, and deserialize_directory takes the entry for a directory
NotAFile ==
  /\ target' = Mkdir(path)
  /\ depth' = depth + 1
  /\ reader' = "records"
  /\ UNCHANGED path

Kept_Never == FALSE
Kept == Exists(path) /\ ~clobber

FileExists ==
  /\ reader = "file" /\ Kept
  /\ NotAFile
  /\ UNCHANGED taken

CanWrite == CanMake(path) /\ ~IsDir(path)

Popped_Not(p) == p
Popped_All(p) == <<>>
Popped(p) == Front(p)

ReadFile ==
  /\ reader = "file" /\ ~Kept /\ Comes("FILE_DATA", depth) /\ CanWrite
  /\ taken + 1 < Len(sent)
  /\ taken' = taken + 2
  /\ target' = Put(target, path, sent[taken + 2].data)
  /\ path' = Popped(path)
  /\ reader' = "records"
  /\ UNCHANGED depth

\* the header has been read
ReadNoFile ==
  /\ reader = "file" /\ ~Kept /\ Ready
  /\ ~Comes("FILE_DATA", depth) \/ ~CanWrite
  /\ taken' = IF AtEnd THEN taken ELSE taken + 1
  /\ NotAFile

Init ==
  /\ source \in Sources
  /\ clobber \in BOOLEAN
  /\ sent = <<>> /\ open = <<>>
  /\ taken = 0 /\ reader = "begin" /\ depth = 1 /\ path = <<>>
  /\ target \in Targets
  /\ before = target

ReadNext ==
  \/ Begin \/ ReadEntry \/ ReadStart \/ ReadEnd \/ ReadOther
  \/ FileExists \/ ReadFile \/ ReadNoFile

Next ==
  \/ /\ \/ StartTransmission \/ EndDirectory
        \/ open # <<>> /\ \E name \in Here.todo : Entry(name)
     /\ UNCHANGED <<clobber, taken, reader, depth, path, target, before>>
  \/ ReadNext /\ UNCHANGED <<writer, clobber, before>>

Spec == Init /\ [][Next]_vars

-----------------------------------------------------------------------------
(* Properties.                                                             *)

\* what include/transplant.h says of a stream: which tree it stands for, and that
\* the depths fit
Nothing ==
  [at |-> <<>>, entry |-> <<>>, tree |-> [p \in {<<>>} |-> Dir], fits |-> TRUE]

Decode(so_far, unit) ==
  LET at == so_far.at
      fits(d) == so_far.fits /\ unit.depth = d
  IN CASE unit.type = "DIRECTORY_ENTRY" -> [so_far EXCEPT !.fits = fits(Len(at) + 1)]
       [] unit.type = "bytes" /\ unit.name # NoName ->
            LET p == Append(at, unit.name) IN
            [so_far EXCEPT !.entry = p, !.tree = Put(@, p, unit.data)]
       [] unit.type = "FILE_DATA" -> [so_far EXCEPT !.fits = fits(Len(at) + 1)]
       [] unit.type = "bytes" /\ unit.name = NoName ->
            [so_far EXCEPT !.tree = Put(@, so_far.entry, unit.data)]
       [] unit.type = "START_OF_DIRECTORY" ->
            [so_far EXCEPT !.at = so_far.entry, !.fits = fits(Len(so_far.entry) + 1)]
       [] unit.type = "END_OF_DIRECTORY" ->
            [so_far EXCEPT !.at = IF at = <<>> THEN at ELSE Front(at),
                           !.fits = fits(Len(at) + 1)]
       [] OTHER -> [so_far EXCEPT !.fits = fits(0)]

\* of each number of units, what they stand for
Decoded(stream) ==
  LET upto[n \in 0..Len(stream)] ==
        IF n = 0 THEN Nothing ELSE Decode(upto[n - 1], stream[n])
  IN upto

\* Whatever the order of readdir, the stream describes the tree that was given,
\* each file under its path and with its data, and the depths of its records are
\* those include/transplant.h asks for.
StreamDescribes ==
  Written =>
    LET decoded == Decoded(sent)[Len(sent)]
    IN decoded.fits /\ decoded.tree = source

\* a file where there is a directory, or a file or directory where there is a
\* file that is not to be overwritten
Conflict ==
  \E p \in DOMAIN source \cap DOMAIN before :
    IF source[p] = Dir THEN before[p] # Dir ELSE before[p] = Dir \/ ~clobber

\* among the first n units, an entry follows the end of a directory
ComesBack(n) ==
  \E k \in 1..n - 1 :
    sent[k].type = "END_OF_DIRECTORY" /\ sent[k + 1].type = "DIRECTORY_ENTRY"

HasEmptyFile == \E p \in DOMAIN source : source[p] = 0

AllCopied == \A p \in DOMAIN source : Exists(p) /\ target[p] = source[p]

\* A tree without empty files, of which no directory is followed by another entry,
\* is copied: all that is made is in the source, under its path, and when the
\* reader is done nothing is missing.
Copied ==
  ~Conflict /\ ~HasEmptyFile /\ ~ComesBack(taken) =>
    /\ \A p \in DOMAIN target :
         \/ p \in DOMAIN source /\ target[p] = source[p]
         \/ p \in DOMAIN before /\ target[p] = before[p]
    /\ reader = "done" => AllCopied

\* Without -c no step changes a file or a directory that there is, wherever the
\* reader may have lost its way.
NothingOverwritten ==
  [][~clobber => \A p \in DOMAIN target :
                   p \in DOMAIN target' /\ target'[p] = target[p]]_vars

TypeOK ==
  /\ source \in Sources /\ clobber \in BOOLEAN
  /\ taken \in 0..Len(sent)
  /\ reader \in {"begin", "records", "file", "done"}
  /\ depth \in Nat
  /\ reader = "file" => path # <<>>
  /\ reader = "records" => depth <= Len(path) + 1
  /\ \A p \in DOMAIN target \ {<<>>} : IsDir(Front(p))

-----------------------------------------------------------------------------
(* What the documentation says and the code does not do.                   *)

\* transplant.c:522: serialize emits "a sequence of bytes from which the tree can be
\* reconstructed", and (553) deserialize "reconstructs the tree within the specified
\* directory": nothing of the source is missing when the reader is done.
Reconstructs == reader = "done" /\ ~Conflict => AllCopied

=============================================================================
