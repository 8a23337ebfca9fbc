----------------------------- MODULE RoloStore ------------------------------
(***************************************************************************)
(* The files of the rolodex of hw2 and the sessions that use them          *)
(* (src/hw2/src/rolo.c, with the top level of options.c and the reading    *)
(* and writing of io.c): the lock file, the creation of a missing rolodex, *)
(* the save that replaces it, and the ways a session can end.              *)
(*                                                                         *)
(* A session is a run of the program by somebody with the same home        *)
(* directory.  Each system call on a file is a step.  A file is a name for *)
(* an inode, so that a writer goes on writing to the file it has opened    *)
(* when somebody renames it.  The contents of a file are the edits made to *)
(* it; what an entry looks like and the order of entries is left out.      *)
(*                                                                         *)
(* An operator named Op_Fault is a faulty variant of Op, used only to show *)
(* that a property of the module notices the fault.                        *)
(***************************************************************************)
EXTENDS Naturals, FiniteSets

CONSTANTS
  Sessions,  \* users of one rolodex
  Edits,     \* bound: the edits made, all in all
  Inodes,    \* bound: the inodes there are
  None,      \* no inode
  Modes,     \* the ways the program is called: "edit", "nolock", "read"
  Events,    \* what may happen besides: "eof", "crash", "full", "denied", "unread",
             \* "nomenu"
  Interrupts \* the places at which a SIGINT may come

Places == {"off", "find", "create", "check", "lock", "catch", "temp", "read", "menu",
           "open_temp", "open_copy", "write_temp", "write_copy", "backup",
           "replace", "exit", "left", "flush"}

ASSUME StoreAssumption ==
  /\ None \notin Inodes
  /\ Inodes \subseteq Nat
  /\ Modes \subseteq {"edit", "nolock", "read"}
  /\ Interrupts \subseteq Places

Names == {"data", "temp", "copy", "bak"}
Streams == {"temp", "copy"}

VARIABLES
  dir,        \* dir[n]: the inode named n, or None
  disk,       \* disk[i]: the contents of inode i
  lock,       \* the lock file exists
  pc,         \* pc[s]: place of session s, "off" when it does not run
  mode,       \* mode[s]: how it was called
  rololocked, \* rololocked[s]
  changed,    \* changed[s]
  leaving,    \* leaving[s]: it leaves once it has saved
  core,       \* core[s]: the rolodex in memory
  stream,     \* stream[s][n]: the inode fopen(n, "w") gave to the session
  made,       \* the edits made so far
  base,       \* base[s]: what the session last read or wrote (history)
  saved,      \* the contents last reported as saved (history)
  mishap,     \* what has happened to the rolodex since then: "none", one was "created"
              \* where there was none, and has "displaced" the backup, or one that was
              \* there is "emptied" (history)
  abandoned   \* a session that had locked is gone and did not unlock (history)

files == <<dir, disk>>
locking == <<lock, abandoned>>
memory == <<mode, rololocked, changed, leaving, core, stream>>
history == <<made, base, saved, mishap>>
vars == <<files, locking, pc, memory, history>>

Running(s) == pc[s] # "off"
Goto(s, loc) == pc' = [pc EXCEPT ![s] = loc]
Exists(n) == dir[n] # None
Contents(n) == IF Exists(n) THEN disk[dir[n]] ELSE {}

\* an inode that no name and no stream refers to
Free ==
  Inodes \ ({dir[n] : n \in Names} \cup {stream[s][n] : s \in Sessions, n \in Streams})

\* open(2) with O_TRUNC and O_CREAT, the inode becoming held
Truncate(n, held) ==
  \/ /\ Exists(n)
     /\ disk' = [disk EXCEPT ![dir[n]] = {}]
     /\ held = dir[n]
     /\ UNCHANGED dir
  \/ /\ ~Exists(n)
     /\ held \in Free /\ \A i \in Free : held <= i
     /\ disk' = [disk EXCEPT ![held] = {}]
     /\ dir' = [dir EXCEPT ![n] = held]

Opens(s, n) ==
  \E i \in Inodes :
    Truncate(n, i) /\ stream' = [stream EXCEPT ![s][n] = i]

Rename(from, to) == dir' = [dir EXCEPT ![to] = dir[from], ![from] = None]

\* it has locked and has not unlocked since, but perhaps for the end of its input
Owner(s) == rololocked[s] /\ pc[s] \notin {"flush", "left"}

\* the lock file is removed, if that is asked for
Unlocks(asked) == lock' = (lock /\ ~asked) /\ abandoned' = (abandoned /\ ~asked)

\* the process of s is gone
Gone(s) ==
  /\ Goto(s, "off")
  /\ rololocked' = [rololocked EXCEPT ![s] = FALSE]
  /\ changed' = [changed EXCEPT ![s] = FALSE]
  /\ leaving' = [leaving EXCEPT ![s] = FALSE]
  /\ core' = [core EXCEPT ![s] = {}]
  /\ stream' = [stream EXCEPT ![s] = [n \in Streams |-> None]]
  /\ base' = [base EXCEPT ![s] = {}]
  /\ UNCHANGED <<mode, made, saved, mishap>>

\* by exit(3) where it has no lock any more or has none yet
Ends(s) == Gone(s) /\ UNCHANGED locking

\* or wherever it was, a lock file it has being left
Dies(s) ==
  /\ Gone(s)
  /\ lock' = lock /\ abandoned' = (abandoned \/ (lock /\ Owner(s)))

-----------------------------------------------------------------------------
(* Starting: rolo_main.                                                    *)

Start(s, how) ==
  /\ ~Running(s)
  /\ Goto(s, "find")
  /\ mode' = [mode EXCEPT ![s] = how]
  /\ UNCHANGED <<files, locking, rololocked, changed, leaving, core, stream, history>>

\* is there a rolodex?
Find(s) ==
  /\ pc[s] = "find"
  /\ Goto(s, IF Exists("data") THEN "check" ELSE "create")
  /\ UNCHANGED <<files, locking, memory, history>>

\* creat(2) does not ask again
Create(s) ==
  /\ pc[s] = "create"
  /\ \E i \in Inodes : Truncate("data", i)
  /\ mishap' = IF Exists("data") THEN "emptied"
               ELSE IF mishap = "none" THEN "created" ELSE mishap
  /\ Goto(s, "check")
  /\ UNCHANGED <<locking, memory, made, base, saved>>

\* is it in use?  It may be, to one who only reads.
Check(s) ==
  /\ pc[s] = "check"
  /\ \/ lock /\ mode[s] # "read" /\ Ends(s)
     \/ /\ ~lock \/ mode[s] = "read"
        /\ Goto(s, [edit |-> "lock", nolock |-> "temp", read |-> "read"][mode[s]])
        /\ UNCHANGED <<locking, memory, history>>
  /\ UNCHANGED files

Locks(s) ==
  /\ lock' = TRUE
  /\ rololocked' = [rololocked EXCEPT ![s] = TRUE]
  /\ Goto(s, "catch")
  /\ UNCHANGED <<abandoned, mode, changed, leaving, core, stream, history>>

Lock_NotExclusive(s) == pc[s] = "lock" /\ Locks(s) /\ UNCHANGED files

\* open(2) with O_EXCL and O_CREAT
Lock(s) ==
  /\ pc[s] = "lock"
  /\ \/ (lock \/ "denied" \in Events) /\ Ends(s)
     \/ ~lock /\ Locks(s)
  /\ UNCHANGED files

\* signal(2): from here on user_interrupt is the handler of SIGINT
Catch(s) ==
  /\ pc[s] = "catch"
  /\ Goto(s, "temp")
  /\ UNCHANGED <<files, locking, memory, history>>

\* can the session write here?
TryTemp(s) ==
  /\ pc[s] = "temp"
  /\ \E i \in Inodes : Truncate("temp", i)
  /\ Goto(s, "read")
  /\ UNCHANGED <<locking, memory, history>>

\* open and read_rolodex; a rolodex found out of order is saved at once
Read(s) ==
  /\ pc[s] = "read"
  /\ \/ ~Exists("data") /\ Goto(s, "exit") /\ UNCHANGED <<core, base>>
     \/ /\ Exists("data")
        /\ core' = [core EXCEPT ![s] = Contents("data")]
        /\ base' = [base EXCEPT ![s] = Contents("data")]
        /\ \/ mode[s] = "read" /\ Goto(s, "exit")
           \/ mode[s] # "read" /\ (Goto(s, "menu") \/ Goto(s, "open_temp"))
  /\ UNCHANGED <<files, locking, mode, rololocked, changed, leaving, stream, made,
                 saved, mishap>>

\* read_rolodex gets less than there was, and exits past roloexit
ReadFails(s) ==
  /\ "unread" \in Events
  /\ pc[s] = "read"
  /\ Dies(s)
  /\ UNCHANGED files

-----------------------------------------------------------------------------
(* The menu: interactive_rolo.                                             *)

Edit(s, e) ==
  /\ pc[s] = "menu" /\ e \notin made
  /\ core' = [core EXCEPT ![s] = @ \cup {e}]
  /\ changed' = [changed EXCEPT ![s] = TRUE]
  /\ made' = made \cup {e}
  /\ UNCHANGED <<files, locking, pc, mode, rololocked, leaving, stream, base, saved,
                 mishap>>

Save(s) ==
  /\ pc[s] = "menu" /\ changed[s]
  /\ Goto(s, "open_temp")
  /\ UNCHANGED <<files, locking, memory, history>>

SaveAndExit(s) ==
  /\ Goto(s, IF changed[s] THEN "open_temp" ELSE "exit")
  /\ leaving' = [leaving EXCEPT ![s] = TRUE]
  /\ UNCHANGED <<files, mode, rololocked, changed, core, stream, history>>

Exit(s) == pc[s] = "menu" /\ SaveAndExit(s) /\ UNCHANGED locking

\* user_eof removes the lock file before it saves
Eof(s) ==
  /\ "eof" \in Events
  /\ pc[s] = "menu"
  /\ Unlocks(TRUE)
  /\ SaveAndExit(s)

\* the text of the menu cannot be read, for which cathelpfile exits past roloexit
MenuFails(s) ==
  /\ "nomenu" \in Events
  /\ pc[s] = "menu"
  /\ Dies(s)
  /\ UNCHANGED files

-----------------------------------------------------------------------------
(* Saving: save_to_disk.                                                   *)

OpenTemp(s) ==
  /\ pc[s] = "open_temp"
  /\ Opens(s, "temp")
  /\ Goto(s, "open_copy")
  /\ UNCHANGED <<locking, mode, rololocked, changed, leaving, core, history>>

\* both are tried before either is tested
OpenCopy(s) ==
  /\ pc[s] = "open_copy"
  /\ Opens(s, "copy")
  /\ Goto(s, IF stream[s]["temp"] = None THEN "exit" ELSE "write_temp")
  /\ UNCHANGED <<locking, mode, rololocked, changed, leaving, core, history>>

\* a file cannot be opened, or not be created
OpenFails(s) ==
  /\ "denied" \in Events
  /\ pc[s] \in {"find", "create", "temp", "read", "open_temp", "open_copy"}
  /\ Goto(s, IF pc[s] = "open_temp" THEN "open_copy" ELSE "exit")
  /\ UNCHANGED <<files, locking, memory, history>>

\* nobody looks whether all of it could be written
Writes(s, n) ==
  /\ \E c \in {core[s]} \cup IF "full" \in Events THEN SUBSET core[s] ELSE {} :
       disk' = [disk EXCEPT ![stream[s][n]] = c]
  /\ stream' = [stream EXCEPT ![s][n] = None]
  /\ UNCHANGED <<dir, locking, mode, rololocked, changed, leaving, core, history>>

WriteTemp(s) ==
  pc[s] = "write_temp" /\ Writes(s, "temp") /\ Goto(s, "write_copy")

WriteCopy(s) ==
  pc[s] = "write_copy" /\ Writes(s, "copy") /\ Goto(s, "backup")

Backup_Linked(s) ==
  /\ pc[s] = "backup"
  /\ dir' = [dir EXCEPT !["bak"] = dir["data"]]
  /\ Goto(s, "replace")
  /\ UNCHANGED <<disk, locking, memory, history>>

Backup_Forgotten(s) ==
  /\ pc[s] = "backup"
  /\ dir' = [dir EXCEPT !["data"] = None]
  /\ Goto(s, "replace")
  /\ UNCHANGED <<disk, locking, memory, history>>

Backup(s) ==
  /\ pc[s] = "backup"
  /\ \/ ~Exists("data") /\ Goto(s, "exit") /\ UNCHANGED dir
     \/ Exists("data") /\ Rename("data", "bak") /\ Goto(s, "replace")
  /\ mishap' = IF Exists("data") /\ mishap = "created" THEN "displaced" ELSE mishap
  /\ UNCHANGED <<disk, locking, memory, made, base, saved>>

Replace(s) ==
  /\ pc[s] = "replace"
  /\ \/ /\ ~Exists("temp") /\ Goto(s, "exit")
        /\ UNCHANGED <<dir, changed, base, saved, mishap>>
     \/ /\ Exists("temp") /\ Rename("temp", "data")
        /\ Goto(s, IF leaving[s] THEN "exit" ELSE "menu")
        /\ changed' = [changed EXCEPT ![s] = FALSE]
        /\ base' = [base EXCEPT ![s] = core[s]]
        /\ saved' = core[s]
        /\ mishap' = "none"
  /\ UNCHANGED <<disk, locking, mode, rololocked, leaving, core, stream, made>>

-----------------------------------------------------------------------------
(* Leaving.                                                                *)

Unlinks(s) == Goto(s, "left") /\ UNCHANGED <<files, memory, history>>

Roloexit_KeepsLock(s) == pc[s] = "exit" /\ Unlinks(s) /\ UNCHANGED locking

\* the unlink(2), with the handler of SIGINT in place
Roloexit(s) == pc[s] = "exit" /\ Unlocks(rololocked[s]) /\ Unlinks(s)

\* and the exit(3)
Leave(s) == pc[s] = "left" /\ Ends(s) /\ UNCHANGED files

\* user_interrupt, the handler of a session that has set it.  Another just ends.
Interrupt(s) ==
  /\ Running(s) /\ pc[s] \in Interrupts \ {"flush"}
  /\ \/ /\ rololocked[s] /\ pc[s] # "catch"
        /\ Unlocks(TRUE)
        /\ stream' = IF pc[s] \in {"write_temp", "write_copy"} THEN stream
                     ELSE [stream EXCEPT ![s] = [n \in Streams |-> None]]
        /\ Goto(s, "flush")
        /\ UNCHANGED <<mode, rololocked, changed, leaving, core, history>>
     \/ (~rololocked[s] \/ pc[s] = "catch") /\ Dies(s)
  /\ UNCHANGED files

\* its exit(3) writes what the streams still hold over what is in the files
Flush(s) ==
  /\ pc[s] = "flush"
  /\ \E part \in SUBSET Edits :
       disk' = [i \in Inodes |-> IF \E n \in Streams : stream[s][n] = i
                                THEN part \cap (disk[i] \cup core[s])
                                ELSE disk[i]]
  /\ Ends(s)
  /\ UNCHANGED dir

Crash(s) ==
  /\ "crash" \in Events
  /\ Running(s)
  /\ Dies(s)
  /\ UNCHANGED files

\* "it is probably safe to remove the lock file" (helplib/lockinfo)
RemoveLock ==
  /\ lock /\ \A s \in Sessions : ~Running(s)
  /\ Unlocks(TRUE)
  /\ UNCHANGED <<files, pc, memory, history>>

Init ==
  /\ dir = [n \in Names |-> None]
  /\ disk = [i \in Inodes |-> {}]
  /\ lock = FALSE
  /\ pc = [s \in Sessions |-> "off"]
  /\ mode = [s \in Sessions |-> "read"]
  /\ rololocked = [s \in Sessions |-> FALSE]
  /\ changed = rololocked /\ leaving = rololocked
  /\ core = [s \in Sessions |-> {}]
  /\ stream = [s \in Sessions |-> [n \in Streams |-> None]]
  /\ made = {} /\ saved = {}
  /\ base = core
  /\ mishap = "none" /\ abandoned = FALSE

Next ==
  \/ \E s \in Sessions :
       \/ \E how \in Modes : Start(s, how)
       \/ Find(s) \/ Create(s) \/ Check(s) \/ Lock(s) \/ Catch(s) \/ TryTemp(s)
       \/ Read(s) \/ ReadFails(s)
       \/ \E e \in Edits : Edit(s, e)
       \/ Save(s) \/ Exit(s) \/ Eof(s) \/ MenuFails(s)
       \/ OpenTemp(s) \/ OpenCopy(s) \/ OpenFails(s)
       \/ WriteTemp(s) \/ WriteCopy(s) \/ Backup(s) \/ Replace(s)
       \/ Roloexit(s) \/ Leave(s) \/ Interrupt(s) \/ Flush(s) \/ Crash(s)
  \/ RemoveLock

Spec == Init /\ [][Next]_vars

-----------------------------------------------------------------------------
(* Properties.                                                             *)

TypeOK ==
  /\ dir \in [Names -> Inodes \cup {None}]
  /\ \A m, n \in Names : Exists(m) /\ dir[m] = dir[n] => m = n
  /\ disk \in [Inodes -> SUBSET Edits]
  /\ lock \in BOOLEAN
  /\ pc \in [Sessions -> Places]
  /\ mode \in [Sessions -> {"edit", "nolock", "read"}]
  /\ rololocked \in [Sessions -> BOOLEAN]
  /\ changed \in [Sessions -> BOOLEAN]
  /\ leaving \in [Sessions -> BOOLEAN]
  /\ core \in [Sessions -> SUBSET Edits]
  /\ stream \in [Sessions -> [Streams -> Inodes \cup {None}]]
  /\ made \subseteq Edits
  /\ base \in [Sessions -> SUBSET Edits]
  /\ saved \subseteq Edits
  /\ mishap \in {"none", "created", "emptied", "displaced"}
  /\ abandoned \in BOOLEAN

\* Two sessions that lock never have the lock at a time, and while one has it the lock
\* file exists: nobody removes it but its owner, though each of them may crash or fail
\* anywhere, be interrupted anywhere but behind its last unlink, and a lock file that was
\* left is removed by hand.  One that meets the end of its input is another matter.
OneOwner ==
  \A s, t \in Sessions : Owner(s) => lock /\ (Owner(t) => s = t)

\* A lock file is there only while a session has it that is still to remove it, or
\* because one has gone that did not: through a crash, a read that failed, a menu that
\* cannot be read or a SIGINT before its handler is set, and through no other way out.
LockIsHeld == lock /\ ~abandoned => \E s \in Sessions : Owner(s)

\* No lost update: a session that has the lock and has read the rolodex still has what
\* is on disk under its edits, whatever other sessions read or wrote, and wherever they
\* crashed or were interrupted, but in the writing of a save; unless somebody who found
\* no rolodex has emptied the one that came to be there meanwhile.
UpToDate ==
  \A s \in Sessions :
    rololocked[s] /\ mishap # "emptied" =>
      /\ pc[s] \in {"menu", "open_temp", "open_copy", "write_temp", "write_copy",
                    "backup"} => Contents("data") = base[s]
      /\ pc[s] = "replace" => Contents("bak") = base[s] /\ Contents("temp") = core[s]

OnDisk(c) == \E n \in {"data", "copy", "bak"} : Exists(n) /\ Contents(n) = c

\* What was last reported as saved is whole on disk, wherever sessions crash or are
\* interrupted (but in the writing), the gap between the two renames included; until
\* one who found no rolodex there empties it, or backs up the new one over it.
SavedUnlessLost ==
  saved = {} \/ mishap \in {"emptied", "displaced"} \/ OnDisk(saved)

-----------------------------------------------------------------------------
(* What the documentation says and the code does not do.                   *)

\* rolo.c:54: the old rolodex, the new one and a copy of it are kept "just for
\* safety", so what was reported as saved is always in one of the files.
SavedIsOnDisk == saved = {} \/ OnDisk(saved)

\* rolo.c:290: interrupts are caught so that the lock file can be removed, so when
\* nobody runs the program (and none has crashed) there is none.
NoStaleLock == lock => \E s \in Sessions : Running(s)

=============================================================================
