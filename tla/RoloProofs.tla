----------------------------- MODULE RoloProofs -----------------------------
(* Proofs about module RoloStore, for any sessions, edits and inodes.      *)
EXTENDS RoloStore, TLAPS

(***************************************************************************)
(* OneOwner is not inductive: removing a stale lock file is harmless only  *)
(* because a session that has ended owns no lock.                          *)
(***************************************************************************)
OwnerInv ==
  /\ lock \in BOOLEAN
  /\ pc \in [Sessions -> Places]
  /\ rololocked \in [Sessions -> BOOLEAN]
  /\ mode \in [Sessions -> {"edit", "nolock", "read"}]
  /\ OneOwner
  /\ \A s \in Sessions : rololocked[s] => Running(s)

\* A session that is over leaves the owners among the others as they were.
LEMMA EndsOwner ==
  ASSUME OwnerInv, NEW s \in Sessions, Gone(s), lock' = lock
  PROVE  OwnerInv'
BY DEF OwnerInv, OneOwner, Owner, Gone, Goto, Running, Places

\* Nobody becomes an owner in a step that leaves the lock alone and goes on.
LEMMA WorkOwner ==
  ASSUME OwnerInv, NEW s \in Sessions, NEW l \in Places, l # "off",
         Goto(s, l) \/ (UNCHANGED pc), pc[s] \notin {"flush", "left"},
         UNCHANGED <<lock, rololocked>>,
         mode' \in [Sessions -> {"edit", "nolock", "read"}]
  PROVE  OwnerInv'
BY DEF OwnerInv, OneOwner, Owner, Goto, Running, Places

\* Whoever removes the lock file is its owner, or it locks nobody out any more.
LEMMA UnlocksOwner ==
  ASSUME OwnerInv, NEW s \in Sessions, NEW l \in {"flush", "left"}, Goto(s, l),
         pc[s] \notin {"off", "flush", "left"},
         lock' = FALSE => rololocked[s] \/ ~lock, lock' \in BOOLEAN,
         UNCHANGED <<rololocked, mode>>
  PROVE  OwnerInv'
<1>1. \A t \in Sessions : pc'[t] = IF t = s THEN l ELSE pc[t]
  BY DEF OwnerInv, Goto
<1>2. pc' \in [Sessions -> Places]
  BY DEF OwnerInv, Goto, Places
<1>3. ASSUME NEW t \in Sessions, Owner(t)'
      PROVE  t # s /\ Owner(t) /\ lock'
  <2>1. t # s /\ Owner(t)
    BY <1>1, <1>3 DEF Owner
  <2>2. lock /\ ~Owner(s)
    BY <2>1 DEF OwnerInv, OneOwner
  <2>3. ~rololocked[s]
    BY <2>2 DEF Owner
  <2> QED BY <2>1, <2>2, <2>3
<1>4. OneOwner'
  BY <1>3 DEF OneOwner, OwnerInv
<1> QED BY <1>1, <1>2, <1>4 DEF OwnerInv, Running

\* No step of a session that does not run out of input, nor is interrupted behind its
\* unlink, gives the lock a second owner or takes it from its owner.
LEMMA OwnerStep ==
  ASSUME "eof" \notin Events, "left" \notin Interrupts, OwnerInv, [Next]_vars
  PROVE  OwnerInv'
<1>1. CASE UNCHANGED vars
  BY <1>1 DEF vars, memory, locking, OwnerInv, OneOwner, Owner, Running
<1>2. CASE RemoveLock
  BY <1>2 DEF RemoveLock, Unlocks, memory, OwnerInv, OneOwner, Owner, Running
<1>3. ASSUME NEW s \in Sessions, NEW how \in Modes, Start(s, how)
      PROVE  OwnerInv'
  BY <1>3, StoreAssumption, WorkOwner DEF Start, Running, Places, locking, OwnerInv
<1>4. ASSUME NEW s \in Sessions, Lock(s)
      PROVE  OwnerInv'
  <2>1. CASE Ends(s)
    BY <2>1, EndsOwner DEF Ends, locking
  <2>2. CASE ~lock /\ Locks(s)
    BY <1>4, <2>2 DEF Lock, Locks, OwnerInv, OneOwner, Owner, Goto, Running, Places
  <2> QED BY <1>4, <2>1, <2>2 DEF Lock
<1>5. ASSUME NEW s \in Sessions, Check(s)
      PROVE  OwnerInv'
  <2>1. CASE Ends(s)
    BY <2>1, EndsOwner DEF Ends, locking
  <2>2. CASE ~Ends(s)
    <3>1. mode[s] \in {"edit", "nolock", "read"}
      BY DEF OwnerInv
    <3>2. PICK l \in {"lock", "temp", "read"} : Goto(s, l)
      BY <1>5, <2>2, <3>1 DEF Check
    <3> QED BY <1>5, <2>2, <3>2, WorkOwner DEF Check, Places, memory, locking, OwnerInv
  <2> QED BY <2>1, <2>2
<1>6. ASSUME NEW s \in Sessions,
             Leave(s) \/ Crash(s) \/ Flush(s) \/ ReadFails(s) \/ MenuFails(s)
      PROVE  OwnerInv'
  BY <1>6, EndsOwner DEF Leave, Crash, Flush, ReadFails, MenuFails, Ends, Dies, locking
<1>7. ASSUME NEW s \in Sessions,
             Find(s) \/ Create(s) \/ Catch(s) \/ TryTemp(s) \/ Read(s)
      PROVE  OwnerInv'
  BY <1>7, WorkOwner
  DEF Find, Create, Catch, TryTemp, Read, Places, memory, locking, OwnerInv
<1>8. ASSUME NEW s \in Sessions,
             Save(s) \/ Exit(s) \/ (\E e \in Edits : Edit(s, e))
      PROVE  OwnerInv'
  BY <1>8, WorkOwner DEF Save, Exit, SaveAndExit, Edit, Places, memory, locking, OwnerInv
<1>9. ASSUME NEW s \in Sessions, OpenTemp(s) \/ OpenCopy(s) \/ OpenFails(s)
      PROVE  OwnerInv'
  BY <1>9, WorkOwner DEF OpenTemp, OpenCopy, OpenFails, Places, memory, locking, OwnerInv
<1>10. ASSUME NEW s \in Sessions,
              WriteTemp(s) \/ WriteCopy(s) \/ Backup(s) \/ Replace(s)
       PROVE  OwnerInv'
  BY <1>10, WorkOwner
  DEF WriteTemp, WriteCopy, Writes, Backup, Replace, Places, memory, locking, OwnerInv
<1>11. ASSUME NEW s \in Sessions, Roloexit(s)
       PROVE  OwnerInv'
  <2>1. /\ pc[s] = "exit" /\ Goto(s, "left") /\ UNCHANGED <<rololocked, mode>>
        /\ lock' = (lock /\ ~rololocked[s])
    BY <1>11 DEF Roloexit, Unlocks, Unlinks, memory
  <2>2. lock \in BOOLEAN /\ rololocked[s] \in BOOLEAN
    BY DEF OwnerInv
  <2>3. lock' \in BOOLEAN /\ (lock' = FALSE => rololocked[s] \/ ~lock)
    BY <2>1, <2>2
  <2> QED BY <2>1, <2>3, UnlocksOwner
<1>12. ASSUME NEW s \in Sessions, Interrupt(s)
       PROVE  OwnerInv'
  <2>1. CASE Dies(s)
    BY <2>1, EndsOwner DEF Dies
  <2>2. CASE ~Dies(s)
    <3>1. /\ rololocked[s] /\ Goto(s, "flush") /\ UNCHANGED <<rololocked, mode>>
          /\ lock' = (lock /\ ~TRUE)
      BY <1>12, <2>2 DEF Interrupt, Unlocks
    <3>2. pc[s] \notin {"off", "flush", "left"}
      BY <1>12 DEF Interrupt, Running
    <3>3. lock' = FALSE
      BY <3>1
    <3> QED BY <3>1, <3>2, <3>3, UnlocksOwner
  <2> QED BY <2>1, <2>2
<1> QED
  BY <1>1, <1>2, <1>3, <1>4, <1>5, <1>6, <1>7, <1>8, <1>9, <1>10, <1>11, <1>12
  DEF Next, Eof

\* Mutual exclusion: while no session meets the end of its input, or a SIGINT between
\* its last unlink and its end, at most one of them is owner of the lock file, which
\* exists as long; a stale one is only removed when its owner is gone.
THEOREM RoloOneOwner ==
  ASSUME "eof" \notin Events, "left" \notin Interrupts
  PROVE  Spec => []OneOwner
<1>1. Init => OwnerInv
  BY DEF Init, OwnerInv, OneOwner, Owner, Places
<1>2. OwnerInv /\ [Next]_vars => OwnerInv'
  BY OwnerStep
<1>3. OwnerInv => OneOwner
  BY DEF OwnerInv
<1> QED BY <1>1, <1>2, <1>3, PTL DEF Spec

-----------------------------------------------------------------------------
(***************************************************************************)
(* UpToDate needs to know what is in every file at every place of a save,  *)
(* which streams are open where, and that only the owner of the lock gets  *)
(* to the places that write.  Creating a rolodex where there is one is the *)
(* one step of others that changes it.                                     *)
(***************************************************************************)

\* the places only an owner of the lock gets to
OwnerPlaces == {"catch", "temp", "menu", "open_temp", "open_copy", "write_temp", "write_copy",
                "backup", "replace"}

StoreTyped ==
  /\ dir \in [Names -> Inodes \cup {None}]
  /\ \A m, n \in Names : Exists(m) /\ dir[m] = dir[n] => m = n
  /\ disk \in [Inodes -> SUBSET Edits]
  /\ mode \in [Sessions -> {"edit", "read"}]
  /\ core \in [Sessions -> SUBSET Edits]
  /\ base \in [Sessions -> SUBSET Edits]
  /\ stream \in [Sessions -> [Streams -> Inodes \cup {None}]]

NoStream(s) == \A n \in Streams : stream[s][n] = None
Fresh(s) == Contents("data") = base[s]
HasTemp(s) == Exists("temp") /\ disk[dir["temp"]] = core[s]

\* what is on disk for session s at each place
Synced(s) ==
  /\ pc[s] \in OwnerPlaces => rololocked[s]
  /\ pc[s] = "read" /\ mode[s] = "edit" => rololocked[s]
  /\ pc[s] \notin {"open_copy", "write_temp", "write_copy", "exit", "left"} => NoStream(s)
  /\ pc[s] = "open_copy" => stream[s]["temp"] \in {None, dir["temp"]}
  /\ pc[s] = "write_temp" => Exists("temp") /\ stream[s]["temp"] = dir["temp"]
  /\ pc[s] = "write_copy" => stream[s]["temp"] = None
  /\ pc[s] \in {"write_temp", "write_copy"} =>
       Exists("copy") /\ stream[s]["copy"] = dir["copy"]
  /\ pc[s] \in {"write_copy", "backup", "replace"} => HasTemp(s)
  /\ mishap # "emptied" =>
       /\ pc[s] \in OwnerPlaces \ {"catch", "temp", "replace"} => Fresh(s)
       /\ pc[s] = "replace" => Contents("bak") = base[s]

SyncInv == OwnerInv /\ StoreTyped /\ \A s \in Sessions : Synced(s)

\* The sessions that run while s owns the lock are no owners.
LEMMA OthersSynced ==
  ASSUME SyncInv, NEW s \in Sessions, Owner(s), NEW t \in Sessions, t # s,
         pc'[t] = pc[t], mode'[t] = mode[t], rololocked'[t] = rololocked[t],
         stream'[t] = stream[t]
  PROVE  Synced(t)'
<1>1. ~Owner(t) /\ Synced(t)
  BY DEF SyncInv, OwnerInv, OneOwner
<1> QED BY <1>1 DEF Synced, Owner, OwnerPlaces, NoStream

\* Nor does a step that leaves the files alone disturb the others.
LEMMA FilesSynced ==
  ASSUME NEW t \in Sessions, Synced(t), UNCHANGED <<files, mishap>>,
         pc'[t] = pc[t], mode'[t] = mode[t], rololocked'[t] = rololocked[t],
         stream'[t] = stream[t], core'[t] = core[t], base'[t] = base[t]
  PROVE  Synced(t)'
BY DEF Synced, NoStream, Fresh, HasTemp, Contents, Exists, files

LEMMA EndsSynced ==
  ASSUME SyncInv, NEW s \in Sessions, Gone(s), UNCHANGED files
  PROVE  StoreTyped' /\ \A t \in Sessions : Synced(t)'
<1>1. StoreTyped'
  BY DEF SyncInv, StoreTyped, Gone, files, Exists
<1>2. Synced(s)'
  BY DEF SyncInv, StoreTyped, OwnerInv, Gone, Goto, Synced, OwnerPlaces, NoStream
<1>3. ASSUME NEW t \in Sessions, t # s
      PROVE  Synced(t)'
  BY <1>3, FilesSynced DEF SyncInv, StoreTyped, OwnerInv, Gone, Goto
<1> QED BY <1>1, <1>2, <1>3

\* What truncating a file leaves alone, and what names it.
LEMMA TruncateFiles ==
  ASSUME StoreTyped, NEW n \in Names, NEW i \in Inodes, Truncate(n, i)
  PROVE  /\ dir' \in [Names -> Inodes \cup {None}]
         /\ \A k, m \in Names : Exists(m)' /\ dir'[m] = dir'[k] => m = k
         /\ disk' \in [Inodes -> SUBSET Edits]
         /\ Exists(n)' /\ dir'[n] = i
         /\ \A m \in Names \ {n} :
              /\ dir'[m] = dir[m]
              /\ Exists(m) => disk'[dir[m]] = disk[dir[m]]
              /\ Contents(m)' = Contents(m)
<1> USE StoreAssumption
<1>1. CASE Exists(n)
  BY <1>1 DEF Truncate, StoreTyped, Exists, Contents, Free
<1>2. CASE ~Exists(n)
  <2>1. i \in Free /\ disk' = [disk EXCEPT ![i] = {}] /\ dir' = [dir EXCEPT ![n] = i]
    BY <1>2 DEF Truncate
  <2>2. \A m \in Names : dir[m] # i
    BY <2>1 DEF Free
  <2> QED BY <1>2, <2>1, <2>2 DEF StoreTyped, Exists, Contents
<1> QED BY <1>1, <1>2

\* A step of s that leaves files and history alone, and takes s to a place where
\* nothing more is asked of it.
LEMMA MoveSynced ==
  ASSUME SyncInv, NEW s \in Sessions, NEW l \in Places, Goto(s, l),
         UNCHANGED <<files, rololocked, core, stream, base, mishap>>,
         mode' \in [Sessions -> {"edit", "read"}],
         \A t \in Sessions \ {s} : mode'[t] = mode[t],
         Synced(s)'
  PROVE  StoreTyped' /\ \A t \in Sessions : Synced(t)'
<1>1. StoreTyped'
  BY DEF SyncInv, StoreTyped, files, Exists
<1>2. ASSUME NEW t \in Sessions, t # s
      PROVE  Synced(t)'
  BY <1>2, FilesSynced DEF SyncInv, OwnerInv, Goto
<1> QED BY <1>1, <1>2

\* What the module's properties are proved of: sessions that lock or only read, do not
\* meet the end of their input, have room for what they write, and are not interrupted
\* at it or behind their last unlink.
Careful ==
  /\ "nolock" \notin Modes
  /\ "eof" \notin Events /\ "full" \notin Events
  /\ Interrupts \cap {"write_temp", "write_copy", "left"} = {}

\* Starting, and looking around.
LEMMA StartSynced ==
  ASSUME Careful, SyncInv, OwnerInv', NEW s \in Sessions,
         \/ \E how \in Modes : Start(s, how)
         \/ Find(s) \/ Check(s) \/ Lock(s) \/ Catch(s)
  PROVE  SyncInv'
<1>1. ASSUME NEW how \in Modes, Start(s, how)
      PROVE  SyncInv'
  <2>1. Goto(s, "find") /\ "find" \in Places /\ pc[s] = "off" /\ pc'[s] = "find"
    BY <1>1 DEF Start, Places, Running, Goto, SyncInv, OwnerInv
  <2>2. mode' \in [Sessions -> {"edit", "read"}]
    BY <1>1, StoreAssumption DEF Start, SyncInv, StoreTyped, Careful
  <2>3. Synced(s)'
    BY <1>1, <2>1 DEF Start, SyncInv, Synced, NoStream, OwnerPlaces
  <2> QED
    BY <1>1, <2>1, <2>2, <2>3, MoveSynced DEF Start, SyncInv, StoreTyped, history
<1>2. CASE Find(s)
  <2>1. PICK l \in {"check", "create"} : Goto(s, l)
    BY <1>2 DEF Find
  <2>2. pc[s] = "find" /\ pc'[s] = l /\ l \in Places
    BY <1>2, <2>1 DEF Find, Goto, SyncInv, OwnerInv, Places
  <2>3. Synced(s)'
    BY <1>2, <2>2 DEF Find, SyncInv, Synced, NoStream, OwnerPlaces, memory
  <2> QED
    BY <1>2, <2>1, <2>2, <2>3, MoveSynced DEF Find, SyncInv, StoreTyped, history, memory
<1>3. CASE Check(s)
  <2>1. CASE Ends(s)
    BY <1>3, <2>1, EndsSynced DEF Check, SyncInv, Ends
  <2>2. CASE ~Ends(s)
    <3>1. mode[s] \in {"edit", "read"} /\ pc \in [Sessions -> Places]
      BY DEF SyncInv, StoreTyped, OwnerInv
    <3>2. /\ UNCHANGED <<files, memory, history>>
          /\ Goto(s, IF mode[s] = "edit" THEN "lock" ELSE "read")
      BY <1>3, <2>2, <3>1 DEF Check
    <3>3. PICK l \in {"lock", "read"} : Goto(s, l) /\ (l = "lock" <=> mode[s] = "edit")
      BY <3>2
    <3>4. pc[s] = "check" /\ pc'[s] = l /\ l \in Places
      BY <1>3, <3>1, <3>3 DEF Check, Goto, Places
    <3>5. Synced(s)'
      BY <3>2, <3>3, <3>4 DEF SyncInv, Synced, NoStream, OwnerPlaces, memory
    <3> QED
      BY <3>2, <3>3, <3>4, <3>5, MoveSynced DEF SyncInv, StoreTyped, history, memory
  <2> QED BY <2>1, <2>2
<1>4. CASE Lock(s)
  <2>1. CASE Ends(s)
    BY <1>4, <2>1, EndsSynced DEF Lock, SyncInv, Ends
  <2>2. CASE Locks(s)
    <3>1. /\ rololocked' = [rololocked EXCEPT ![s] = TRUE]
          /\ Goto(s, "catch") /\ pc[s] = "lock" /\ pc'[s] = "catch"
          /\ UNCHANGED <<files, mode, core, stream, mishap, base>>
      BY <1>4, <2>2 DEF Lock, Locks, Goto, SyncInv, OwnerInv, history
    <3>2. StoreTyped'
      BY <3>1 DEF SyncInv, StoreTyped, files, Exists
    <3>3. Synced(s)'
      BY <3>1 DEF SyncInv, Synced, NoStream, OwnerPlaces, OwnerInv
    <3>4. ASSUME NEW t \in Sessions, t # s
          PROVE  Synced(t)'
      BY <3>1, <3>4, FilesSynced DEF SyncInv, OwnerInv, Goto
    <3> QED BY <3>2, <3>3, <3>4 DEF SyncInv
  <2> QED BY <1>4, <2>1, <2>2 DEF Lock
<1>5. CASE Catch(s)
  <2>1. Goto(s, "temp") /\ pc[s] = "catch" /\ pc'[s] = "temp" /\ "temp" \in Places
    BY <1>5 DEF Catch, Goto, SyncInv, OwnerInv, Places
  <2>2. Synced(s)'
    BY <1>5, <2>1 DEF Catch, SyncInv, Synced, NoStream, OwnerPlaces, memory
  <2> QED
    BY <1>5, <2>1, <2>2, MoveSynced DEF Catch, SyncInv, StoreTyped, history, memory
<1> QED BY <1>1, <1>2, <1>3, <1>4, <1>5

\* Creating a rolodex where there is none leaves what it is taken for; one that is there
\* is emptied.  .rolotemp and the backup are other files.
LEMMA CreateSynced ==
  ASSUME SyncInv, OwnerInv', NEW s \in Sessions, Create(s)
  PROVE  SyncInv'
<1>1. PICK i \in Inodes : Truncate("data", i)
  BY DEF Create
<1>2. /\ Exists("data") => mishap' = "emptied"
      /\ mishap = "emptied" => mishap' = "emptied"
      /\ UNCHANGED <<memory, base>>
      /\ pc[s] = "create" /\ Goto(s, "check") /\ pc'[s] = "check"
  BY DEF Create, Goto, SyncInv, OwnerInv
<1>3. /\ dir'["temp"] = dir["temp"] /\ dir'["copy"] = dir["copy"]
      /\ Exists("temp") => disk'[dir["temp"]] = disk[dir["temp"]]
      /\ Contents("bak")' = Contents("bak")
      /\ Exists("data")' /\ dir'["data"] = i
  BY <1>1, TruncateFiles DEF Names, SyncInv
<1>4. StoreTyped'
  BY <1>1, <1>2, TruncateFiles DEF Names, SyncInv, StoreTyped, memory
<1>5. mishap' # "emptied" => Contents("data")' = Contents("data")
  <2> SUFFICES ASSUME ~Exists("data") PROVE Contents("data")' = Contents("data")
    BY <1>2
  <2>1. disk'[i] = {}
    BY <1>1 DEF Truncate, SyncInv, StoreTyped
  <2> QED BY <1>3, <2>1 DEF Contents
<1>6. ASSUME NEW t \in Sessions
      PROVE  Synced(t)'
  <2>1. pc'[t] = IF t = s THEN "check" ELSE pc[t]
    BY <1>2 DEF Goto, SyncInv, OwnerInv
  <2>2. Synced(t) /\ mode' = mode /\ rololocked' = rololocked /\ stream' = stream
        /\ core' = core /\ base' = base
    BY <1>2 DEF SyncInv, memory
  <2>3. HasTemp(t) => HasTemp(t)'
    BY <1>3, <2>2 DEF HasTemp, Exists
  <2>4. mishap' # "emptied" => mishap # "emptied" /\ (Fresh(t) => Fresh(t)')
    BY <1>2, <1>5, <2>2 DEF Fresh
  <2>5. NoStream(t) => NoStream(t)'
    BY <2>2 DEF NoStream
  <2>6. CASE t = s
    BY <1>2, <2>1, <2>2, <2>5, <2>6 DEF Synced, OwnerPlaces
  <2>7. CASE t # s
    BY <1>2, <1>3, <2>1, <2>2, <2>3, <2>4, <2>5, <2>7 DEF Synced, Exists
  <2> QED BY <2>6, <2>7
<1> QED BY <1>4, <1>6 DEF SyncInv

\* A step of an owner: the others have no claim on the files.
LEMMA OwnerSynced ==
  ASSUME SyncInv, OwnerInv', NEW s \in Sessions, rololocked[s],
         pc[s] \notin {"flush", "left"}, StoreTyped', Synced(s)',
         \A t \in Sessions \ {s} :
           /\ pc'[t] = pc[t] /\ mode'[t] = mode[t] /\ rololocked'[t] = rololocked[t]
           /\ stream'[t] = stream[t]
  PROVE  SyncInv'
<1>1. ASSUME NEW t \in Sessions, t # s
      PROVE  Synced(t)'
  BY <1>1, OthersSynced DEF Owner
<1> QED BY <1>1 DEF SyncInv

\* Trying and opening the files to write.
LEMMA OpenSynced ==
  ASSUME SyncInv, OwnerInv', NEW s \in Sessions, TryTemp(s) \/ OpenTemp(s) \/ OpenCopy(s)
  PROVE  SyncInv'
<1>0. PICK n \in Names : n = IF pc[s] = "open_copy" THEN "copy" ELSE "temp"
  BY DEF Names
<1>1. /\ rololocked[s] /\ Synced(s) /\ StoreTyped
      /\ pc[s] \in {"temp", "open_temp", "open_copy"}
      /\ pc \in [Sessions -> Places]
      /\ UNCHANGED <<mode, rololocked, core, base, mishap>>
  BY DEF SyncInv, OwnerInv, Synced, OwnerPlaces, TryTemp, OpenTemp, OpenCopy, Names,
         memory, history
<1>2. PICK i \in Inodes :
        /\ Truncate(n, i)
        /\ stream' = IF pc[s] = "temp" THEN stream ELSE [stream EXCEPT ![s][n] = i]
  BY <1>0, <1>1 DEF TryTemp, OpenTemp, OpenCopy, Opens, memory
<1>3. /\ Exists(n)' /\ dir'[n] = i
      /\ \A m \in Names \ {n} :
           /\ dir'[m] = dir[m]
           /\ Exists(m) => disk'[dir[m]] = disk[dir[m]]
           /\ Contents(m)' = Contents(m)
  BY <1>1, <1>2, TruncateFiles
<1>4. StoreTyped'
  <2>1. stream' \in [Sessions -> [Streams -> Inodes \cup {None}]]
    BY <1>0, <1>1, <1>2 DEF StoreTyped, Streams
  <2> QED BY <1>1, <1>2, <2>1, TruncateFiles DEF StoreTyped
<1>5. pc' = [pc EXCEPT ![s] = IF pc[s] = "temp" THEN "read"
                             ELSE IF pc[s] = "open_temp" THEN "open_copy"
                             ELSE IF stream[s]["temp"] = None THEN "exit"
                             ELSE "write_temp"]
  BY <1>1 DEF TryTemp, OpenTemp, OpenCopy, Goto
<1>6. /\ "data" \in Names \ {n}
      /\ pc[s] = "open_copy" => "temp" \in Names \ {n}
  BY <1>0 DEF Names
<1>7. Fresh(s) => Fresh(s)'
  BY <1>1, <1>3, <1>6 DEF Fresh
<1>8. Synced(s)'
  <2>1. CASE pc[s] = "temp"
    BY <1>1, <1>2, <1>5, <2>1 DEF Synced, OwnerPlaces, NoStream
  <2>2. CASE pc[s] = "open_temp"
    <3>1. pc'[s] = "open_copy" /\ stream'[s]["temp"] = dir'["temp"]
      BY <1>0, <1>1, <1>2, <1>3, <1>5, <2>2 DEF StoreTyped, Streams
    <3> QED BY <1>1, <1>7, <2>2, <3>1 DEF Synced, OwnerPlaces
  <2>3. CASE pc[s] = "open_copy"
    <3>1. /\ stream'[s]["temp"] = stream[s]["temp"]
          /\ stream'[s]["copy"] = dir'["copy"] /\ Exists("copy")'
          /\ dir'["temp"] = dir["temp"]
      BY <1>0, <1>1, <1>2, <1>3, <1>6, <2>3 DEF StoreTyped, Streams
    <3>2. CASE stream[s]["temp"] = None
      BY <1>1, <1>5, <2>3, <3>2 DEF Synced, OwnerPlaces
    <3>3. CASE stream[s]["temp"] # None
      BY <1>1, <1>5, <1>7, <2>3, <3>1, <3>3 DEF Synced, OwnerPlaces, Exists
    <3> QED BY <3>2, <3>3
  <2> QED BY <1>1, <2>1, <2>2, <2>3
<1>9. \A t \in Sessions \ {s} : pc'[t] = pc[t] /\ stream'[t] = stream[t]
  BY <1>1, <1>2, <1>5 DEF StoreTyped
<1> QED BY <1>1, <1>4, <1>8, <1>9, OwnerSynced

\* Reading the rolodex, the menu, and a file that is refused: a step that leaves
\* the files alone and changes what s has in memory.
LEMMA MemorySynced ==
  ASSUME SyncInv, OwnerInv', NEW s \in Sessions,
         UNCHANGED <<files, mode, rololocked, stream, mishap>>,
         StoreTyped', Synced(s)',
         \A t \in Sessions \ {s} :
           pc'[t] = pc[t] /\ core'[t] = core[t] /\ base'[t] = base[t]
  PROVE  SyncInv'
<1>1. ASSUME NEW t \in Sessions, t # s
      PROVE  Synced(t)'
  BY <1>1, FilesSynced DEF SyncInv
<1> QED BY <1>1 DEF SyncInv

LEMMA ReadSynced ==
  ASSUME SyncInv, OwnerInv', NEW s \in Sessions, Read(s)
  PROVE  SyncInv'
<1>1. /\ Synced(s) /\ StoreTyped /\ pc \in [Sessions -> Places] /\ pc[s] = "read"
      /\ UNCHANGED <<files, mode, rololocked, stream, mishap>>
  BY DEF SyncInv, OwnerInv, Read
<1>2. CASE ~Exists("data") \/ mode[s] = "read"
  <2>1. /\ pc' = [pc EXCEPT ![s] = "exit"]
        /\ \/ UNCHANGED <<core, base>>
           \/ /\ core' = [core EXCEPT ![s] = Contents("data")]
              /\ base' = [base EXCEPT ![s] = Contents("data")]
    BY <1>2 DEF Read, Goto
  <2>2. Contents("data") \in SUBSET Edits
    BY <1>1 DEF Contents, Exists, StoreTyped, Names
  <2>3. StoreTyped'
    BY <1>1, <2>1, <2>2 DEF StoreTyped, files, Exists
  <2>4. Synced(s)'
    BY <1>1, <2>1 DEF Synced, OwnerPlaces
  <2> QED
    BY <1>1, <2>1, <2>3, <2>4, MemorySynced DEF StoreTyped
<1>3. CASE Exists("data") /\ mode[s] # "read"
  <2>1. PICK l \in {"menu", "open_temp"} : pc' = [pc EXCEPT ![s] = l]
    BY <1>3 DEF Read, Goto
  <2>2. /\ core' = [core EXCEPT ![s] = Contents("data")]
        /\ base' = [base EXCEPT ![s] = Contents("data")]
    BY <1>3 DEF Read
  <2>3. Contents("data") \in SUBSET Edits
    BY <1>1 DEF Contents, Exists, StoreTyped, Names
  <2>4. StoreTyped'
    BY <1>1, <2>2, <2>3 DEF StoreTyped, files, Exists
  <2>5. base'[s] = Contents("data")' /\ rololocked'[s]
    BY <1>1, <1>3, <2>2 DEF StoreTyped, Synced, Contents, Exists, files
  <2>6. Synced(s)'
    BY <1>1, <2>1, <2>5 DEF Synced, OwnerPlaces, NoStream, Fresh
  <2> QED
    BY <1>1, <2>1, <2>2, <2>4, <2>6, MemorySynced DEF StoreTyped
<1> QED BY <1>2, <1>3

LEMMA MenuSynced ==
  ASSUME SyncInv, OwnerInv', NEW s \in Sessions,
         Save(s) \/ Exit(s) \/ OpenFails(s) \/ \E e \in Edits : Edit(s, e)
  PROVE  SyncInv'
<1>1. /\ Synced(s) /\ StoreTyped /\ pc \in [Sessions -> Places]
      /\ UNCHANGED <<files, mode, rololocked, stream, mishap, base>>
  BY DEF SyncInv, OwnerInv, Save, Exit, SaveAndExit, OpenFails, Edit, memory, history
<1>2. CASE \E e \in Edits : Edit(s, e)
  <2>1. PICK e \in Edits : Edit(s, e)
    BY <1>2
  <2>2. /\ core' = [core EXCEPT ![s] = @ \cup {e}] /\ pc[s] = "menu" /\ UNCHANGED pc
    BY <2>1 DEF Edit
  <2>3. StoreTyped'
    BY <1>1, <2>2 DEF StoreTyped, files, Exists
  <2>4. Synced(s)'
    BY <1>1, <2>2 DEF Synced, OwnerPlaces, NoStream, Fresh, Contents, Exists, files
  <2> QED BY <1>1, <2>2, <2>3, <2>4, MemorySynced DEF StoreTyped
<1>3. CASE ~(\E e \in Edits : Edit(s, e))
  <2>1. UNCHANGED core
    BY <1>3 DEF Save, Exit, SaveAndExit, OpenFails, memory
  <2>2. PICK l \in {"open_temp", "open_copy", "exit"} :
          /\ pc' = [pc EXCEPT ![s] = l]
          /\ l = "open_temp" => pc[s] = "menu"
          /\ l = "open_copy" => pc[s] = "open_temp"
    BY <1>3 DEF Save, Exit, SaveAndExit, OpenFails, Goto
  <2>3. StoreTyped'
    BY <1>1, <2>1 DEF StoreTyped, files, Exists
  <2>4. Synced(s)'
    BY <1>1, <2>1, <2>2
    DEF Synced, OwnerPlaces, NoStream, Fresh, Contents, Exists, files, Streams
  <2> QED BY <1>1, <2>1, <2>2, <2>3, <2>4, MemorySynced
<1> QED BY <1>2, <1>3

\* Writing the two files, of which neither is the rolodex.
LEMMA WriteSynced ==
  ASSUME Careful, SyncInv, OwnerInv', NEW s \in Sessions, WriteTemp(s) \/ WriteCopy(s)
  PROVE  SyncInv'
<1>1. /\ Synced(s) /\ StoreTyped /\ pc \in [Sessions -> Places]
      /\ pc[s] \in {"write_temp", "write_copy"} /\ rololocked[s]
      /\ UNCHANGED <<dir, mode, rololocked, core, base, mishap>>
  BY DEF SyncInv, OwnerInv, Synced, OwnerPlaces, WriteTemp, WriteCopy, Writes, history
<1>2. PICK n \in Streams : n = IF pc[s] = "write_temp" THEN "temp" ELSE "copy"
  BY DEF Streams
<1>3. /\ disk' = [disk EXCEPT ![stream[s][n]] = core[s]]
      /\ stream' = [stream EXCEPT ![s][n] = None]
      /\ pc' = [pc EXCEPT ![s] = IF n = "temp" THEN "write_copy" ELSE "backup"]
  BY <1>1, <1>2 DEF WriteTemp, WriteCopy, Writes, Careful, Goto
<1>4. /\ Exists(n) /\ stream[s][n] = dir[n] /\ dir[n] \in Inodes
      /\ n \in Names /\ n # "data"
  BY <1>1, <1>2 DEF Synced, Exists, StoreTyped, Names
<1>5. core[s] \in SUBSET Edits
  BY <1>1 DEF StoreTyped
<1>6. StoreTyped'
  BY <1>1, <1>3, <1>4, <1>5 DEF StoreTyped, Exists, Streams
<1>7. HasTemp(s)'
  <2>1. CASE n = "temp"
    BY <1>1, <1>3, <1>4, <2>1 DEF HasTemp, Exists, StoreTyped
  <2>2. CASE n = "copy"
    <3>1. HasTemp(s)
      BY <1>1, <1>2, <2>2 DEF Synced
    <3>2. dir["temp"] # dir["copy"]
      BY <1>1, <3>1 DEF HasTemp, StoreTyped, Names
    <3> QED BY <1>1, <1>3, <1>4, <2>2, <3>1, <3>2 DEF HasTemp, Exists, StoreTyped, Names
  <2> QED BY <2>1, <2>2 DEF Streams
<1>8. Fresh(s) => Fresh(s)'
  <2>1. Exists("data") => dir["data"] # dir[n]
    BY <1>1, <1>4 DEF StoreTyped, Names
  <2> QED
    BY <1>1, <1>3, <1>4, <2>1 DEF Fresh, Contents, Exists, StoreTyped, Names
<1>9. Synced(s)'
  <2>1. CASE n = "temp"
    <3>1. /\ Exists("copy")' /\ stream'[s]["copy"] = dir'["copy"]
          /\ stream'[s]["temp"] = None
      BY <1>1, <1>2, <1>3, <2>1 DEF Synced, StoreTyped, Exists, Streams
    <3> QED BY <1>1, <1>3, <1>7, <1>8, <2>1, <3>1, <1>2 DEF Synced, OwnerPlaces
  <2>2. CASE n = "copy"
    <3>1. NoStream(s)'
      BY <1>1, <1>2, <1>3, <2>2 DEF Synced, NoStream, StoreTyped, Streams
    <3> QED BY <1>1, <1>3, <1>7, <1>8, <2>2, <3>1, <1>2 DEF Synced, OwnerPlaces
  <2> QED BY <2>1, <2>2 DEF Streams
<1> QED BY <1>1, <1>3, <1>6, <1>9, OwnerSynced DEF StoreTyped

\* The two renames.
LEMMA RenameSynced ==
  ASSUME SyncInv, OwnerInv', NEW s \in Sessions, Backup(s) \/ Replace(s)
  PROVE  SyncInv'
<1>1. /\ Synced(s) /\ StoreTyped /\ pc \in [Sessions -> Places]
      /\ pc[s] \in {"backup", "replace"} /\ rololocked[s]
      /\ HasTemp(s)
      /\ UNCHANGED <<disk, mode, rololocked, core, stream>>
  BY DEF SyncInv, OwnerInv, Synced, OwnerPlaces, Backup, Replace, memory
<1>2. NoStream(s)
  BY <1>1 DEF Synced
<1>3. CASE Backup(s) /\ Exists("data")
  <2>1. /\ dir' = [dir EXCEPT !["bak"] = dir["data"], !["data"] = None]
        /\ pc[s] = "backup" /\ pc' = [pc EXCEPT ![s] = "replace"]
        /\ base' = base /\ (mishap' # "emptied" => mishap # "emptied")
    BY <1>3 DEF Backup, Rename, Goto
  <2>2. /\ dir'["temp"] = dir["temp"] /\ dir'["bak"] = dir["data"]
        /\ dir'["copy"] = dir["copy"] /\ dir'["data"] = None
    BY <1>1, <2>1 DEF StoreTyped, Names
  <2>3. StoreTyped'
    <3>1. dir' \in [Names -> Inodes \cup {None}]
      BY <1>1, <2>1 DEF StoreTyped, Names
    <3>2. \A m, n \in Names : Exists(m)' /\ dir'[m] = dir'[n] => m = n
      BY <1>1, <2>2 DEF StoreTyped, Names, Exists
    <3> QED BY <1>1, <2>1, <3>1, <3>2 DEF StoreTyped
  <2>4. Synced(s)'
    BY <1>1, <1>2, <1>3, <2>1, <2>2
    DEF Synced, OwnerPlaces, NoStream, HasTemp, Fresh, Contents, Exists
  <2> QED BY <1>1, <2>1, <2>3, <2>4, OwnerSynced
<1>4. CASE Replace(s)
  <2>1. /\ dir' = [dir EXCEPT !["data"] = dir["temp"], !["temp"] = None]
        /\ base' = [base EXCEPT ![s] = core[s]] /\ mishap' = "none"
    BY <1>1, <1>4 DEF Replace, Rename, HasTemp
  <2>2. PICK l \in {"exit", "menu"} : pc' = [pc EXCEPT ![s] = l]
    BY <1>1, <1>4 DEF Replace, HasTemp, Goto
  <2>3. /\ dir'["temp"] = None /\ dir'["bak"] = dir["bak"]
        /\ dir'["copy"] = dir["copy"] /\ dir'["data"] = dir["temp"]
    BY <1>1, <2>1 DEF StoreTyped, Names
  <2>4. StoreTyped'
    <3>1. dir' \in [Names -> Inodes \cup {None}]
      BY <1>1, <2>1 DEF StoreTyped, Names
    <3>2. \A m, n \in Names : Exists(m)' /\ dir'[m] = dir'[n] => m = n
      BY <1>1, <2>3 DEF StoreTyped, Names, Exists
    <3> QED BY <1>1, <2>1, <3>1, <3>2 DEF StoreTyped
  <2>5. Fresh(s)'
    BY <1>1, <2>1, <2>3 DEF Fresh, HasTemp, Contents, Exists, StoreTyped
  <2>6. Synced(s)'
    BY <1>1, <1>2, <2>1, <2>2, <2>5 DEF Synced, OwnerPlaces, NoStream
  <2> QED BY <1>1, <2>1, <2>2, <2>4, <2>6, OwnerSynced
<1>5. CASE Backup(s) /\ ~Exists("data")
  <2>1. /\ UNCHANGED <<dir, base, mishap>> /\ pc' = [pc EXCEPT ![s] = "exit"]
    BY <1>5 DEF Backup, Goto
  <2>2. StoreTyped'
    BY <1>1, <2>1 DEF StoreTyped, Exists
  <2>3. Synced(s)'
    BY <1>1, <1>2, <2>1 DEF Synced, OwnerPlaces, NoStream
  <2> QED BY <1>1, <2>1, <2>2, <2>3, OwnerSynced
<1> QED BY <1>3, <1>4, <1>5

\* Together: no step of careful sessions separates what an owner believes to be
\* on disk from what is.
LEMMA SyncStep ==
  ASSUME Careful, SyncInv, [Next]_vars
  PROVE  SyncInv'
<1>1. OwnerInv'
  BY OwnerStep DEF Careful, SyncInv
<1>2. CASE UNCHANGED vars
  BY <1>2, <1>1, FilesSynced
  DEF SyncInv, StoreTyped, vars, files, memory, history, Exists
<1>3. CASE RemoveLock
  BY <1>3, <1>1, FilesSynced
  DEF RemoveLock, SyncInv, StoreTyped, files, memory, history, Exists
<1>4. ASSUME NEW s \in Sessions,
             Leave(s) \/ Crash(s) \/ ReadFails(s) \/ MenuFails(s)
      PROVE  SyncInv'
  BY <1>1, <1>4, EndsSynced
  DEF Leave, Crash, ReadFails, MenuFails, SyncInv, Ends, Dies
<1>5. ASSUME NEW s \in Sessions, Flush(s)
      PROVE  SyncInv'
  <2>1. Synced(s) /\ pc[s] = "flush" /\ pc \in [Sessions -> Places]
    BY <1>5 DEF Flush, SyncInv, OwnerInv
  <2>2. UNCHANGED files
    <3>1. \A i \in Inodes : ~(\E n \in Streams : stream[s][n] = i)
      BY <2>1, StoreAssumption DEF Synced, NoStream
    <3>2. disk' = [i \in Inodes |-> disk[i]] /\ UNCHANGED dir
      BY <1>5, <3>1 DEF Flush
    <3> QED BY <3>2 DEF SyncInv, StoreTyped, files
  <2> QED BY <1>1, <1>5, <2>2, EndsSynced DEF Flush, SyncInv, Ends
<1>6. ASSUME NEW s \in Sessions, Roloexit(s)
      PROVE  SyncInv'
  <2>1. Goto(s, "left") /\ "left" \in Places /\ pc[s] = "exit" /\ pc'[s] = "left"
    BY <1>6 DEF Roloexit, Unlinks, Places, Goto, SyncInv, OwnerInv
  <2>2. Synced(s)'
    BY <1>6, <2>1 DEF Roloexit, Unlinks, SyncInv, Synced, OwnerPlaces, memory
  <2> QED
    BY <1>1, <1>6, <2>1, <2>2, MoveSynced
    DEF Roloexit, Unlinks, SyncInv, StoreTyped, history, memory
<1>7. ASSUME NEW s \in Sessions, Interrupt(s)
      PROVE  SyncInv'
  <2>1. CASE Dies(s)
    BY <1>1, <1>7, <2>1, EndsSynced DEF Interrupt, SyncInv, Dies
  <2>2. CASE ~Dies(s)
    <3>1. /\ Goto(s, "flush") /\ UNCHANGED <<files, mode, rololocked, core, history>>
          /\ rololocked[s] /\ pc[s] \notin {"write_temp", "write_copy", "left", "flush"}
          /\ stream' = [stream EXCEPT ![s] = [n \in Streams |-> None]]
      BY <1>7, <2>2 DEF Interrupt, Careful
    <3>2. pc'[s] = "flush" /\ \A t \in Sessions \ {s} : pc'[t] = pc[t]
      BY <3>1 DEF Goto, SyncInv, OwnerInv
    <3>3. StoreTyped'
      BY <3>1 DEF SyncInv, StoreTyped, files, history, Exists
    <3>4. NoStream(s)'
      BY <3>1 DEF SyncInv, StoreTyped, NoStream
    <3>5. Synced(s)'
      BY <3>2, <3>4 DEF Synced, OwnerPlaces
    <3>6. \A t \in Sessions \ {s} : stream'[t] = stream[t]
      BY <3>1 DEF SyncInv, StoreTyped
    <3> QED BY <1>1, <3>1, <3>2, <3>3, <3>5, <3>6, OwnerSynced
  <2> QED BY <2>1, <2>2
<1> QED
  BY <1>1, <1>2, <1>3, <1>4, <1>5, <1>6, <1>7, StartSynced, CreateSynced, OpenSynced,
     ReadSynced, MenuSynced, WriteSynced, RenameSynced
  DEF Next, Eof, Careful

LEMMA SyncInit == Init => SyncInv
<1> SUFFICES ASSUME Init PROVE SyncInv
  OBVIOUS
<1>1. OwnerInv
  BY DEF Init, OwnerInv, OneOwner, Owner, Places
<1>2. StoreTyped
  BY DEF Init, StoreTyped, Exists, Streams
<1>3. \A s \in Sessions : Synced(s)
  BY DEF Init, Synced, OwnerPlaces, NoStream
<1> QED BY <1>1, <1>2, <1>3 DEF SyncInv, Init

\* No lost update: with sessions that lock or only read, and that may crash or be refused
\* a file anywhere and be interrupted but in the writing of a save, the owner of the lock
\* always has under its edits what is on disk, unless somebody has emptied it.
THEOREM RoloUpToDate ==
  ASSUME Careful
  PROVE  Spec => []UpToDate
<1>1. Init => SyncInv
  BY SyncInit
<1>2. SyncInv /\ [Next]_vars => SyncInv'
  BY SyncStep
<1>3. SyncInv => UpToDate
  BY DEF SyncInv, UpToDate, Synced, OwnerPlaces, Fresh, HasTemp, Contents
<1> QED BY <1>1, <1>2, <1>3, PTL DEF Spec

-----------------------------------------------------------------------------
(***************************************************************************)
(* What was saved is under the name of the rolodex, or, between the two    *)
(* renames of a save and after a crash there, under that of the backup,    *)
(* which nobody overwrites before one that was created is backed up.       *)
(***************************************************************************)
Kept ==
  /\ mishap \in {"none", "created", "emptied", "displaced"}
  /\ \/ mishap \in {"emptied", "displaced"}
     \/ saved = {}
     \/ Exists("data") /\ disk[dir["data"]] = saved
     \/ /\ ~Exists("data") \/ mishap = "created"
        /\ Exists("bak") /\ disk[dir["bak"]] = saved

\* A step that leaves the two files alone keeps what was saved.
LEMMA ElsewhereKept ==
  ASSUME Kept, UNCHANGED <<saved, mishap>>,
         \A n \in {"data", "bak"} :
           dir'[n] = dir[n] /\ (Exists(n) => disk'[dir[n]] = disk[dir[n]])
  PROVE  Kept'
BY DEF Kept, Exists

LEMMA FilesKept ==
  ASSUME Kept, UNCHANGED <<files, saved, mishap>>
  PROVE  Kept'
BY DEF Kept, Exists, files

LEMMA OpenKept ==
  ASSUME SyncInv, Kept, NEW s \in Sessions, TryTemp(s) \/ OpenTemp(s) \/ OpenCopy(s)
  PROVE  Kept'
<1>1. UNCHANGED <<saved, mishap>> /\ StoreTyped
  BY DEF SyncInv, TryTemp, OpenTemp, OpenCopy, history
<1>2. PICK n \in {"temp", "copy"}, i \in Inodes : Truncate(n, i)
  BY DEF TryTemp, OpenTemp, OpenCopy, Opens
<1>3. \A m \in {"data", "bak"} :
        dir'[m] = dir[m] /\ (Exists(m) => disk'[dir[m]] = disk[dir[m]])
  BY <1>1, <1>2, TruncateFiles DEF Names
<1> QED BY <1>1, <1>3, ElsewhereKept

LEMMA WriteKept ==
  ASSUME SyncInv, Kept, NEW s \in Sessions, WriteTemp(s) \/ WriteCopy(s)
  PROVE  Kept'
<1>1. /\ Synced(s) /\ StoreTyped /\ pc[s] \in {"write_temp", "write_copy"}
      /\ UNCHANGED <<dir, saved, mishap>>
  BY DEF SyncInv, WriteTemp, WriteCopy, Writes, history
<1>2. PICK n \in Streams :
        /\ \E c : disk' = [disk EXCEPT ![stream[s][n]] = c]
        /\ n = IF pc[s] = "write_temp" THEN "temp" ELSE "copy"
  BY DEF WriteTemp, WriteCopy, Writes, Streams
<1>3. /\ Exists(n) /\ stream[s][n] = dir[n] /\ n \in Names /\ n \notin {"data", "bak"}
  BY <1>1, <1>2 DEF Synced, Exists, Names
<1>4. ASSUME NEW m \in {"data", "bak"}, Exists(m)
      PROVE  disk'[dir[m]] = disk[dir[m]]
  <2>1. dir[m] # dir[n] /\ dir[m] \in Inodes
    BY <1>1, <1>3, <1>4 DEF StoreTyped, Names, Exists
  <2> QED BY <1>1, <1>2, <1>3, <2>1 DEF StoreTyped
<1> QED BY <1>1, <1>4, ElsewhereKept

\* The two renames: the saved rolodex becomes the backup, then the new one is saved.
LEMMA RenameKept ==
  ASSUME SyncInv, Kept, NEW s \in Sessions, Backup(s) \/ Replace(s)
  PROVE  Kept'
<1>1. StoreTyped /\ pc[s] \in {"backup", "replace"} /\ HasTemp(s) /\ disk' = disk
  BY DEF SyncInv, Synced, Backup, Replace
<1>2. CASE Backup(s) /\ Exists("data")
  <2>1. /\ dir' = [dir EXCEPT !["bak"] = dir["data"], !["data"] = None]
        /\ saved' = saved /\ mishap' = IF mishap = "created" THEN "displaced" ELSE mishap
    BY <1>2 DEF Backup, Rename
  <2>2. dir'["bak"] = dir["data"] /\ dir'["data"] = None
    BY <1>1, <2>1 DEF StoreTyped, Names
  <2> QED BY <1>1, <1>2, <2>1, <2>2 DEF Kept, Exists
<1>3. CASE Backup(s) /\ ~Exists("data")
  BY <1>3, <1>1, FilesKept DEF Backup, files
<1>4. CASE Replace(s)
  <2>1. /\ dir' = [dir EXCEPT !["data"] = dir["temp"], !["temp"] = None]
        /\ saved' = core[s] /\ mishap' = "none"
    BY <1>1, <1>4 DEF Replace, Rename, HasTemp
  <2>2. dir'["data"] = dir["temp"]
    BY <1>1, <2>1 DEF StoreTyped, Names
  <2> QED BY <1>1, <2>1, <2>2 DEF Kept, HasTemp, Exists
<1> QED BY <1>2, <1>3, <1>4

LEMMA KeptStep ==
  ASSUME Careful, SyncInv, Kept, [Next]_vars
  PROVE  Kept'
<1>1. CASE UNCHANGED vars \/ RemoveLock
  BY <1>1, FilesKept DEF vars, RemoveLock, history
<1>2. ASSUME NEW s \in Sessions,
             Leave(s) \/ Crash(s) \/ ReadFails(s) \/ MenuFails(s) \/ Roloexit(s) \/ Interrupt(s)
      PROVE  Kept'
  BY <1>2, FilesKept
  DEF Leave, Crash, ReadFails, MenuFails, Roloexit, Unlinks, Interrupt, Ends, Dies, Gone,
      history
<1>3. ASSUME NEW s \in Sessions, Flush(s)
      PROVE  Kept'
  <2>1. pc[s] = "flush" /\ Synced(s) /\ StoreTyped /\ UNCHANGED <<saved, mishap>>
    BY <1>3 DEF Flush, Ends, Gone, SyncInv
  <2>2. \A i \in Inodes : ~(\E n \in Streams : stream[s][n] = i)
    BY <2>1, StoreAssumption DEF Synced, NoStream
  <2>3. disk' = [i \in Inodes |-> disk[i]] /\ UNCHANGED dir
    BY <1>3, <2>2 DEF Flush
  <2> QED BY <2>1, <2>3, FilesKept DEF StoreTyped, files
<1>4. ASSUME NEW s \in Sessions,
             \/ \E how \in Modes : Start(s, how)
             \/ Find(s) \/ Check(s) \/ Lock(s) \/ Catch(s)
      PROVE  Kept'
  BY <1>4, FilesKept DEF Start, Find, Check, Lock, Locks, Catch, Ends, Gone, history
<1>5. ASSUME NEW s \in Sessions, Create(s)
      PROVE  Kept'
  <2>1. PICK i \in Inodes : Truncate("data", i)
    BY <1>5 DEF Create
  <2>2. /\ saved' = saved
        /\ mishap' = IF Exists("data") THEN "emptied"
                     ELSE IF mishap = "none" THEN "created" ELSE mishap
    BY <1>5 DEF Create
  <2>3. dir'["bak"] = dir["bak"] /\ (Exists("bak") => disk'[dir["bak"]] = disk[dir["bak"]])
    BY <2>1, TruncateFiles DEF Names, SyncInv
  <2> QED BY <2>2, <2>3 DEF Kept, Exists
<1>6. ASSUME NEW s \in Sessions,
             \/ Read(s) \/ Save(s) \/ Exit(s) \/ OpenFails(s)
             \/ \E e \in Edits : Edit(s, e)
      PROVE  Kept'
  BY <1>6, FilesKept DEF Read, Save, Exit, SaveAndExit, OpenFails, Edit, history
<1> QED
  BY <1>1, <1>2, <1>3, <1>4, <1>5, <1>6, OpenKept, WriteKept, RenameKept
  DEF Next, Eof, Careful

\* What was last reported as saved is whole on disk, wherever careful sessions are
\* and whoever of them crashes, until one who found no rolodex has emptied it, or has
\* backed up the one it created over it.
THEOREM RoloSavedUnlessLost ==
  ASSUME Careful
  PROVE  Spec => []SavedUnlessLost
<1>1. Init => SyncInv /\ Kept
  BY SyncInit DEF Init, Kept
<1>2. SyncInv /\ Kept /\ [Next]_vars => (SyncInv /\ Kept)'
  BY SyncStep, KeptStep
<1>3. Kept => SavedUnlessLost
  BY DEF Kept, SavedUnlessLost, OnDisk, Contents
<1> QED BY <1>1, <1>2, <1>3, PTL DEF Spec

-----------------------------------------------------------------------------
(***************************************************************************)
(* LockIsHeld is not inductive: a session that gives up where it would     *)
(* lock must not have locked.                                              *)
(***************************************************************************)

\* the places before a session may have locked
BeforeLock == {"off", "find", "create", "check", "lock"}

HeldInv ==
  /\ lock \in BOOLEAN /\ abandoned \in BOOLEAN
  /\ pc \in [Sessions -> Places]
  /\ rololocked \in [Sessions -> BOOLEAN]
  /\ mode \in [Sessions -> {"edit", "nolock", "read"}]
  /\ \A s \in Sessions : pc[s] \in BeforeLock => ~rololocked[s]
  /\ LockIsHeld

\* A session that is gone leaves the owners among the others as they were; if it was
\* one itself, the lock file is abandoned.
LEMMA GoneHeld ==
  ASSUME HeldInv, NEW s \in Sessions, Gone(s), lock' = lock, abandoned' \in BOOLEAN,
         abandoned => abandoned', lock /\ Owner(s) => abandoned'
  PROVE  HeldInv'
<1>1. \A t \in Sessions :
        /\ pc'[t] = IF t = s THEN "off" ELSE pc[t]
        /\ rololocked'[t] = IF t = s THEN FALSE ELSE rololocked[t]
  BY DEF HeldInv, Gone, Goto
<1>2. LockIsHeld'
  BY <1>1 DEF HeldInv, LockIsHeld, Owner
<1>3. /\ pc' \in [Sessions -> Places] /\ rololocked' \in [Sessions -> BOOLEAN]
      /\ mode' = mode
  BY DEF HeldInv, Gone, Goto, Places
<1> QED BY <1>1, <1>2, <1>3 DEF HeldInv

LEMMA DiesHeld ==
  ASSUME HeldInv, NEW s \in Sessions, Dies(s)
  PROVE  HeldInv'
<1>1. abandoned' \in BOOLEAN /\ (abandoned => abandoned') /\ (lock /\ Owner(s) => abandoned')
  BY DEF Dies, HeldInv
<1> QED BY <1>1, GoneHeld DEF Dies

LEMMA EndsHeld ==
  ASSUME HeldInv, NEW s \in Sessions, Ends(s), ~Owner(s)
  PROVE  HeldInv'
<1>1. abandoned' = abandoned /\ abandoned \in BOOLEAN /\ lock' = lock
  BY DEF Ends, locking, HeldInv
<1> QED BY <1>1, GoneHeld DEF Ends

\* A session that goes on owns what it owned.
LEMMA GoesOnHeld ==
  ASSUME HeldInv, NEW s \in Sessions, NEW l \in Places, Goto(s, l) \/ UNCHANGED pc,
         l \notin {"flush", "left"}, pc[s] \notin {"flush", "left"},
         l \in BeforeLock => pc[s] \in BeforeLock,
         UNCHANGED <<locking, rololocked>>,
         mode' \in [Sessions -> {"edit", "nolock", "read"}]
  PROVE  HeldInv'
<1>1. \A t \in Sessions : pc'[t] = IF t = s /\ Goto(s, l) THEN l ELSE pc[t]
  BY DEF HeldInv, Goto
<1>2. LockIsHeld'
  BY <1>1 DEF HeldInv, LockIsHeld, Owner, locking
<1>3. pc' \in [Sessions -> Places]
  BY DEF HeldInv, Goto
<1> QED BY <1>1, <1>2, <1>3 DEF HeldInv, locking

\* A session that is about to end removes the lock file, if it has it.
LEMMA UnlocksHeld ==
  ASSUME HeldInv, NEW s \in Sessions, NEW l \in Places \ BeforeLock, Goto(s, l),
         NEW asked \in BOOLEAN, Unlocks(asked), Owner(s) => asked,
         UNCHANGED <<rololocked, mode>>
  PROVE  HeldInv'
<1>1. \A t \in Sessions : pc'[t] = IF t = s THEN l ELSE pc[t]
  BY DEF HeldInv, Goto
<1>2. /\ lock' \in BOOLEAN /\ abandoned' \in BOOLEAN
      /\ asked => ~lock'
      /\ ~asked => lock' = lock /\ abandoned' = abandoned
  BY DEF Unlocks, HeldInv
<1>3. LockIsHeld'
  <2>1. CASE asked
    BY <1>2, <2>1 DEF LockIsHeld
  <2>2. CASE ~asked
    <3>1. ASSUME NEW t \in Sessions, Owner(t)
          PROVE  Owner(t)'
      BY <1>1, <2>2, <3>1 DEF Owner
    <3>2. lock' = lock /\ abandoned' = abandoned
      BY <1>2, <2>2
    <3> QED BY <3>1, <3>2 DEF HeldInv, LockIsHeld
  <2> QED BY <2>1, <2>2
<1>4. pc' \in [Sessions -> Places]
  BY DEF HeldInv, Goto
<1> QED BY <1>1, <1>2, <1>3, <1>4 DEF HeldInv

LEMMA HeldStep ==
  ASSUME HeldInv, [Next]_vars
  PROVE  HeldInv'
<1>1. CASE UNCHANGED vars
  BY <1>1 DEF vars, memory, locking, HeldInv, LockIsHeld, Owner
<1>2. CASE RemoveLock
  <2>1. lock' = FALSE /\ abandoned' = FALSE
    BY <1>2 DEF RemoveLock, Unlocks, HeldInv
  <2> QED BY <1>2, <2>1 DEF RemoveLock, memory, HeldInv, LockIsHeld
<1>3. ASSUME NEW s \in Sessions, NEW how \in Modes, Start(s, how)
      PROVE  HeldInv'
  BY <1>3, GoesOnHeld, StoreAssumption DEF Start, Running, Places, BeforeLock, HeldInv
<1>4. ASSUME NEW s \in Sessions, Check(s)
      PROVE  HeldInv'
  <2>1. pc[s] = "check" /\ ~Owner(s)
    BY <1>4 DEF Check, HeldInv, BeforeLock, Owner
  <2>2. CASE Ends(s)
    BY <2>1, <2>2, EndsHeld
  <2>3. CASE ~Ends(s)
    <3>1. mode[s] \in {"edit", "nolock", "read"}
      BY DEF HeldInv
    <3>2. PICK l \in {"lock", "temp", "read"} : Goto(s, l)
      BY <1>4, <2>3, <3>1 DEF Check
    <3>3. UNCHANGED <<locking, rololocked, mode>>
      BY <1>4, <2>3 DEF Check, memory
    <3> QED BY <2>1, <3>2, <3>3, GoesOnHeld DEF Places, BeforeLock, HeldInv
  <2> QED BY <2>2, <2>3
<1>5. ASSUME NEW s \in Sessions, Lock(s)
      PROVE  HeldInv'
  <2>1. pc[s] = "lock" /\ ~Owner(s)
    BY <1>5 DEF Lock, HeldInv, BeforeLock, Owner
  <2>2. CASE Ends(s)
    BY <2>1, <2>2, EndsHeld
  <2>3. CASE Locks(s)
    <3>1. \A t \in Sessions :
            /\ pc'[t] = IF t = s THEN "catch" ELSE pc[t]
            /\ rololocked'[t] = IF t = s THEN TRUE ELSE rololocked[t]
      BY <2>3 DEF Locks, HeldInv, Goto
    <3>2. LockIsHeld'
      BY <3>1 DEF LockIsHeld, Owner
    <3>3. pc' \in [Sessions -> Places] /\ rololocked' \in [Sessions -> BOOLEAN]
      BY <2>3 DEF Locks, HeldInv, Goto, Places
    <3> QED BY <2>3, <3>1, <3>2, <3>3 DEF Locks, HeldInv, BeforeLock
  <2> QED BY <1>5, <2>2, <2>3 DEF Lock
<1>6. ASSUME NEW s \in Sessions, Leave(s) \/ Flush(s)
      PROVE  HeldInv'
  BY <1>6, EndsHeld DEF Leave, Flush, Owner
<1>7. ASSUME NEW s \in Sessions, Crash(s) \/ ReadFails(s) \/ MenuFails(s)
      PROVE  HeldInv'
  BY <1>7, DiesHeld DEF Crash, ReadFails, MenuFails
<1>8. ASSUME NEW s \in Sessions, Roloexit(s)
      PROVE  HeldInv'
  BY <1>8, UnlocksHeld DEF Roloexit, Unlinks, memory, Places, BeforeLock, HeldInv, Owner
<1>9. ASSUME NEW s \in Sessions, Interrupt(s)
      PROVE  HeldInv'
  <2>1. CASE Dies(s)
    BY <2>1, DiesHeld
  <2>2. CASE ~Dies(s)
    BY <1>9, <2>2, UnlocksHeld DEF Interrupt, Places, BeforeLock
  <2> QED BY <2>1, <2>2
<1>10. ASSUME NEW s \in Sessions, Eof(s)
       PROVE  HeldInv'
  <2>1. PICK l \in {"open_temp", "exit"} : Goto(s, l)
    BY <1>10 DEF Eof, SaveAndExit
  <2> QED
    BY <1>10, <2>1, UnlocksHeld DEF Eof, SaveAndExit, Places, BeforeLock
<1>11. ASSUME NEW s \in Sessions,
              Find(s) \/ Create(s) \/ Catch(s) \/ TryTemp(s) \/ Read(s)
       PROVE  HeldInv'
  BY <1>11, GoesOnHeld
  DEF Find, Create, Catch, TryTemp, Read, Places, BeforeLock, HeldInv, memory
<1>12. ASSUME NEW s \in Sessions,
              Save(s) \/ Exit(s) \/ (\E e \in Edits : Edit(s, e))
       PROVE  HeldInv'
  BY <1>12, GoesOnHeld
  DEF Save, Exit, SaveAndExit, Edit, Places, BeforeLock, HeldInv, memory
<1>13. ASSUME NEW s \in Sessions, OpenTemp(s) \/ OpenCopy(s) \/ OpenFails(s)
       PROVE  HeldInv'
  BY <1>13, GoesOnHeld
  DEF OpenTemp, OpenCopy, OpenFails, Places, BeforeLock, HeldInv, memory
<1>14. ASSUME NEW s \in Sessions, WriteTemp(s) \/ WriteCopy(s) \/ Backup(s) \/ Replace(s)
       PROVE  HeldInv'
  BY <1>14, GoesOnHeld
  DEF WriteTemp, WriteCopy, Writes, Backup, Replace, Places, BeforeLock, HeldInv, memory
<1> QED
  BY <1>1, <1>2, <1>3, <1>4, <1>5, <1>6, <1>7, <1>8, <1>9, <1>10, <1>11, <1>12, <1>13,
     <1>14
  DEF Next

\* However many sessions there are, in whichever way they are called, and whatever
\* befalls them, wherever: a lock file that is there has an owner who is still to remove
\* it, unless it is left of one who crashed, failed to read the rolodex or the menu, or
\* was interrupted before the handler was set.
THEOREM RoloLockIsHeld == Spec => []LockIsHeld
<1>1. Init => HeldInv
  BY DEF Init, HeldInv, LockIsHeld, Places
<1>2. HeldInv /\ [Next]_vars => HeldInv'
  BY HeldStep
<1>3. HeldInv => LockIsHeld
  BY DEF HeldInv
<1> QED BY <1>1, <1>2, <1>3, PTL DEF Spec

=============================================================================
