--------------------------------- MODULE Lfs --------------------------------
(***************************************************************************)
(* The log-structured file system of fs.c, as the commands of the shell    *)
(* use it.  The disk holds a checkpoint, with the address of the map of    *)
(* every inode, and after it a log of equal blocks (lnode).  A file is     *)
(* three of them in a row: its data, its inode, its inode's map.  New      *)
(* blocks go to a buffer in memory until the log is synced, and the log    *)
(* is read from the disk only.                                             *)
(*                                                                         *)
(* Addresses count blocks from lstart.  Null is the address (0, 0), that   *)
(* is, the checkpoint, whose first bytes read as a block of zeros do;      *)
(* Astray is an address that memory not initialised happens to hold.       *)
(* A name is a path; which path contains the text of which, and which      *)
(* directory it is in, are given by constants.  There is one shell, so a   *)
(* command is one step, but for those that write more than once: the two   *)
(* halves of fs_sync are commands too, between which the machine may       *)
(* restart (fs_sync_cr, then Reboot), and fs_creat and fs_run_gc may be    *)
(* cut off.                                                                *)
(*                                                                         *)
(* fs_remove and __get_inoden look one entry past the map, at lstart,      *)
(* which as a text is a tab: no path is found there.  What __get_imap      *)
(* finds there is Junk.                                                    *)
(***************************************************************************)
EXTENDS Integers, Sequences

CONSTANTS
  Names, Root,
  Parent,         \* the directory of every name but Root
  Within,         \* the names in which the text of a name occurs
  Misread,        \* what else may be read as the parent of a name
  DirNames, FileNames,   \* the names given to mkdir, and to touch
  Texts,          \* what a file may hold
  Dir, NoCp, NoGc,
  LogSize,        \* lsize, in blocks
  LogStart,       \* the blocks that the bytes before lstart would span
  BufferSize,     \* FS_BUFFER_SIZE, in blocks
  MAX_IMAP, MAX_DIR_FILES,
  GcLengths,      \* the lengths given to fs_run_gc
  MaxInoden       \* bound: the largest inode number handed out

Null == -1
Astray == -2
Nowhere == -3
NoInoden == -1
Slot == 0 .. LogSize - 1

ASSUME LfsAssumption ==
  /\ Root \in Names
  /\ Parent \in [Names \ {Root} -> Names]
  /\ Within \in [Names -> SUBSET Names]
  /\ Misread \in [Names -> SUBSET Names]
  /\ Within[Root] = Names
  /\ \A n \in Names : n \in Within[n]
  /\ \A n, d \in Names : n \in Within[d] => Within[n] \subseteq Within[d]
  /\ \A n \in Names \ {Root} : n \in Within[Parent[n]]
  /\ DirNames \cup FileNames \subseteq Names \ {Root}
  /\ Dir \notin Texts
  /\ LogSize \in Nat /\ LogStart \in Nat /\ BufferSize \in Nat
  \* What a wrapped sync reads past the new blocks is past the buffer.
  /\ LogSize >= 2 * BufferSize
  /\ BufferSize >= 6     \* a file and its directory
  /\ MAX_IMAP \in Nat \ {0} /\ MAX_DIR_FILES \in Nat
  /\ GcLengths \subseteq Nat \ {0}
  /\ MaxInoden \in Nat

VARIABLES
  cp,       \* __cp, or NoCp before fs_init and fs_creat
  buffer,   \* the blocks in __log_buf
  log,      \* the blocks on the disk
  saved,    \* the checkpoint on the disk, as __load_checkpoint gives it, or NoCp
  gc,       \* the garbage collection under way, or NoGc
  sound     \* nothing was done yet that fs.c does not guard against

vars == <<cp, buffer, log, saved, gc, sound>>

-----------------------------------------------------------------------------
(* Blocks *)

Fdata(text) == [type |-> "fdata", text |-> text]

\* room is the number of entries that are not set.
Ddata(names, room) == [type |-> "ddata", names |-> names, room |-> room]

Inode(num, ftype, idata) ==
  [type |-> "inode", num |-> num, ftype |-> ftype, idata |-> idata]

\* Only the first of the MAX_INODES entries of a map is ever used.
Imap(inoden, inode) == [type |-> "imap", inoden |-> inoden, inode |-> inode]

\* Zeros: a block never written, or the first bytes of the checkpoint.
Zero == Imap(0, Null)

\* Memory that never was a block.
Junk == [type |-> "junk"]

Load(s, a) ==
  CASE a \in Slot -> s.log[a] [] a = Null -> Zero [] OTHER -> Junk

State == [cp |-> cp, buffer |-> buffer, log |-> log]

\* The same with another map in the checkpoint.
WithMap(s, map) ==
  [cp |-> [s.cp EXCEPT !.map = map], buffer |-> s.buffer, log |-> s.log]

Becomes(s) == cp' = s.cp /\ buffer' = s.buffer /\ log' = s.log

\* What __load_checkpoint reads back of a checkpoint: lfst is set to lend.
Reloaded(c) == [c EXCEPT !.lfst = c.lend]

-----------------------------------------------------------------------------
(* The log *)

\* __sync_log_buf.  Once the log has come round the lengths of the two
\* writes are computed from the wrong end: the first one runs past the log,
\* the second one begins past the buffer and covers, counted in bytes from
\* the start of the disk, more than was staged.
SyncedLog(s) ==
  LET fst  == s.cp.lfst
      last == s.cp.lend
      Piece(i) == IF i < Len(s.buffer) THEN s.buffer[i + 1] ELSE Junk
      Straight(a) ==
        IF a >= fst /\ a < fst + Len(s.buffer) THEN Piece(a - fst)
        ELSE s.log[a]
      Wrapped(a) ==
        CASE a < last + LogStart -> Piece(LogSize - last + a)
          [] a >= last + LogStart /\ a >= fst -> Piece(a - fst)
          [] OTHER -> s.log[a]
  IN  [a \in Slot |-> IF fst < last THEN Straight(a) ELSE Wrapped(a)]

\* A faulty variant: lfst is left where it was.
SyncLogBufInPlace(s) ==
  IF s.cp.lfst = s.cp.lend THEN s
  ELSE [s EXCEPT !.buffer = <<>>, !.log = SyncedLog(s)]

SyncLogBuf(s) ==
  IF s.cp.lfst = s.cp.lend THEN s
  ELSE [cp     |-> [s.cp EXCEPT !.lfst = s.cp.lend],
        buffer |-> <<>>,
        log    |-> SyncedLog(s)]

\* __stage, with the __append_to_buf that it calls.
Stage(s, block) ==
  LET t == IF Len(s.buffer) + 1 >= LogSize THEN SyncLogBuf(s) ELSE s
  IN  [cp     |-> [t.cp EXCEPT !.lend = (s.cp.lend + 1) % LogSize],
       buffer |-> Append(t.buffer, block),
       log    |-> t.log]

\* Three blocks in a row: data, its inode, the map of the inode.
StageFile(s, data, inode, imap) ==
  LET s1 == Stage(s, data)
      s2 == Stage(s1, [inode EXCEPT !.idata = s.cp.lend])
  IN  Stage(s2, [imap EXCEPT !.inode = s1.cp.lend])

\* The address of the last block staged.
Staged(s) == (s.cp.lend + LogSize - 1) % LogSize

-----------------------------------------------------------------------------
(* The checkpoint *)

EntryAt(map, a) == {i \in DOMAIN map : map[i].map = a}

\* __add_cr_entry: the first entry whose address is null.
AddCrEntry(map, entry) ==
  LET free == EntryAt(map, Null) IN
  CASE free # {} ->
         [map EXCEPT ![CHOOSE i \in free : \A j \in free : i <= j] = entry]
    [] free = {} /\ Len(map) < MAX_IMAP -> Append(map, entry)
    [] OTHER -> map

\* The assignment to __get_cr_entry(inoden)->map, which goes astray if an
\* unset entry comes before the one looked for.
SetCrMap(map, inoden, a) ==
  [i \in DOMAIN map |->
     IF map[i].inoden = inoden /\ \A j \in 1 .. i : map[j].inoden # NoInoden
     THEN [map[i] EXCEPT !.map = a]
     ELSE map[i]]

GetMaxInoden(map) ==
  LET used == {map[i].inoden : i \in DOMAIN map} \cup {0}
  IN  CHOOSE m \in used : \A n \in used : n <= m

\* The indices that __get_inoden finds a name at.
Found(name) ==
  {i \in DOMAIN cp.map : cp.map[i].name = name /\ cp.map[i].inoden # NoInoden}

GetInoden(name) ==
  cp.map[CHOOSE i \in Found(name) : \A j \in Found(name) : i <= j].inoden

\* __get_imap and __get_inode.  A block of another type does not match.
GetImap(s, inoden) ==
  LET is == {i \in DOMAIN s.cp.map : s.cp.map[i].inoden = inoden} IN
  IF is = {} THEN Junk
  ELSE Load(s, s.cp.map[CHOOSE i \in is : \A j \in is : i <= j].map)

GetInode(s, imap, inoden) ==
  IF imap.type = "imap" /\ imap.inoden = inoden THEN Load(s, imap.inode)
  ELSE Junk

-----------------------------------------------------------------------------
(* The commands *)

Init ==
  /\ cp = NoCp /\ saved = NoCp /\ gc = NoGc
  /\ buffer = <<>>
  /\ log = [a \in Slot |-> Zero]
  /\ sound = TRUE

\* n blocks fit in the buffer and in what is left of the log.
Fits(n) == Len(buffer) + n <= BufferSize /\ cp.lend + n < LogSize

\* How far after lfst an address is, and whether its block is in the buffer.
Ahead(a) == (a - cp.lfst + LogSize) % LogSize
Unsynced(a) == cp # NoCp /\ a \in Slot /\ Ahead(a) < Len(buffer)

\* The checkpoint on the disk names blocks that are not there yet.
Torn ==
  /\ saved # NoCp
  /\ \E i \in DOMAIN saved.map : Unsynced(saved.map[i].map)

\* Memory that was used before makes the entries of a directory look set.
Rooms == {0, MAX_DIR_FILES}

\* An entry that holds what the memory held.
Stale == [name |-> "", inoden |-> NoInoden, map |-> Astray]

\* An empty root directory, staged, and named by a new checkpoint.
Formatted(leftover, room) ==
  LET fresh == [map |-> [i \in 1 .. leftover |-> Stale], lend |-> 0, lfst |-> 0]
      s1 == StageFile([cp |-> fresh, buffer |-> buffer, log |-> log],
                      Ddata({}, room), Inode(0, "dir", Null), Imap(0, Null))
      root == [name |-> Root, inoden |-> 0, map |-> Staged(s1)]
  IN  WithMap(s1, AddCrEntry(s1.cp.map, root))

\* The buffer is not emptied before, nor the disk wiped, whose old blocks a
\* later command may read.  leftover entries of the checkpoint are stale.
fs_creat(leftover, room) ==
  LET s == Formatted(leftover, room)
  IN  /\ saved' = Reloaded(s.cp)
      /\ Becomes(SyncLogBuf(s))
      /\ sound' = (sound /\ buffer = <<>> /\ leftover = 0)

\* The machine restarts before fs_creat is done: the one sector that it wipes
\* holds the first entries of the old checkpoint; then the new checkpoint is
\* written before the blocks it names.
fs_creat_cut(room) ==
  /\ \/ /\ saved # NoCp
        /\ \E n \in DOMAIN saved.map :
             saved' = [saved EXCEPT !.map = [i \in DOMAIN @ |-> IF i <= n THEN Stale ELSE @[i]]]
     \/ saved' = Reloaded(Formatted(0, room).cp)
  /\ cp' = NoCp /\ buffer' = <<>>
  /\ sound' = FALSE
  /\ UNCHANGED log

\* What was not synced is dropped.
fs_init ==
  /\ saved # NoCp
  /\ cp' = saved
  /\ buffer' = <<>>
  /\ sound' = (sound /\ ~Torn)
  /\ UNCHANGED <<log, saved>>

\* The reboot command, or the power fails.
Reboot ==
  /\ cp # NoCp
  /\ cp' = NoCp /\ gc' = NoGc
  /\ buffer' = <<>>
  /\ sound' = (sound /\ ~Torn)
  /\ UNCHANGED <<log, saved>>

\* A faulty variant: the last entry of a directory is never used.
ListingShort(ddata, name) ==
  CASE ddata.type = "ddata" /\ ddata.room > 1 ->
         Ddata(ddata.names \cup {name}, ddata.room - 1)
    [] ddata.type = "ddata" /\ ddata.room <= 1 -> ddata
    [] OTHER -> Ddata({}, 0)

\* __add_ddata_entry
Listing(ddata, name) ==
  CASE ddata.type = "ddata" /\ ddata.room > 0 ->
         Ddata(ddata.names \cup {name}, ddata.room - 1)
    [] ddata.type = "ddata" /\ ddata.room = 0 -> ddata
    [] OTHER -> Ddata({}, 0)

\* The blocks of the directory are read from the disk.  parent is what
\* __get_parent_filename makes of the name: it ends the text where the name
\* ends, and what it leaves in between was never set.
fs_mkfile(name, parent, data, ftype) ==
  /\ cp # NoCp
  /\ Found(name) = {}
  /\ Found(parent) # {}
  /\ LET inoden  == GetMaxInoden(cp.map) + 1
         pinoden == GetInoden(parent)
         pimap   == GetImap(State, pinoden)
         pinode  == GetInode(State, pimap, pinoden)
         s1 == StageFile(State, data, Inode(inoden, ftype, Null), Imap(inoden, Null))
         entry == [name |-> name, inoden |-> inoden, map |-> Staged(s1)]
         s2 == WithMap(s1, AddCrEntry(s1.cp.map, entry))
         s3 == StageFile(s2, Listing(Load(s2, pinode.idata), name), pinode, pimap)
     IN  /\ inoden <= MaxInoden
         /\ pinode.type = "inode" /\ pinode.ftype = "dir"
         /\ Becomes(WithMap(s3, SetCrMap(s3.cp.map, pinoden, Staged(s3))))
         /\ sound' = /\ sound /\ Fits(6) /\ parent = Parent[name]
                     /\ \A i \in Found(parent) : ~Unsynced(cp.map[i].map)
  /\ UNCHANGED saved

\* A faulty variant: only the path itself.
RemoveOne(name) ==
  /\ cp # NoCp
  /\ \E i \in DOMAIN cp.map : cp.map[i].name = name
  /\ cp' = [cp EXCEPT !.map = [i \in DOMAIN @ |->
              IF @[i].name = name THEN [@[i] EXCEPT !.map = Null] ELSE @[i]]]
  /\ UNCHANGED <<buffer, log, saved, sound>>

\* Every path in which the text of the name occurs, and so also those that
\* only begin with it.  The entries keep their names and inode numbers, and
\* directories what they list.
fs_remove(name) ==
  /\ cp # NoCp
  /\ \E i \in DOMAIN cp.map : cp.map[i].name \in Within[name]
  /\ cp' = [cp EXCEPT !.map = [i \in DOMAIN @ |->
              IF @[i].name \in Within[name] THEN [@[i] EXCEPT !.map = Null]
              ELSE @[i]]]
  /\ UNCHANGED <<buffer, log, saved, sound>>

fs_sync_cr == cp # NoCp /\ saved' = Reloaded(cp) /\ UNCHANGED <<cp, buffer, log, sound>>

fs_sync_lbuf ==
  /\ cp # NoCp
  /\ Becomes(SyncLogBuf(State))
  /\ UNCHANGED <<saved, sound>>

fs_sync ==
  /\ cp # NoCp
  /\ saved' = Reloaded(cp)
  /\ Becomes(SyncLogBuf(State))
  /\ UNCHANGED sound

-----------------------------------------------------------------------------
(* fs_run_gc *)

\* The address in the next field of a block.
Following(s, a) ==
  IF a \in Slot /\ s.log[a] \notin {Zero, Junk} THEN (a + 1) % LogSize ELSE Null

InodeAlive(s, inode) ==
  /\ inode.type = "inode"
  /\ GetInode(s, GetImap(s, inode.num), inode.num) = inode

\* Blocks are compared by what they hold, on the disk.
IsAlive(s, a) ==
  LET block == s.log[a] IN
  CASE block.type = "imap" ->
         \E i \in DOMAIN s.cp.map :
           s.cp.map[i].map \in Slot /\ s.log[s.cp.map[i].map] = block
    [] block.type = "inode" -> InodeAlive(s, block)
    [] block.type \in {"fdata", "ddata"} -> InodeAlive(s, Load(s, Following(s, a)))
    [] OTHER -> FALSE

\* The walk's next block, and how many it has to look at; the block being
\* moved, or Nowhere; and what the blocks moved before it left in prev and inoden.
Walk(addr, left, curr, prev, inoden) ==
  [addr |-> addr, left |-> left, curr |-> curr, prev |-> prev, inoden |-> inoden]

\* stray is what inoden holds before it is set: the number of an inode, or not.
Strays == {0, NoInoden}

fs_run_gc(len, stray) ==
  /\ cp # NoCp /\ gc = NoGc
  /\ gc' = Walk(0, len, Nowhere, Astray, stray)
  /\ sound' = /\ sound /\ buffer = <<>> /\ len <= cp.lend
              /\ \A a \in 0 .. cp.lend - 1 : log[a] # Zero
  /\ UNCHANGED <<cp, buffer, log, saved>>

\* A living block is moved, with those after it up to a map.
GcWalk ==
  /\ gc # NoGc /\ gc.curr = Nowhere /\ gc.left > 0
  /\ gc' = IF gc.addr \in Slot /\ IsAlive(State, gc.addr)
           THEN [gc EXCEPT !.addr = Following(State, @), !.curr = gc.addr]
           ELSE [gc EXCEPT !.addr = Following(State, @), !.left = @ - 1]
  /\ UNCHANGED <<cp, buffer, log, saved, sound>>

\* One block is moved.  Past the blocks the loop finds no type it knows.
GcMove ==
  /\ gc # NoGc /\ gc.curr \in Slot /\ log[gc.curr].type # "junk"
  /\ LET block == log[gc.curr]
         ends  == block.type = "imap"
         moved == CASE block.type = "inode" -> [block EXCEPT !.idata = gc.prev]
                    [] block.type = "imap"  -> [block EXCEPT !.inode = gc.prev]
                    [] OTHER -> block
         s == Stage(State, moved)
     IN  /\ Becomes(IF ends THEN WithMap(s, SetCrMap(s.cp.map, gc.inoden, Staged(s))) ELSE s)
         /\ gc' = Walk(gc.addr, IF ends THEN gc.left - 1 ELSE gc.left,
                       IF ends THEN Nowhere ELSE Following(State, gc.curr), Staged(s),
                       IF block.type = "inode" THEN block.num ELSE gc.inoden)
  /\ sound' = (sound /\ Fits(1))
  /\ UNCHANGED saved

GcDone == gc # NoGc /\ gc.curr = Nowhere /\ gc.left = 0

\* The first half of the fs_sync at the end.
GcSave == GcDone /\ fs_sync_cr /\ UNCHANGED gc

GcEnd == GcDone /\ gc' = NoGc /\ fs_sync

\* The texts that __get_parent_filename may make of a name, if it is a name.
ParentTexts(name) == {Parent[name]} \cup Misread[name]

Command ==
  \/ fs_init \/ fs_sync_cr \/ fs_sync_lbuf \/ fs_sync
  \/ \E leftover \in 0 .. 1, room \in Rooms : fs_creat(leftover, room)
  \/ \E room \in Rooms : fs_creat_cut(room)
  \/ \E name \in FileNames, text \in Texts : \E parent \in ParentTexts(name) :
       fs_mkfile(name, parent, Fdata(text), "file")
  \/ \E name \in DirNames, room \in Rooms : \E parent \in ParentTexts(name) :
       fs_mkfile(name, parent, Ddata({}, room), "dir")
  \/ \E name \in Names : fs_remove(name)

Next ==
  \/ gc = NoGc /\ Command /\ UNCHANGED gc
  \/ \E len \in GcLengths, stray \in Strays : fs_run_gc(len, stray)
  \/ GcWalk \/ GcMove \/ GcSave \/ GcEnd
  \/ Reboot

Spec == Init /\ [][Next]_vars

-----------------------------------------------------------------------------
(* Properties *)

Address == Slot \cup {Null, Astray}

Block ==
  [type : {"fdata"}, text : Texts]
  \cup [type : {"ddata"}, names : SUBSET Names, room : 0 .. MAX_DIR_FILES]
  \cup [type : {"inode"}, num : 0 .. MaxInoden, ftype : {"dir", "file"}, idata : Address]
  \cup [type : {"imap"}, inoden : 0 .. MaxInoden, inode : Address]
  \cup {Junk}

Entry ==
  [name : Names \cup {""}, inoden : 0 .. MaxInoden \cup {NoInoden}, map : Address]

Checkpoint == [map : Seq(Entry), lend : Slot, lfst : Slot]

ASSUME NoCpAssumption == NoCp \notin Checkpoint

Collection ==
  [addr : Slot \cup {Null}, left : Nat, curr : Slot \cup {Null, Nowhere},
   prev : Address, inoden : 0 .. MaxInoden \cup {NoInoden}]

\* The variables keep their types; the log ends where the blocks in the
\* buffer end that are still to be written at lfst.
TypeOK ==
  /\ cp \in Checkpoint \cup {NoCp} /\ (cp # NoCp => Len(cp.map) <= MAX_IMAP)
  /\ saved \in Checkpoint \cup {NoCp} /\ (saved # NoCp => Len(saved.map) <= MAX_IMAP)
  /\ buffer \in Seq(Block)
  /\ log \in [Slot -> Block]
  /\ gc \in Collection \cup {NoGc}
  /\ sound \in BOOLEAN
  /\ sound /\ cp # NoCp => cp.lfst + Len(buffer) = cp.lend

Live(map) == {i \in DOMAIN map : map[i].map # Null /\ map[i].inoden # NoInoden}

\* A block as it is, or will be once the log is synced.
Read(a) ==
  IF Unsynced(a) THEN buffer[Ahead(a) + 1] ELSE Load(State, a)

Lost == "lost"

DataOf(entry) ==
  LET imap == Read(entry.map)
      inode == IF imap.type = "imap" THEN Read(imap.inode) ELSE Junk
  IN  IF /\ inode.type = "inode"
         /\ imap.inoden = entry.inoden /\ inode.num = entry.inoden
         /\ (inode.ftype = "dir") = (Read(inode.idata).type = "ddata")
      THEN Read(inode.idata) ELSE Junk

ContentOf(entry) ==
  LET data == DataOf(entry) IN
  CASE data.type = "fdata" -> data.text [] data.type = "ddata" -> Dir [] OTHER -> Lost

\* The tree that a checkpoint leads to.
Tree(c) ==
  IF c = NoCp THEN {}
  ELSE {<<c.map[i].name, ContentOf(c.map[i])>> : i \in Live(c.map)}

\* The files there are, and those that a restart would bring back.
FilesNow == IF ~sound THEN {} ELSE IF cp = NoCp THEN Tree(saved) ELSE Tree(cp)
FilesSaved == IF sound THEN Tree(saved) ELSE {}

Store == INSTANCE FileStore WITH files <- FilesNow, kept <- FilesSaved, lost <- ~sound

\* The one step in which fs.c breaks the promise without being misused: what
\* fs_remove takes beyond the path and what is inside it (fs.c:439).
RemovesMore ==
  /\ \E n \in Names :
       /\ \E f \in FilesNow : f[1] \in Within[n] \ Store!Inside(n)
       /\ FilesNow' = {f \in FilesNow : f[1] \notin Within[n]}
  /\ FilesSaved' = FilesSaved /\ sound' = sound

\* The file system implements the store it promises, for as long as it is
\* used within what fs.c guards against (fs_mkfile, fs_remove, fs_sync,
\* fs_init, fs_run_gc): what was made is read back, restarting gives what was
\* saved, and collecting garbage changes nothing.  Only fs_remove may take
\* more than it should, and then exactly what has the text of the name in it.
ImplementsStore == Store!Init /\ [][Store!Next \/ RemovesMore]_(Store!vars)

\* The checkpoint never holds a file whose directory is gone, nor two files of
\* one name or of one inode number, and every file is listed by its directory,
\* unless the directory was full (fs_remove, fs_mkfile, __get_max_inoden,
\* __add_ddata_entry).
TreeClosed ==
  sound /\ cp # NoCp =>
    /\ \A i, j \in DOMAIN cp.map : i # j /\ cp.map[i].inoden # NoInoden =>
         cp.map[i].name # cp.map[j].name /\ cp.map[i].inoden # cp.map[j].inoden
    /\ \A i \in Live(cp.map) : cp.map[i].name = Root \/
         \E j \in Live(cp.map) : cp.map[j].name = Parent[cp.map[i].name]
    /\ \A i, j \in Live(cp.map) :
         cp.map[i].name # Root /\ cp.map[j].name = Parent[cp.map[i].name] =>
           \/ cp.map[i].name \in DataOf(cp.map[j]).names
           \/ DataOf(cp.map[j]).room = 0

-----------------------------------------------------------------------------
(* What does not hold: the first when a guard that fs.c lacks is missed, *)
(* the second of any use.                                                *)

\* Writing the blocks that the buffer has room for to the disk changes no file
\* (fs_sync, fs_sync_lbuf).
SyncKeepsTree ==
  [][Len(buffer) <= BufferSize /\ (fs_sync \/ fs_sync_lbuf)
       => Tree(cp)' = Tree(cp)]_vars

\* Removing a file or directory leaves everything that is not in it
\* (fs_remove, fs.h:121).
RemoveKeepsOthers ==
  [][\A n \in Names : sound /\ fs_remove(n) =>
       \A f \in Tree(cp) : f[1] \in Store!Inside(n) \/ f \in Tree(cp)']_vars
=============================================================================
