-------------------------- MODULE MicroBitFileSystem --------------------------
(***************************************************************************)
(* MicroBitFileSystem with MicroBitFile on top and MicroBitFlash below: a  *)
(* file table, directories and files in blocks of flash.  A call runs to   *)
(* its end before another one starts; power may be lost between two calls. *)
(* It is built as MicroBitConfig.h has it by default, with MBFS_CACHE_SIZE *)
(* 0: no write-back cache.  A page that is rewritten is written at once.   *)
(***************************************************************************)
EXTENDS Integers, FiniteSets, Sequences, SequencesExt

CONSTANTS
    Size,           \* fileSystemSize, in blocks
    PerPage,        \* blocks of a page
    TableSize,      \* fileSystemTableSize, in blocks
    BlockSize,      \* bytes of a block, and entries of a block of a directory
    RootFiles, DirFiles, Dirs,  \* names of files in the root, in directories, and of these
    Bytes,          \* what is written
    None, Unknown, UNUSED, EOF, DELETED,
    Usage,          \* what the program may do besides: see Does
    MaxLength,      \* bound on the length of a file
    MaxCalls        \* bound on the calls that change the file system

Blocks == 0..(Size - 1)
Root == TableSize
Outside == Size     \* a block number past the end of the file system

ASSUME FileSystemAssumption ==
    /\ Size \in Nat /\ PerPage \in Nat \ {0} /\ BlockSize \in Nat \ {0}
    /\ Size % PerPage = 0 /\ TableSize \in 1..(Size - 1)
    /\ {UNUSED, EOF, DELETED, None} \cap Blocks = {}
    /\ (RootFiles \cup DirFiles) \cap Dirs = {}

(* A path is a name in the root directory, or in a directory of the root.  *)
Paths == ({None} \X (RootFiles \cup Dirs)) \cup (Dirs \X DirFiles)
Files == RootFiles \cup DirFiles

VARIABLES
    disk,           \* the flash, with lastBlockAllocated and, as history, what went wrong
    openFiles,      \* newest first
    calls,
    text,           \* history: what each file should hold, None if there is none,
                    \* Unknown after a loss of power before it was ever flushed
    saved           \* history: the length each file had when it was last flushed

vars == <<disk, openFiles, calls, text, saved>>

(* A tidy program creates files and directories while no file is open,     *)
(* closes a file that it created before any other, appends to files and    *)
(* clears bits inside a block, flushes a file with contents of its own     *)
(* only by closing it, and stops before the search for a block wraps or a  *)
(* page in use is taken for scratch.  Usage names what it does besides:    *)
(* "create_open", "overwrite", "wrap", "scratch".                          *)
Does(usage) == usage \in Usage

-----------------------------------------------------------------------------
(* MicroBitFlash and the pages of the file system.                         *)

Blank == [i \in 1..BlockSize |-> None]

Page(b) == LET first == b - (b % PerPage) IN first..(first + PerPage - 1)

ErasePage(d, page) ==
    [d EXCEPT !.data = [b \in Blocks |-> IF b \in page THEN Blank ELSE d.data[b]]]

(* flash_write(): what else is on the page is kept, through a scratch page *)
(* when bits have to be set, which then holds a copy of the page.          *)
FlashWrite(d, b, i, value) == [d EXCEPT !.data[b][i] = value]

LeaveInScratch(d, scratch, b) ==
    IF scratch = {} THEN d
    ELSE LET copied == CHOOSE f \in [scratch -> Page(b)] :
                          \A x, y \in scratch : x < y => f[x] < f[y]
         IN  [d EXCEPT !.data =
                 [x \in Blocks |-> IF x \in scratch THEN d.data[copied[x]] ELSE d.data[x]]]

FileTableWrite(d, b, value) == [d EXCEPT !.table[b] = value]

InUse(d, b) == d.table[b] \notin {UNUSED, DELETED}

(* getFreePage(): the next page without a used block; failing that, one in *)
(* which a deleted block comes first, erased with all that follows in it;  *)
(* failing that the scratch page outside the file system, here {}.         *)
FreePage(d) ==
    LET pages  == [n \in 1..(Size \div PerPage - 1) |->
                      Page((d.last + n * PerPage) % Size)]
        First(page) == CHOOSE b \in page : \A x \in page : b <= x
        Free(page)  == \A b \in page : ~InUse(d, b)
        Dirty(page) == \E b \in page : /\ d.table[b] = DELETED
                                       /\ \A x \in page : x < b => ~InUse(d, x)
        free  == SelectInSeq(pages, Free)
        dirty == SelectInSeq(pages, Dirty)
    IN  CASE free # 0 ->
               [disk |-> [d EXCEPT !.last = First(pages[free])], page |-> pages[free]]
          [] free = 0 /\ dirty # 0 ->
               [disk |-> [ErasePage(d, pages[dirty]) EXCEPT !.fault = "scratch"],
                page |-> pages[dirty]]
          [] OTHER -> [disk |-> d, page |-> {}]

IsEntry(e) == e # None /\ e \notin Bytes
HasFlags(e, flags) == IsEntry(e) /\ e.flags \in flags
IsValid(e) == HasFlags(e, {"new", "valid", "dir"})
IsFree(e) == e = None \/ HasFlags(e, {"new"})    \* MBFS_DIRECTORY_ENTRY_NEW is 0xffff

\* Faulty: every block of the page is taken for the directory's.
RecycleBlockEntries(d, block, isDirectory) ==
    LET Copy(e, b) ==
            CASE ~InUse(e, b) -> Blank
              [] InUse(e, b) /\ isDirectory ->
                   [i \in 1..BlockSize |->
                       IF IsValid(e.data[b][i]) THEN e.data[b][i] ELSE None]
              [] OTHER -> e.data[b]
        tables == \E b \in Page(block) : b < TableSize
        Regenerated(e) ==
            [e EXCEPT
               !.data  = [b \in Blocks |-> IF b \in Page(block) THEN Copy(e, b) ELSE e.data[b]],
               !.table = [b \in Blocks |->
                            IF tables /\ e.table[b] = DELETED THEN UNUSED ELSE e.table[b]]]
        Through(scratch) == ErasePage(Regenerated(scratch.disk), scratch.page)
    IN  Through(FreePage(d))

(* recycleBlock(): the page of the block, without its unused and deleted   *)
(* blocks, without invalid entries if the block is a directory's, and with *)
(* the deleted entries of the table made unused where it holds the table.  *)
RecycleBlock(d, block, isDirectory) ==
    LET Copy(e, b) ==
            CASE ~InUse(e, b) -> Blank
              [] InUse(e, b) /\ b = block /\ isDirectory ->
                   [i \in 1..BlockSize |->
                       IF IsValid(e.data[b][i]) THEN e.data[b][i] ELSE None]
              [] OTHER -> e.data[b]
        tables == \E b \in Page(block) : b < TableSize
        Regenerated(e) ==
            [e EXCEPT
               !.data  = [b \in Blocks |-> IF b \in Page(block) THEN Copy(e, b) ELSE e.data[b]],
               !.table = [b \in Blocks |->
                            IF tables /\ e.table[b] = DELETED THEN UNUSED ELSE e.table[b]]]
        Through(scratch) == ErasePage(Regenerated(scratch.disk), scratch.page)
    IN  Through(FreePage(d))

(* recycleFileTable(): every page with a deleted block, then the table.    *)
RecycleFileTable(d) ==
    LET Step(s, b) ==
            LET fresh == b % PerPage = 0
            IN  IF s.disk.table[b] = DELETED /\ (fresh \/ ~s.recycled)
                  THEN [disk |-> RecycleBlock(s.disk, b, FALSE), recycled |-> TRUE]
                  ELSE [s EXCEPT !.recycled = IF fresh THEN FALSE ELSE @]
        pages == FoldLeft(Step, [disk |-> d, recycled |-> FALSE],
                          [n \in 1..Size |-> n - 1])
    IN  RecycleBlock(pages.disk, 0, FALSE)

(* getFreeBlock(): the search runs from the last block allocated to the end*)
(* of the table and, the index not being reduced, past it, where erased    *)
(* flash reads as MBFS_UNUSED.  0 if there is no block.                    *)
FreeBlock(d) ==
    LET start   == (d.last + 1) % Size
        seen    == IF start = 0 THEN 0..(d.last - 1) ELSE start..(Size - 1)
        unused  == {b \in seen : d.table[b] = UNUSED}
        deleted == {b \in seen : d.table[b] = DELETED}
        Least(S) == CHOOSE b \in S : \A x \in S : b <= x
        Most(S)  == CHOOSE b \in S : \A x \in S : b >= x
    IN  CASE unused # {} -> [disk |-> [d EXCEPT !.last = Least(unused)], block |-> Least(unused)]
          [] unused = {} /\ start # 0 -> [disk |-> [d EXCEPT !.fault = "wrap"], block |-> Outside]
          [] unused = {} /\ start = 0 /\ deleted # {} ->
               [disk |-> [RecycleFileTable(d) EXCEPT !.last = Most(deleted)],
                block |-> Most(deleted)]
          [] OTHER -> [disk |-> d, block |-> 0]

-----------------------------------------------------------------------------
(* Chains and directories.                                                 *)

Chain(d, first) ==
    LET Extended(blocks) ==
            IF d.table[Last(blocks)] \in Blocks THEN Append(blocks, d.table[Last(blocks)])
                                                ELSE blocks
        after[n \in 0..Size] == IF n = 0 THEN <<first>> ELSE Extended(after[n - 1])
    IN  after[Size]

Slots(d, first) ==
    LET blocks == Chain(d, first)
    IN  [n \in 1..(Len(blocks) * BlockSize) |->
            <<blocks[(n - 1) \div BlockSize + 1], ((n - 1) % BlockSize) + 1>>]

Entry(d, slot) == d.data[slot[1]][slot[2]]

(* getDirectoryEntry(): the first valid entry of that name, or None.       *)
GetDirectoryEntry(d, first, name) ==
    LET slots == Slots(d, first)
        Matches(s) == IsValid(Entry(d, s)) /\ Entry(d, s).name = name
        n == SelectInSeq(slots, Matches)
    IN  IF n = 0 THEN None ELSE slots[n]

(* getDirectoryOf(): the first block of the directory of a path, or None.  *)
GetDirectoryOf(d, path) ==
    IF path[1] = None THEN Root
    ELSE LET slot == GetDirectoryEntry(d, Root, path[1])
         IN  IF slot = None THEN None ELSE Entry(d, slot).first

Lookup(d, path) ==
    LET dir == GetDirectoryOf(d, path)
    IN  IF dir = None THEN None ELSE GetDirectoryEntry(d, dir, path[2])

(* createDirectoryEntry(): an unwritten entry, or else one that is invalid,*)
(* or else the first of a new block.                                       *)
CreateDirectoryEntry(d, dir) ==
    LET slots == Slots(d, dir)
        Free(s) == IsFree(Entry(d, s))
        Invalid(s) == ~IsValid(Entry(d, s))
        free == SelectInSeq(slots, Free)
        invalid == SelectInSeq(slots, Invalid)
        Extended(new) ==
            IF new.block \in {0, Outside} THEN [disk |-> new.disk, slot |-> None]
            ELSE [disk |-> FileTableWrite(
                              FileTableWrite(new.disk, Last(Chain(d, dir)), new.block),
                              new.block, EOF),
                  slot |-> <<new.block, 1>>]
    IN  CASE free # 0 -> [disk |-> d, slot |-> slots[free]]
          [] free = 0 /\ invalid # 0 ->
               [disk |-> RecycleBlock(d, slots[invalid][1], TRUE), slot |-> slots[invalid]]
          [] OTHER -> Extended(FreeBlock(d))

WriteEntry(d, slot, e) == FlashWrite(d, slot[1], slot[2], e)

NewEntry(name, first, flags) ==
    [name |-> name, first |-> first, flags |-> flags,
     length |-> IF flags = "dir" THEN 0 ELSE None]

\* Faulty: the first block is not marked as the end of a chain.
CreateFileOpenEnded(d, dir, name, flags) ==
    LET InBlock(slot, new) ==
            IF new.block \in {0, Outside} THEN [disk |-> new.disk, slot |-> None]
            ELSE [disk |-> WriteEntry(new.disk, slot, NewEntry(name, new.block, flags)),
                  slot |-> slot]
        InSlot(c) == IF c.slot = None THEN c ELSE InBlock(c.slot, FreeBlock(c.disk))
    IN  InSlot(CreateDirectoryEntry(d, dir))

(* createFile(): an entry, and a first block.                              *)
CreateFile(d, dir, name, flags) ==
    LET InBlock(slot, new) ==
            IF new.block \in {0, Outside} THEN [disk |-> new.disk, slot |-> None]
            ELSE [disk |-> FileTableWrite(
                              WriteEntry(new.disk, slot, NewEntry(name, new.block, flags)),
                              new.block, EOF),
                  slot |-> slot]
        InSlot(c) == IF c.slot = None THEN c ELSE InBlock(c.slot, FreeBlock(c.disk))
    IN  InSlot(CreateDirectoryEntry(d, dir))

-----------------------------------------------------------------------------
(* Files.                                                                  *)

(* getFileDescriptor(): the newest open file with that identifier.         *)
Descriptor(id) ==
    LET Has(f) == f.id = id IN SelectInSeq(openFiles, Has)

(* The identifier open() gives: the least that is free, but 0 for a file   *)
(* that has just been created, whatever is open.                           *)
NewId(exists) ==
    IF exists
      THEN CHOOSE n \in 0..Len(openFiles) :
              /\ \A f \in ToSet(openFiles) : f.id # n
              /\ \A m \in 0..(n - 1) : \E f \in ToSet(openFiles) : f.id = m
      ELSE 0

OpenSlots == {f.slot : f \in ToSet(openFiles)}

FileLength(e) == IF e.flags = "new" THEN 0 ELSE e.length

(* writeBuffer(): n bytes v from the seek position on.  A block that is    *)
(* full is followed by a new one, which replaces those that followed.      *)
WriteBuffer(d, file, v, n, erase) ==
    LET skip  == IF file.seek = 0 THEN 0 ELSE (file.seek - 1) \div BlockSize
        start == [disk |-> d, block |-> Chain(d, Entry(d, file.slot).first)[skip + 1],
                  offset |-> file.seek - skip * BlockSize, done |-> 0, segment |-> TRUE,
                  full |-> FALSE]
        Extended(s, new) ==
            IF new.block \in {0, Outside}
              THEN [s EXCEPT !.disk = new.disk, !.full = TRUE]
              ELSE [s EXCEPT !.disk = FileTableWrite(FileTableWrite(new.disk, new.block, EOF),
                                                     s.block, new.block),
                             !.block = new.block, !.offset = 0, !.segment = TRUE]
        Scratch(s) == IF s.segment /\ file.seek + s.done < file.length
                        THEN FreePage(s.disk) ELSE [disk |-> s.disk, page |-> {}]
        Kept(s, free) == IF erase THEN LeaveInScratch(free.disk, free.page, s.block)
                                  ELSE free.disk
        Put(s) ==
            IF s.full THEN s
            ELSE [s EXCEPT !.disk = FlashWrite(Kept(s, Scratch(s)), s.block, s.offset + 1, v),
                           !.offset = @ + 1, !.done = @ + 1, !.segment = FALSE]
        Step(s, i) == Put(IF ~s.full /\ s.offset = BlockSize
                            THEN Extended(s, FreeBlock(s.disk)) ELSE s)
    IN  FoldLeft(Step, start, [i \in 1..n |-> i])

\* Faulty: the old entry stays valid.
FlushFileKeepsOld(d, file) ==
    LET e == Entry(d, file.slot)
        InNew(c) == IF c.slot = None THEN c.disk     \* what is written goes to address 0
                    ELSE WriteEntry(c.disk, c.slot, [e EXCEPT !.length = file.length])
    IN  CASE e.length = file.length -> d
          [] e.length # file.length /\ e.flags = "new" ->
               WriteEntry(d, file.slot, [e EXCEPT !.flags = "valid", !.length = file.length])
          [] OTHER -> InNew(CreateDirectoryEntry(d, file.dir))

(* flush(): the length goes into the entry if it has never been written,   *)
(* or else into another entry; the descriptor keeps the one it has.        *)
FlushFile(d, file) ==
    LET e == Entry(d, file.slot)
        InNew(c) == IF c.slot = None THEN c.disk     \* what is written goes to address 0
                    ELSE WriteEntry(c.disk, c.slot, [e EXCEPT !.length = file.length])
    IN  CASE e.length = file.length -> d
          [] e.length # file.length /\ e.flags = "new" ->
               WriteEntry(d, file.slot, [e EXCEPT !.flags = "valid", !.length = file.length])
          [] OTHER -> InNew(CreateDirectoryEntry(
                               WriteEntry(d, file.slot, [e EXCEPT !.flags = "deleted"]),
                               file.dir))

Splice(old, at, v, n) ==
    [i \in 1..(IF at + n > Len(old) THEN at + n ELSE Len(old)) |->
        IF i > at /\ i <= at + n THEN v ELSE old[i]]

-----------------------------------------------------------------------------
(* What load() or format() finds or makes.                                 *)

Magic == [name |-> None, first |-> Root, flags |-> "valid", length |-> Size]

Init ==
    /\ disk = [table |-> [b \in Blocks |-> CASE b < TableSize -> TableSize
                                             [] b = TableSize -> EOF
                                             [] OTHER -> UNUSED],
               data  |-> [b \in Blocks |-> IF b = Root THEN [Blank EXCEPT ![1] = Magic]
                                                      ELSE Blank],
               last  |-> 0,
               fault |-> "none"]
    /\ openFiles = <<>>
    /\ calls = 0
    /\ text = [p \in Paths |-> None]
    /\ saved = [p \in Paths |-> 0]

Sound == disk'.fault = "none" \/ Does(disk'.fault)

Counted == calls < MaxCalls /\ calls' = calls + 1 /\ Sound

(* createDirectory().                                                      *)
CreateDirectory(path) ==
    /\ path[2] \in Dirs
    /\ Lookup(disk, path) = None
    /\ openFiles = <<>> \/ Does("create_open")
    /\ \E c \in {CreateFile(disk, Root, path[2], "dir")} :
          /\ disk' = c.disk
          /\ text' = IF c.slot = None THEN text ELSE [text EXCEPT ![path] = <<>>]
    /\ Counted
    /\ UNCHANGED <<openFiles, saved>>

Descriptors(path, slot, d, id, seek) ==
    <<[id |-> id, path |-> path, slot |-> slot, dir |-> GetDirectoryOf(d, path),
       seek |-> seek, length |-> FileLength(Entry(d, slot))]>> \o openFiles

(* MicroBitFile::MicroBitFile(), open(): a file that exists ...            *)
OpenFile(path) ==
    /\ path[2] \in Files
    /\ GetDirectoryOf(disk, path) # None
    /\ LET slot == Lookup(disk, path)
       IN  /\ slot # None /\ slot \notin OpenSlots
           /\ openFiles' = Descriptors(path, slot, disk, NewId(TRUE), 0)
           /\ text' = IF text[path] = Unknown /\ FileLength(Entry(disk, slot)) = 0
                        THEN [text EXCEPT ![path] = <<>>] ELSE text
    /\ UNCHANGED <<disk, calls, saved>>

(* ... or a new one.                                                       *)
CreateOpen(path) ==
    /\ path[2] \in Files
    /\ Lookup(disk, path) = None /\ GetDirectoryOf(disk, path) # None
    /\ openFiles = <<>> \/ Does("create_open")
    /\ \E c \in {CreateFile(disk, GetDirectoryOf(disk, path), path[2], "new")} :
          /\ disk' = c.disk
          /\ IF c.slot = None
               THEN UNCHANGED <<openFiles, text>>
               ELSE /\ openFiles' = Descriptors(path, c.slot, c.disk, NewId(FALSE), 0)
                    /\ text' = [text EXCEPT ![path] = <<>>]
    /\ saved' = [saved EXCEPT ![path] = 0]
    /\ Counted

(* seek(): MicroBitFile::setPosition(), append() and getPosition().        *)
Seek(n, position) ==
    /\ n \in DOMAIN openFiles
    /\ LET f == Descriptor(openFiles[n].id)
       IN  /\ position \in 0..openFiles[f].length
           /\ openFiles[f].seek # position
           /\ openFiles' = [openFiles EXCEPT ![f].seek = position]
    /\ UNCHANGED <<disk, calls, text, saved>>

InsideBlock(file, n) ==
    /\ file.seek + n <= file.length
    /\ (file.seek % BlockSize) + n <= BlockSize
    /\ file.seek = 0 \/ file.seek % BlockSize # 0
    /\ FreePage(disk).disk.fault = "none"

(* write(), called for the n-th open file; MBFS_CACHE_SIZE is 0.           *)
Write(n, v, size, erase) ==
    /\ n \in DOMAIN openFiles
    /\ LET f == Descriptor(openFiles[n].id)
           file == openFiles[f]
       IN  /\ file.seek + size <= MaxLength
           /\ file.seek = file.length \/ InsideBlock(file, size) \/ Does("overwrite")
           /\ erase => file.seek < file.length /\ Does("overwrite")
           /\ \E w \in {WriteBuffer(disk, file, v, size, erase)} :
                LET end == file.seek + w.done
                    path == openFiles[n].path
                IN  /\ disk' = w.disk
                    /\ openFiles' = [openFiles EXCEPT
                                       ![f].seek = end,
                                       ![f].length = IF end > @ THEN end ELSE @]
                    /\ text' = [text EXCEPT ![path] = Splice(@, openFiles[n].seek, v, w.done)]
    /\ Counted
    /\ UNCHANGED saved

(* read(): the seek position moves on by what there is to read.            *)
Read(n) ==
    /\ n \in DOMAIN openFiles
    /\ LET f == Descriptor(openFiles[n].id)
       IN  /\ openFiles[f].seek < openFiles[f].length
           /\ openFiles' = [openFiles EXCEPT ![f].seek = @ + 1]
    /\ UNCHANGED <<disk, calls, text, saved>>

(* flush(), of a file that is new: the entry of another is replaced, but   *)
(* not the descriptor's, and the next flush() or close() makes a second.   *)
Flush(n) ==
    /\ n \in DOMAIN openFiles
    /\ LET file == openFiles[Descriptor(openFiles[n].id)]
           e == Entry(disk, file.slot)
       IN  /\ e.length # file.length
           /\ e.flags = "new"
           /\ disk' = FlushFile(disk, file)
           /\ saved' = [saved EXCEPT ![openFiles[n].path] = file.length]
    /\ Counted
    /\ UNCHANGED <<openFiles, text>>

(* close().                                                                *)
Close(n) ==
    /\ n \in DOMAIN openFiles
    /\ LET f == Descriptor(openFiles[n].id)
       IN  /\ \/ \A m \in DOMAIN openFiles \ {f} : Entry(disk, openFiles[m].slot).flags # "new"
              \/ Does("create_open")
           /\ disk' = FlushFile(disk, openFiles[f])
           /\ openFiles' = RemoveAt(openFiles, f)
           /\ saved' = [saved EXCEPT ![openFiles[n].path] = openFiles[f].length]
    /\ Sound
    /\ UNCHANGED <<calls, text>>

(* remove(), of a file that is not open.                                   *)
RemoveFile(path) ==
    /\ path[2] \in Files
    /\ GetDirectoryOf(disk, path) # None
    /\ LET slot == Lookup(disk, path)
       IN  /\ slot # None /\ slot \notin OpenSlots
           /\ LET blocks == ToSet(Chain(disk, Entry(disk, slot).first))
                  freed  == [disk EXCEPT !.table =
                               [b \in Blocks |-> IF b \in blocks THEN DELETED ELSE @[b]]]
              IN  disk' = WriteEntry(freed, slot, [Entry(disk, slot) EXCEPT !.flags = "deleted"])
    /\ text' = [text EXCEPT ![path] = None]
    /\ Counted
    /\ UNCHANGED <<openFiles, saved>>

(* Power is lost between two calls: load() finds the file system.          *)
Restart ==
    /\ openFiles # <<>> \/ disk.last # 0
    /\ openFiles' = <<>>
    /\ disk' = [disk EXCEPT !.last = 0]
    /\ text' = [p \in Paths |->
                  CASE text[p] \in {None, Unknown} \/ p[2] \in Dirs -> text[p]
                    [] text[p] \notin {None, Unknown} /\ p[2] \in Files ->
                         IF \E f \in ToSet(openFiles) :
                               f.path = p /\ Entry(disk, f.slot).flags = "new"
                           THEN Unknown ELSE SubSeq(text[p], 1, saved[p])]
    /\ UNCHANGED <<calls, saved>>

Next ==
    \/ \E p \in Paths : CreateDirectory(p) \/ OpenFile(p) \/ CreateOpen(p) \/ RemoveFile(p)
    \/ \E n \in 1..Len(openFiles) :
          \/ \E position \in {0, openFiles[n].length} : Seek(n, position)
          \/ \E v \in Bytes, size \in 1..MaxLength, erase \in BOOLEAN : Write(n, v, size, erase)
          \/ Read(n) \/ Flush(n) \/ Close(n)
    \/ Restart

Spec == Init /\ [][Next]_vars

-----------------------------------------------------------------------------
Open(path) == SelectInSeq(openFiles, LAMBDA f : f.path = path)

Contents(path) ==
    LET e == Entry(disk, Lookup(disk, path))
        blocks == Chain(disk, e.first)
        length == IF Open(path) # 0 THEN openFiles[Open(path)].length ELSE FileLength(e)
    IN  [i \in 1..length |->
            disk.data[blocks[(i - 1) \div BlockSize + 1]][((i - 1) % BlockSize) + 1]]

(* A file that was written holds what was written, at its position, also   *)
(* after other files have come and gone, blocks have been recycled and the *)
(* power has been lost, back to where it was last flushed (flush(), close()*)
(* and the warning at line 906).                                           *)
FilesKept ==
    \A p \in Paths : text[p] \notin {None, Unknown} =>
        /\ Lookup(disk, p) # None
        /\ p[2] \in Files => Contents(p) = text[p]

Entries(dir) == {s \in ToSet(Slots(disk, dir)) : IsValid(Entry(disk, s))}

Directories == {Root} \cup {Entry(disk, s).first : s \in
                              {s \in Entries(Root) : Entry(disk, s).flags = "dir"}}

(* The chains of the files and directories are disjoint lists of blocks in *)
(* use, that end: no block is given to two of them, or given again while it*)
(* is used (getFreeBlock(), recycleFileTable()).                           *)
ChainsDisjoint ==
    LET firsts == {Root} \cup UNION {{Entry(disk, s).first : s \in Entries(dir)} :
                                        dir \in Directories}
    IN  /\ \A f \in firsts : /\ disk.table[Last(Chain(disk, f))] = EOF
                             /\ IsInjective(Chain(disk, f))
        /\ \A f, g \in firsts : f # g =>
              ToSet(Chain(disk, f)) \cap ToSet(Chain(disk, g)) = {}

(* A name is in its directory once, and only if it was created and not yet *)
(* removed: replacing the entry of a file that has grown leaves no other   *)
(* behind, and a new directory is empty (flush(), createDirectoryEntry()). *)
OneEntry ==
    \A dir \in Directories : \A s, t \in {e \in Entries(dir) : Entry(disk, e) # Magic} :
        /\ Entry(disk, s).name = Entry(disk, t).name => s = t
        /\ \E p \in Paths : /\ text[p] # None /\ p[2] = Entry(disk, s).name
                            /\ GetDirectoryOf(disk, p) = dir

(* No block is taken from outside the file system: the comment at line 41  *)
(* says that the search wraps around the file system.                      *)
StaysInside == disk.fault # "wrap"
=============================================================================
