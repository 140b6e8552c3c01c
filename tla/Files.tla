---------------------------------- MODULE Files ----------------------------------
(* Files of the Lab3 kernel: the system calls of userprog/syscall.c on file   *)
(* descriptors and the loading of programs (load() of userprog/process.c),    *)
(* over file structures, the in-memory inodes, the inodes with their three    *)
(* levels of blocks, the free map and the root directory (filesys/file.c,     *)
(* inode.c, free-map.c, filesys.c, directory.c).                              *)
(*                                                                            *)
(* One call is one step: programs run one after the other (Process.tla), so   *)
(* no two calls overlap.  The buffer cache is the disk it promises (Disk.tla) *)
(* and the machine is shut down properly.  Sizes and offsets count sectors.   *)
EXTENDS Integers, FiniteSets, SequencesExt

CONSTANTS
    Name,               \* file names
    Value,              \* what a program writes to a sector
    LastSector,         \* the last sector of the disk
    DIRECT_BLOCKS_COUNT, INDIRECT_BLOCKS_PER_SECTOR,
    CreateSizes, WriteSizes,
    LoadSizes,          \* how far load() reads a file
    MaxFd,              \* descriptors handed out before a reboot, at most
    MaxFiles,           \* struct files there is memory for
    MaxCreates, MaxBoots

ASSUME BlocksAssumption ==
    DIRECT_BLOCKS_COUNT \in Nat \ {0} /\ INDIRECT_BLOCKS_PER_SECTOR \in Nat \ {0}
\* The sectors of the longest file.
Capacity == DIRECT_BLOCKS_COUNT + INDIRECT_BLOCKS_PER_SECTOR
                + INDIRECT_BLOCKS_PER_SECTOR * INDIRECT_BLOCKS_PER_SECTOR
ASSUME DiskAssumption == LastSector \in Nat /\ LastSector >= 3
\* A program passes any size it likes, less than zero too.
ASSUME SizeAssumption == CreateSizes \subseteq Int /\ WriteSizes \subseteq Int /\ LoadSizes \subseteq Nat
ASSUME BoundAssumption == MaxFd \in Nat /\ MaxFiles \in Nat
\* "" is a name no program gives a file; ".." is the entry of the parent.
ASSUME NameAssumption == IsFiniteSet(Name) /\ "" \notin Name /\ ".." \notin Name

Sector == 0 .. LastSector
FREE_MAP_SECTOR == 0
\* What formatting takes: two inodes, the free map's data, the directory's.
Reserved == 0 .. 3
StructFile == 1 .. MaxFiles
Slot == 0 .. Cardinality(Name) + 1

Zeros == [kind |-> "zeros"]
Data(v) == [kind |-> "data", value |-> v]
Index(b) == [kind |-> "index", blocks |-> b]
Inode(d) == [kind |-> "inode", data |-> d]
System == [kind |-> "system"]
NoBlocks == [i \in 1 .. INDIRECT_BLOCKS_PER_SECTOR |-> 0]
\* direct_blocks, then indirect_block and doubly_indirect_block.
IndirectBlock == DIRECT_BLOCKS_COUNT + 1
DoublyIndirectBlock == DIRECT_BLOCKS_COUNT + 2
Unallocated == [i \in 1 .. DoublyIndirectBlock |-> 0]

NotOpen == [cnt |-> 0, deny |-> 0, removed |-> FALSE,
            data |-> [length |-> 0, blocks |-> Unallocated]]
Freed == [inode |-> 0]
Unused == [name |-> "", inode |-> 0]
Parent == [name |-> "..", inode |-> 1]

VARIABLES
    map,        \* free_map: the sectors taken
    disk,
    slots,      \* the root directory's entries
    inodes,     \* open_inodes, by sector
    files,      \* the memory of each struct file
    file_array, \* file_array[fd]: the struct file a descriptor points to
    halted,     \* why the machine stopped, if it did
    creates, boots,     \* calls of sys_create() so far, reboots so far
    content,    \* history: what each file should hold, by its inode's sector
    cut,        \* history: the files whose length a write of no bytes has changed
    opened,     \* history: the inode a descriptor was opened on, until it is read or closed
    failed,     \* history: an operation failed after it had taken sectors, was cut off, or
                \* cut a file to nothing
    full,       \* history: no sector was left for an indirect block
    stale       \* history: a descriptor was used after it had been read or closed
store == <<map, disk, slots>>
memory == <<inodes, files, file_array>>
history == <<content, cut, opened, failed, full, stale>>
vars == <<store, memory, halted, creates, boots, history>>

-----------------------------------------------------------------------------
(* Blocks.  A reservation is under way with map, disk, the entries of the     *)
(* inode or index block at hand, and whether it has succeeded so far.         *)

BlocksOf(c) == IF c.kind = "index" THEN c.blocks ELSE NoBlocks
DivUp(n, d) == (n + d - 1) \div d
Least(a, b) == IF a < b THEN a ELSE b

Full(r) == r.map = Sector
\* bitmap_scan_and_flip(): the lowest free sector.
Lowest(r) == Min(Sector \ r.map)

\* free_map_allocate() for entry i, and zeros written to the new sector.
Take(r, i) ==
    LET s == Lowest(r)
    IN  [r EXCEPT !.map = @ \cup {s}, !.disk[s] = Zeros, !.blocks[i] = s]

\* Faulty: whether there is a sector left is not looked at.
ReserveSectorUnchecked(r, i) ==
    IF r.blocks[i] # 0 THEN r
    ELSE IF Full(r) THEN [r EXCEPT !.disk[0] = Zeros]
    ELSE Take(r, i)

\* inode_reserve_indirect(), level 0; and the direct blocks of inode_reserve().
ReserveSector(r, i) ==
    IF r.blocks[i] # 0 THEN r
    ELSE IF Full(r) THEN [r EXCEPT !.ok = FALSE]
    ELSE Take(r, i)

\* The direct blocks of inode_reserve(), and what inode_reserve_indirect() does at
\* level 1 to a block of pointers: entries 1 to n in turn, up to the first failure.
ReserveSectors(r, n) ==
    LET walk[j \in 0 .. n] ==
            IF j = 0 THEN r
            ELSE LET q == walk[j - 1] IN IF q.ok THEN ReserveSector(q, j) ELSE q
    IN  walk[n]

\* The block of pointers entry i names.  Whether there was a sector for a new one
\* is not looked at: zeros are written to whatever sector the entry names.
IndexBlock(r, i) ==
    IF r.blocks[i] # 0 THEN r
    ELSE IF Full(r) THEN [r EXCEPT !.disk[r.blocks[i]] = Zeros, !.full = TRUE]
    ELSE Take(r, i)
\* It is read, and written back unless a reservation in it failed.
Entered(p, i) == [p EXCEPT !.blocks = BlocksOf(p.disk[p.blocks[i]])]
WrittenBack(p, i, q) ==
    [q EXCEPT !.blocks = p.blocks, !.disk[p.blocks[i]] = IF q.ok THEN Index(q.blocks) ELSE @]

\* inode_reserve_indirect(), level 1: n sectors below entry i.
ReserveIndirect(r, i, n) ==
    LET p == IndexBlock(r, i)
    IN  WrittenBack(p, i, ReserveSectors(Entered(p, i), n))

\* How many of n sectors are below entry j of a doubly indirect block.
Below(n, j) == Least(INDIRECT_BLOCKS_PER_SECTOR, n - (j - 1) * INDIRECT_BLOCKS_PER_SECTOR)
\* The loop of level 2: n sectors below the first entries.
ReserveIndirects(r, n) ==
    LET last == DivUp(n, INDIRECT_BLOCKS_PER_SECTOR)
        walk[j \in 0 .. last] ==
            IF j = 0 THEN r
            ELSE LET q == walk[j - 1] IN IF q.ok THEN ReserveIndirect(q, j, Below(n, j)) ELSE q
    IN  walk[last]

\* inode_reserve_indirect(), level 2.
ReserveDoubly(r, i, n) ==
    LET p == IndexBlock(r, i)
    IN  WrittenBack(p, i, ReserveIndirects(Entered(p, i), n))

\* The three levels of inode_reserve().
ReserveBlocks(r, n) ==
    LET rest == n - DIRECT_BLOCKS_COUNT
        far == rest - INDIRECT_BLOCKS_PER_SECTOR
        direct == ReserveSectors(r, Least(n, DIRECT_BLOCKS_COUNT))
        single == IF direct.ok /\ rest > 0
                  THEN ReserveIndirect(direct, IndirectBlock, Least(rest, INDIRECT_BLOCKS_PER_SECTOR))
                  ELSE direct
    IN  IF single.ok /\ far > 0
        THEN ReserveDoubly(single, DoublyIndirectBlock,
                           Least(far, INDIRECT_BLOCKS_PER_SECTOR * INDIRECT_BLOCKS_PER_SECTOR))
        ELSE single

\* inode_reserve().  It ends in an assertion if all is reserved and the file is to
\* be longer still.
Reserve(r, n) ==
    IF n < 0 THEN [r EXCEPT !.ok = FALSE]
    ELSE LET q == ReserveBlocks(r, n) IN [q EXCEPT !.ok = @ /\ n <= Capacity]
Asserted(r, n) == IF n > Capacity /\ ReserveBlocks(r, n).ok THEN "capacity" ELSE halted

\* index_to_sector().
SectorAt(dsk, b, k) ==
    LET i == k - DIRECT_BLOCKS_COUNT
        j == i - INDIRECT_BLOCKS_PER_SECTOR
        Entry(s, e) == BlocksOf(dsk[s])[e + 1]
    IN  IF i < 0 THEN b[k + 1]
        ELSE IF j < 0 THEN Entry(b[IndirectBlock], i)
        ELSE Entry(Entry(b[DoublyIndirectBlock], j \div INDIRECT_BLOCKS_PER_SECTOR),
                   j % INDIRECT_BLOCKS_PER_SECTOR)

\* Faulty: the blocks of the doubly indirect block are forgotten.
IndexSectorsSingle(dsk, d) == IF d.length > DIRECT_BLOCKS_COUNT THEN {d.blocks[IndirectBlock]} ELSE {}

\* The sectors inode_deallocate() releases: those of the data and the index
\* blocks that lead to them.
IndexSectors(dsk, d) ==
    LET rest == d.length - DIRECT_BLOCKS_COUNT
        far == rest - INDIRECT_BLOCKS_PER_SECTOR
        doubly == d.blocks[DoublyIndirectBlock]
    IN  (IF rest > 0 THEN {d.blocks[IndirectBlock]} ELSE {})
        \cup (IF far > 0 THEN {doubly} \cup {BlocksOf(dsk[doubly])[j] :
                                    j \in 1 .. DivUp(far, INDIRECT_BLOCKS_PER_SECTOR)}
              ELSE {})
Sectors(dsk, d) == {SectorAt(dsk, d.blocks, k) : k \in 0 .. d.length - 1} \cup IndexSectors(dsk, d)

-----------------------------------------------------------------------------
(* In-memory inodes and file structures.                                      *)

\* Faulty: an inode that is open is not counted up.
InodeOpenedOnce(i) ==
    IF inodes[i] # NotOpen THEN inodes
    ELSE [inodes EXCEPT ![i] = [cnt |-> 1, deny |-> 0, removed |-> FALSE, data |-> disk[i].data]]
\* inode_open() and inode_reopen().
InodeOpened(i) ==
    IF inodes[i] # NotOpen THEN [inodes EXCEPT ![i].cnt = @ + 1]
    ELSE [inodes EXCEPT ![i] = [cnt |-> 1, deny |-> 0, removed |-> FALSE, data |-> disk[i].data]]

\* Faulty: the blocks of a removed inode go with the first close.
LastCloseFirst(i) == inodes[i].cnt = 1 \/ inodes[i].removed
LastClose(i) == inodes[i].cnt = 1

\* inode_close(), with what inode_allow_write() has counted down before: the last
\* one releases the sectors of a removed inode; free_map_release() asserts that
\* they are taken.
InodeClose(i, allowed) ==
    LET gone == {i} \cup Sectors(disk, inodes[i].data)
    IN  /\ inodes' = IF LastClose(i) THEN [inodes EXCEPT ![i] = NotOpen]
                     ELSE [inodes EXCEPT ![i].cnt = @ - 1, ![i].deny = @ - allowed]
        /\ IF LastClose(i) /\ inodes[i].removed
           THEN /\ map' = map \ gone
                /\ halted' = IF gone \subseteq map THEN halted ELSE "release"
                /\ content' = [content EXCEPT ![i] = <<>>]
           ELSE UNCHANGED <<map, halted, content>>

\* Faulty: memory in use is given out.
FileMemoryTwice == IF file_array = <<>> THEN {1} ELSE Range(file_array)
\* calloc() of a struct file: memory given back earlier, or memory never used.
FileMemory ==
    LET used == Range(file_array) \cup {c \in StructFile : files[c] # Freed}
        fresh == StructFile \ used
    IN  {c \in used : files[c] = Freed} \cup (IF fresh = {} THEN {} ELSE {Min(fresh)})

FileFreed(c) == [files EXCEPT ![c] = Freed]

\* file_close(); file_allow_write() asserts that no more than the openers deny.
FileClose(c) ==
    LET i == files[c].inode
    IN  IF files[c].deny /\ inodes[i].deny \notin 1 .. inodes[i].cnt
        THEN /\ halted' = "deny"
             /\ UNCHANGED <<map, inodes, files, content>>
        ELSE /\ InodeClose(i, IF files[c].deny THEN 1 ELSE 0)
             /\ files' = FileFreed(c)

-----------------------------------------------------------------------------
(* The directory.                                                             *)

\* lookup() begins after entry 0, which is the parent directory's.
Lookup(name) == {i \in Slot \ {0} : slots[i].name = name}
\* dir_add() looks for an unused entry from entry 0 on.
FreeSlot == Min({i \in Slot : slots[i] = Unused})

MayAdd(name) == Lookup(name) = {}

-----------------------------------------------------------------------------
(* The calls.                                                                 *)

Runs == halted = "no"
Fresh(m) == [map |-> m, disk |-> disk, blocks |-> Unallocated, ok |-> TRUE, full |-> full]

\* filesys_create(): whatever fails after the inode has its sector, only that
\* sector is released; a size below zero is met by an assertion (inode_create()).
sys_create(name, size) ==
    /\ Runs /\ map # Sector
    /\ creates < MaxCreates /\ creates' = creates + 1
    /\ LET i == Lowest([map |-> map])
           r == Reserve(Fresh(map \cup {i}), size)
           added == r.ok /\ MayAdd(name)
           inode == [length |-> size, blocks |-> r.blocks]
       IN  /\ halted' = IF size < 0 THEN "length" ELSE Asserted(Fresh(map \cup {i}), size)
           /\ map' = IF added \/ halted' # "no" THEN r.map ELSE r.map \ {i}
           /\ disk' = IF r.ok THEN [r.disk EXCEPT ![i] = Inode(inode)] ELSE r.disk
           /\ slots' = IF added THEN [slots EXCEPT ![FreeSlot] = [name |-> name, inode |-> i]]
                       ELSE slots
           /\ content' = IF added THEN [content EXCEPT ![i] = [k \in 1 .. size |-> Zeros]]
                         ELSE content
           /\ cut' = IF added THEN cut \ {i} ELSE cut
           /\ failed' = (failed \/ (~added /\ map' # map))
           /\ full' = r.full
    /\ UNCHANGED <<memory, boots, opened, stale>>

\* sys_open(): descriptors are numbered on and on.
sys_open(name) ==
    /\ Runs /\ Len(file_array) < MaxFd /\ Lookup(name) # {}
    /\ \E c \in FileMemory :
        LET i == slots[Min(Lookup(name))].inode
        IN  /\ inodes' = InodeOpened(i)
            /\ files' = [files EXCEPT ![c] = [inode |-> i, pos |-> 0, deny |-> FALSE]]
            /\ file_array' = Append(file_array, c)
            /\ opened' = Append(opened, i)
    /\ UNCHANGED <<store, halted, creates, boots, content, cut, failed, full, stale>>

\* What may be a program: no executable begins with zeros.
Executable(d) == d.length > 0 /\ disk[SectorAt(disk, d.blocks, 0)].kind = "data"

\* load() reads in the file of a program and denies writes to it if it is one.
\* Either way it never closes the file.
load(name) ==
    /\ Runs /\ Lookup(name) # {}
    /\ \E c \in FileMemory, size \in LoadSizes, program \in BOOLEAN :
        LET i == slots[Min(Lookup(name))].inode
            open == InodeOpened(i)
        IN  /\ program => Executable(open[i].data)
            /\ files' = [files EXCEPT ![c] =
                          [inode |-> i, pos |-> Least(size, open[i].data.length), deny |-> program]]
            /\ inodes' = IF program THEN [open EXCEPT ![i].deny = @ + 1] ELSE open
            /\ halted' = IF inodes'[i].deny <= inodes'[i].cnt THEN halted ELSE "deny"
    /\ UNCHANGED <<store, file_array, creates, boots, history>>

\* The struct file behind a descriptor, if it has not been freed since.
Behind(fd) == files[file_array[fd]]
Usable(fd) == Runs /\ Behind(fd) # Freed
Used(fd) == stale' = (stale \/ opened[fd] = 0)
Done(fd) == opened' = [opened EXCEPT ![fd] = 0]

\* Faulty: a write stops at the end of the file.
ExtendsNever(d, end) == FALSE
\* byte_to_sector() finds no sector for the byte before end: it is past the end of
\* the file, or before its beginning.
Extends(d, end) == end <= 0 \/ end > d.length

\* Faulty: the longer length stays in memory.
WrittenInodeShort(i, d) == disk[i]
WrittenInode(i, d) == Inode(d)

\* What file i should hold when v has been written to it after sector pos.
Promised(i, pos, size, v) ==
    [k \in 1 .. Max({Len(content[i]), pos + size}) |->
        IF k \in pos + 1 .. pos + size THEN Data(v)
        ELSE IF k <= Len(content[i]) THEN content[i][k]
        ELSE Zeros]

\* inode_write_at() for struct file c: a write past the end first reserves the
\* blocks, and ends there if it cannot; what it reserved stays in the in-memory
\* inode.  A write of no bytes gets that far too.
FileWrite(c, size, v) ==
    LET i == files[c].inode
        pos == files[c].pos
        d == inodes[i].data
        before == [Fresh(map) EXCEPT !.blocks = d.blocks]
        extends == Extends(d, pos + size)
        r == IF extends THEN Reserve(before, pos + size) ELSE before
        longer == [length |-> IF extends /\ r.ok THEN pos + size ELSE d.length, blocks |-> r.blocks]
        dsk == IF extends /\ r.ok THEN [r.disk EXCEPT ![i] = WrittenInode(i, longer)] ELSE r.disk
        wrote == r.ok /\ size > 0
        end == IF wrote THEN pos + size ELSE pos
        written == {SectorAt(dsk, r.blocks, k) : k \in pos .. end - 1}
    IN  /\ map' = r.map
        /\ disk' = [s \in Sector |-> IF s \in written THEN Data(v) ELSE dsk[s]]
        /\ inodes' = [inodes EXCEPT ![i].data = longer]
        /\ files' = [files EXCEPT ![c].pos = end]
        /\ content' = IF wrote THEN [content EXCEPT ![i] = Promised(i, pos, size, v)] ELSE content
        /\ cut' = IF ~wrote /\ longer.length # d.length THEN cut \cup {i} ELSE cut
        /\ failed' = (failed \/ (~r.ok /\ r.map # map) \/ longer.length < d.length)
        /\ full' = r.full
        /\ halted' = IF extends THEN Asserted(before, pos + size) ELSE halted

\* sys_write(): nothing is written to a program that has been loaded.
sys_write(fd, size, v) ==
    /\ Usable(fd) /\ Used(fd)
    /\ IF inodes[Behind(fd).inode].deny # 0
       THEN UNCHANGED <<map, disk, inodes, files, content, cut, failed, full, halted>>
       ELSE FileWrite(file_array[fd], size, v)
    /\ UNCHANGED <<slots, file_array, creates, boots, opened>>

\* sys_close(): the descriptor still points to what is freed.
sys_close(fd) ==
    /\ Usable(fd) /\ Used(fd) /\ Done(fd)
    /\ FileClose(file_array[fd])
    /\ UNCHANGED <<disk, slots, file_array, creates, boots, cut, failed, full>>

\* sys_read(): what is read is FileKept's business; then the file is closed.
sys_read(fd) == sys_close(fd)

\* sys_filesize(): the length of the file, as it is on open.
sys_filesize(fd) ==
    /\ Usable(fd) /\ Used(fd)
    /\ UNCHANGED <<store, memory, halted, creates, boots, content, cut, opened, failed, full>>

\* sys_filesize() of a descriptor nobody has opened: the one call that does not
\* look whether there is a file, and file_length() asserts that there is.
sys_filesize_unopened ==
    /\ Runs
    /\ halted' = "filesize"
    /\ UNCHANGED <<store, memory, creates, boots, history>>

\* Any call on a descriptor whose struct file has been freed: what follows is
\* up to the memory.
Undefined(fd) ==
    /\ Runs /\ Behind(fd) = Freed
    /\ halted' = "undefined"
    /\ Used(fd)
    /\ UNCHANGED <<store, memory, creates, boots, content, cut, opened, failed, full>>

\* filesys_remove(), of the kernel's rm between two programs: dir_remove()
\* opens the inode, marks it removed and closes it.
filesys_remove(name) ==
    /\ Runs /\ Lookup(name) # {}
    /\ LET e == Min(Lookup(name))
           i == slots[e].inode
           gone == {i} \cup Sectors(disk, disk[i].data)
       IN  /\ slots' = [slots EXCEPT ![e] = Unused]
           /\ IF inodes[i] = NotOpen
              THEN /\ map' = map \ gone
                   /\ halted' = IF gone \subseteq map THEN halted ELSE "release"
                   /\ content' = [content EXCEPT ![i] = <<>>]
                   /\ UNCHANGED inodes
              ELSE /\ inodes' = [inodes EXCEPT ![i].removed = TRUE]
                   /\ UNCHANGED <<map, halted, content>>
    /\ UNCHANGED <<disk, files, file_array, creates, boots, cut, opened, failed, full, stale>>

NoInodes == [s \in Sector |-> NotOpen]
NoFiles == [c \in StructFile |-> Freed]

\* filesys_done() and, at the next boot, filesys_init(): files are not closed.
\* free_map_open() cannot read the free map if its inode is gone.
Reboot ==
    /\ Runs /\ boots < MaxBoots
    /\ boots' = boots + 1
    /\ inodes' = NoInodes /\ files' = NoFiles /\ file_array' = <<>> /\ opened' = <<>>
    /\ halted' = IF disk[FREE_MAP_SECTOR] = System THEN "no" ELSE "panic"
    /\ content' = [i \in Sector |-> IF \E e \in Slot : slots[e].inode = i THEN content[i] ELSE <<>>]
    /\ failed' = (failed \/ \E i \in Sector : inodes[i] # NotOpen /\ inodes[i].removed)
    /\ UNCHANGED <<store, creates, cut, full, stale>>

\* do_format().  Entry 0 is written with whatever in_use the stack held.
Init ==
    /\ map = Reserved
    /\ disk = [s \in Sector |-> IF s \in Reserved THEN System ELSE Zeros]
    /\ \E parent \in {Parent, Unused} : slots = [e \in Slot |-> IF e = 0 THEN parent ELSE Unused]
    /\ inodes = NoInodes /\ files = NoFiles /\ file_array = <<>> /\ opened = <<>>
    /\ halted = "no"
    /\ creates = 0 /\ boots = 0
    /\ content = [i \in Sector |-> <<>>] /\ cut = {}
    /\ failed = FALSE /\ full = FALSE /\ stale = FALSE

Next ==
    \/ \E name \in Name :
        \/ \E size \in CreateSizes : sys_create(name, size)
        \/ sys_open(name)
        \/ load(name)
        \/ filesys_remove(name)
    \/ \E fd \in DOMAIN file_array :
        \/ \E size \in WriteSizes, v \in Value : sys_write(fd, size, v)
        \/ sys_read(fd)
        \/ sys_close(fd)
        \/ sys_filesize(fd)
        \/ Undefined(fd)
    \/ sys_filesize_unopened
    \/ Reboot

Spec == Init /\ [][Next]_vars

-----------------------------------------------------------------------------
(* Properties.                                                                *)

Named == {slots[e].inode : e \in {e \in Slot : slots[e].name \in Name}}
File == Named \cup {i \in Sector : inodes[i] # NotOpen}
InodeData(i) == IF inodes[i] # NotOpen THEN inodes[i].data ELSE disk[i].data
Taken(i) == {i} \cup Sectors(disk, InodeData(i))

\* No sector belongs to two files, or twice to one, and none that a file has
\* is free: not after a disk that filled up half way, a removal under an open
\* descriptor, or a descriptor closed twice (inode_reserve(), inode_close()).
SectorsOnce ==
    /\ \A i \in File : LET d == InodeData(i) IN
        /\ Taken(i) \subseteq map \ Reserved
        /\ Cardinality(Taken(i)) = 1 + d.length + Cardinality(IndexSectors(disk, d))
    /\ \A i, j \in File : i # j => Taken(i) \cap Taken(j) = {}

\* No sector is lost, unless a call failed after it had taken some, a write of no
\* bytes emptied a file, or the machine was shut down with a removed file open
\* (free_map_release(), inode_deallocate()).
NoLeak == ~failed => map = Reserved \cup UNION {Taken(i) : i \in File}

\* inode_read_at() of the whole file.
ReadAll(i) == LET d == InodeData(i) IN [k \in 1 .. d.length |-> disk[SectorAt(disk, d.blocks, k - 1)]]

\* A file reads as what was written to it, zeros where nothing was, through
\* whatever descriptors, while removed and still open, when the disk is full and
\* after a reboot, unless a write of no bytes has changed its length: at its
\* beginning that stores the length 0, though tests/userprog/write-zero.c:1 has
\* it return "without writing anything" (inode_write_at(), index_to_sector()).
FileKept == \A i \in File \ cut : ReadAll(i) = content[i]

\* A descriptor that has been neither read nor closed is the file it was opened
\* on, though the memory of closed ones is reused, unless someone used a
\* descriptor again after that (sys_read(), sys_close()).
DescriptorKept ==
    ~stale => \A fd \in DOMAIN file_array : opened[fd] # 0 =>
                Behind(fd) # Freed /\ Behind(fd).inode = opened[fd]

\* An inode is open as often as there are file structures on it, and denies writes
\* as often as programs were loaded from it, also when a descriptor is used too
\* often, and on what it then points to (inode_open(), inode_close()).
OpenCount ==
    \A i \in Sector :
        LET on == {c \in StructFile : files[c] # Freed /\ files[c].inode = i}
        IN  /\ Cardinality(on) = inodes[i].cnt
            /\ Cardinality({c \in on : files[c].deny}) = inodes[i].deny

\* The free map's inode is overwritten, and the machine does not boot again,
\* only when there was no sector for an indirect block; nothing releases a
\* sector that is free, and none more than the openers of a file deny writes to
\* it (inode_reserve_indirect(), free_map_open(), inode_allow_write()).
BootsAgain ==
    /\ halted \notin {"release", "deny"}
    /\ ~full => disk[FREE_MAP_SECTOR] = System /\ halted # "panic"

=============================================================================
