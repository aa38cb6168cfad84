-------------------------------- MODULE EasyFs --------------------------------
(***************************************************************************)
(* easy-fs, the disk file system, and OSInode, the open file of the kernel *)
(* on top of it: bitmaps, inodes with direct, indirect and double indirect *)
(* blocks, the root directory, and reading, writing and truncating through *)
(* open files.  Sources: easy-fs/src/{bitmap,efs,layout,vfs}.rs and        *)
(* os/src/fs/inode.rs.                                                     *)
(*                                                                         *)
(* Each operation holds the lock of the file system from its first block   *)
(* access to block_cache_sync_all, so it is one action here; what the      *)
(* block cache below it does with the blocks is module BlockDriver.  A     *)
(* block is a function from its slots to numbers: bytes in a data block,   *)
(* block numbers in an index block, names and inode numbers in a block of  *)
(* the directory.  Block 0 is the super block; the data area starts at 1.  *)
(***************************************************************************)
EXTENDS Integers, SequencesExt

CONSTANTS BLOCK_SZ,               \* slots of a block
          INODE_DIRECT_COUNT,
          INODE_INDIRECT1_COUNT,  \* entries of an index block
          DataBlocks,             \* size of the data area
          Names,                  \* file names, positive numbers
          Handles,                \* open files; each writes its own byte
          Opens,                  \* handle, name and flags of the opens in use
          Writes, Reads,          \* handle and length of the slices in use
          MaxSize                 \* bound on the size of a file

DIRENT_SZ == 2
INDIRECT1_BOUND == INODE_DIRECT_COUNT + INODE_INDIRECT1_COUNT
Slots == 0 .. BLOCK_SZ - 1
Blocks == 1 .. DataBlocks
InodeIds == 0 .. Cardinality(Names)
ROOT == 0
NoHandle == [open |-> FALSE]

ASSUME LayoutAssumption ==
  /\ Names \subseteq Nat \ {0} /\ Handles \subseteq Nat \ {0}
  /\ INODE_DIRECT_COUNT \in Nat \ {0}
  /\ INODE_INDIRECT1_COUNT \in 1..BLOCK_SZ
  /\ BLOCK_SZ % DIRENT_SZ = 0

VARIABLES
  inode_bitmap, data_bitmap,  \* the allocated inodes; the allocated data blocks
  inodes,                     \* the inode area
  blocks,                     \* the data area
  handles,                    \* open files: inode and offset, and the name for reference
  panicked                    \* "no", "full": no block left, "assert"

vars == <<inode_bitmap, data_bitmap, inodes, blocks, handles, panicked>>

-----------------------------------------------------------------------------
(* DiskInode                                                               *)

\* initialize
NewInode(type) == [size |-> 0, type |-> type, indirect1 |-> 0, indirect2 |-> 0,
                   direct |-> [i \in 0 .. INODE_DIRECT_COUNT - 1 |-> 0]]

data_blocks(size) == (size + BLOCK_SZ - 1) \div BLOCK_SZ

\* A bug: an index block is counted as soon as the direct blocks are full.
total_blocks_at_bound(size) ==
  LET n == data_blocks(size)
      rest == n - INDIRECT1_BOUND
  IN  n + (IF n >= INODE_DIRECT_COUNT THEN 1 ELSE 0)
        + (IF n > INDIRECT1_BOUND
           THEN 1 + (rest + INODE_INDIRECT1_COUNT - 1) \div INODE_INDIRECT1_COUNT
           ELSE 0)

\* The data blocks of a file of this size and the index blocks they need.
total_blocks(size) ==
  LET n == data_blocks(size)
      rest == n - INDIRECT1_BOUND
  IN  n + (IF n > INODE_DIRECT_COUNT THEN 1 ELSE 0)
        + (IF n > INDIRECT1_BOUND
           THEN 1 + (rest + INODE_INDIRECT1_COUNT - 1) \div INODE_INDIRECT1_COUNT
           ELSE 0)

get_block_id(disk, inode, id) ==
  IF id < INODE_DIRECT_COUNT THEN inode.direct[id]
  ELSE IF id < INDIRECT1_BOUND
  THEN disk[inode.indirect1][id - INODE_DIRECT_COUNT]
  ELSE LET last == id - INDIRECT1_BOUND
       IN  disk[disk[inode.indirect2][last \div INODE_INDIRECT1_COUNT]]
               [last % INODE_INDIRECT1_COUNT]

\* What reading a file from offset returns, up to its end.
read_at(disk, inode, offset, len) ==
  [i \in 1 .. Min({offset + len, inode.size}) - offset |->
     LET at == offset + i - 1
     IN  disk[get_block_id(disk, inode, at \div BLOCK_SZ)][at % BLOCK_SZ]]

\* The data area after bytes are written at offset; the size is already right.
write_at(disk, inode, offset, bytes) ==
  LET end == Min({offset + Len(bytes), inode.size})
      place == [at \in offset .. end - 1 |->
                  <<get_block_id(disk, inode, at \div BLOCK_SZ), at % BLOCK_SZ>>]
      touched == {place[at][1] : at \in offset .. end - 1}
  IN  [b \in Blocks |->
         IF b \notin touched THEN disk[b]
         ELSE [s \in Slots |->
                 LET here == {at \in offset .. end - 1 : place[at] = <<b, s>>}
                 IN  IF here = {} THEN disk[b][s] ELSE bytes[Max(here) - offset + 1]]]

\* The inode grown to new_size and the data area with its index blocks filled.
\* The blocks of v are used in order: for direct blocks, for the indirect block
\* and its entries, for the double indirect block, and for its rows, each an
\* indirect block followed by its entries.
increase_size(inode, new_size, v) ==
  LET d == INODE_DIRECT_COUNT
      n == INODE_INDIRECT1_COUNT
      current == data_blocks(inode.size)
      total == data_blocks(new_size)
      Next1 == Max({0, Min({total, d}) - current})    \* used for direct blocks
      current1 == Max({current, d}) - d
      total1 == total - d
      Start1 == Next1 + (IF current1 = 0 THEN 1 ELSE 0)
      Next2 == Start1 + Max({0, Min({total1, n}) - current1})
      current2 == Max({current1, n}) - n
      total2 == total1 - n
      Start2 == Next2 + (IF current2 = 0 THEN 1 ELSE 0)
      \* the rows begun by the entries from current2 to p
      Rows(p) == Cardinality({q \in current2 .. p : q % n = 0})
      Entry(p) == v[Start2 + (p - current2) + Rows(p) + 1]
      direct == [i \in 0 .. d - 1 |->
                   IF i \in current .. Min({total, d}) - 1
                   THEN v[i - current + 1] ELSE inode.direct[i]]
      indirect1 == IF total > d /\ current1 = 0 THEN v[Next1 + 1] ELSE inode.indirect1
      indirect2 == IF total1 > n /\ current2 = 0 THEN v[Next2 + 1] ELSE inode.indirect2
      fill1 == IF total <= d THEN blocks
               ELSE [blocks EXCEPT ![indirect1] = [s \in Slots |->
                       IF s \in current1 .. Min({total1, n}) - 1
                       THEN v[Start1 + (s - current1) + 1] ELSE @[s]]]
      row == [a \in 0 .. BLOCK_SZ - 1 |->
                IF a * n \in current2 .. total2 - 1
                THEN v[Start2 + (a * n - current2) + Rows(a * n)]
                ELSE fill1[indirect2][a]]
      rows == {row[p \div n] : p \in current2 .. total2 - 1}
      fill2 == [b \in Blocks |->
                  IF b = indirect2 THEN row
                  ELSE IF b \notin rows THEN fill1[b]
                  ELSE [s \in Slots |->
                          LET here == {p \in current2 .. total2 - 1 :
                                         row[p \div n] = b /\ p % n = s}
                          IN  IF here = {} THEN fill1[b][s] ELSE Entry(Max(here))]]
  IN  [inode |-> [inode EXCEPT !.size = new_size, !.direct = direct,
                               !.indirect1 = indirect1, !.indirect2 = indirect2],
       blocks |-> IF total1 > n THEN fill2 ELSE fill1]

\* clear_size: the blocks of a file, in the order they are given back.
clear_size(inode) ==
  LET n == INODE_INDIRECT1_COUNT
      direct == Min({data_blocks(inode.size), INODE_DIRECT_COUNT})
      single == data_blocks(inode.size) - INODE_DIRECT_COUNT
      double == single - n
      Entries(b, k) == [i \in 1..k |-> blocks[b][i - 1]]
      Row(a) == LET b == blocks[inode.indirect2][a]
                IN  <<b>> \o Entries(b, Min({n, double - a * n}))
  IN  [i \in 1 .. direct |-> inode.direct[i - 1]]
        \o (IF single > 0
            THEN <<inode.indirect1>> \o Entries(inode.indirect1, Min({single, n}))
            ELSE << >>)
        \o (IF double > 0
            THEN <<inode.indirect2>>
                   \o FlattenSeq([a \in 1 .. (double + n - 1) \div n |-> Row(a - 1)])
            ELSE << >>)

\* The inode clear_size leaves.
Cleared(inode) ==
  LET n == data_blocks(inode.size)
  IN  [inode EXCEPT !.size = 0,
                    !.direct = [i \in DOMAIN @ |-> IF i < n THEN 0 ELSE @[i]],
                    !.indirect1 = IF n > INODE_DIRECT_COUNT THEN 0 ELSE @,
                    !.indirect2 = IF n > INDIRECT1_BOUND THEN 0 ELSE @]

-----------------------------------------------------------------------------
(* Inode and OSInode                                                       *)

Zeroed == [s \in Slots |-> 0]

\* An assertion fails; nothing runs after it.
AssertFails ==
  /\ panicked' = "assert"
  /\ UNCHANGED <<inode_bitmap, data_bitmap, inodes, blocks, handles>>

\* alloc_data finds no free bit, and its unwrap panics.  The blocks it handed out
\* before in the same call stay marked; the inode has not been touched.
OutOfBlocks ==
  /\ panicked' = "full"
  /\ data_bitmap' = Blocks
  /\ UNCHANGED <<blocks, handles>>

\* The order in which Bitmap::alloc hands out blocks: the lowest free one first.
Free ==
  LET free == Blocks \ data_bitmap
  IN  [k \in 1 .. Cardinality(free) |->
         CHOOSE b \in free : Cardinality({c \in free : c < b}) = k - 1]

\* Inode::increase_size: the blocks it allocates for the new size.
Needed(inode, new_size) ==
  IF new_size < inode.size THEN 0
  ELSE total_blocks(new_size) - total_blocks(inode.size)

Grown(inode, new_size) ==
  LET v == SubSeq(Free, 1, Needed(inode, new_size))
  IN  IF new_size < inode.size THEN [inode |-> inode, blocks |-> blocks]
      ELSE increase_size(inode, new_size, v)

Allocated(inode, new_size) ==
  ToSet(SubSeq(Free, 1, Needed(inode, new_size)))

\* find_inode_id: the directory is searched entry by entry.
Entries == LET root == read_at(blocks, inodes[ROOT], 0, inodes[ROOT].size)
           IN  [i \in 1 .. Len(root) \div DIRENT_SZ |->
                  [name |-> root[DIRENT_SZ * i - 1], inode |-> root[DIRENT_SZ * i]]]
Found(name) == {i \in DOMAIN Entries : Entries[i].name = name}
find(name) == Entries[Min(Found(name))].inode

\* A bug: the blocks of a truncated file are freed with their contents.
Dealloc_keeps_data(v) == blocks
\* efs dealloc_data: each block is zeroed.
Dealloc(v) == [b \in Blocks |-> IF b \in ToSet(v) THEN Zeroed ELSE blocks[b]]

\* OpenFlags::read_write, and the open file.
OSInode(name, inode, flags) ==
  [open |-> TRUE, name |-> name, inode |-> inode, offset |-> 0,
   readable |-> "WRONLY" \notin flags, writable |-> flags # {}]

\* open_file on an existing file that it empties: Inode::clear.
OpenAndClear(h, name, flags) ==
  LET i == find(name)
      v == clear_size(inodes[i])
  IN  /\ Found(name) # {}
      /\ flags \cap {"CREATE", "TRUNC"} # {}
      /\ IF Len(v) # total_blocks(inodes[i].size) \/ ~IsInjective(v)
            \/ ~(ToSet(v) \subseteq data_bitmap)
         THEN AssertFails
         ELSE /\ inodes' = [inodes EXCEPT ![i] = Cleared(@)]
              /\ blocks' = Dealloc(v)
              /\ data_bitmap' = data_bitmap \ ToSet(v)
              /\ handles' = [handles EXCEPT ![h] = OSInode(name, i, flags)]
              /\ UNCHANGED <<inode_bitmap, panicked>>

OpenAsIs(h, name, flags) ==
  /\ Found(name) # {}
  /\ flags \cap {"CREATE", "TRUNC"} = {}
  /\ handles' = [handles EXCEPT ![h] = OSInode(name, find(name), flags)]
  /\ UNCHANGED <<inode_bitmap, data_bitmap, inodes, blocks, panicked>>

\* create_inode: a new inode, and an entry for it at the end of the directory.
create_inode(h, name, flags) ==
  LET i == Min(InodeIds \ inode_bitmap)
      root == inodes[ROOT]
      end == (root.size \div DIRENT_SZ) * DIRENT_SZ
      size == end + DIRENT_SZ
      grown == Grown(root, size)
  IN  /\ Found(name) = {}
      /\ "CREATE" \in flags
      /\ inode_bitmap' = inode_bitmap \cup {i}
      /\ IF Needed(root, size) > DataBlocks - Cardinality(data_bitmap)
         THEN OutOfBlocks /\ inodes' = [inodes EXCEPT ![i] = NewInode("file")]
         ELSE /\ data_bitmap' = data_bitmap \cup Allocated(root, size)
              /\ inodes' = [inodes EXCEPT ![i] = NewInode("file"),
                                          ![ROOT] = grown.inode]
              /\ blocks' = write_at(grown.blocks, grown.inode, end, <<name, i>>)
              /\ handles' = [handles EXCEPT ![h] = OSInode(name, i, flags)]
              /\ UNCHANGED panicked

open_file(h, name, flags) ==
  /\ ~handles[h].open
  /\ OpenAndClear(h, name, flags) \/ OpenAsIs(h, name, flags)
       \/ create_inode(h, name, flags)

close(h) ==
  /\ handles[h].open
  /\ handles' = [handles EXCEPT ![h] = NoHandle]
  /\ UNCHANGED <<inode_bitmap, data_bitmap, inodes, blocks, panicked>>

\* One slice of the user buffer.
read(h, n) ==
  LET len == Len(read_at(blocks, inodes[handles[h].inode], handles[h].offset, n))
  IN  /\ handles[h].open /\ handles[h].readable
      /\ handles' = [handles EXCEPT ![h].offset = @ + len]
      /\ UNCHANGED <<inode_bitmap, data_bitmap, inodes, blocks, panicked>>

write(h, n) ==
  LET i == handles[h].inode
      offset == handles[h].offset
      grown == Grown(inodes[i], offset + n)
  IN  /\ handles[h].open /\ handles[h].writable
      /\ offset + n <= MaxSize
      /\ IF Needed(inodes[i], offset + n) > DataBlocks - Cardinality(data_bitmap)
         THEN OutOfBlocks /\ UNCHANGED <<inode_bitmap, inodes>>
         ELSE /\ inodes' = [inodes EXCEPT ![i] = grown.inode]
              /\ data_bitmap' = data_bitmap \cup Allocated(inodes[i], offset + n)
              /\ blocks' = write_at(grown.blocks, grown.inode, offset,
                                    [k \in 1..n |-> h])
              /\ handles' = [handles EXCEPT ![h].offset = @ + n]
              /\ UNCHANGED <<inode_bitmap, panicked>>

\* EasyFileSystem::create: everything zero, and the root directory.
Init ==
  /\ inode_bitmap = {ROOT}
  /\ data_bitmap = {}
  /\ inodes = [i \in InodeIds |-> NewInode(IF i = ROOT THEN "dir" ELSE "file")]
  /\ blocks = [b \in Blocks |-> Zeroed]
  /\ handles = [h \in Handles |-> NoHandle]
  /\ panicked = "no"

Next ==
  /\ panicked = "no"
  /\ \E h \in Handles :
       \/ \E o \in Opens : o[1] = h /\ open_file(h, o[2], o[3])
       \/ close(h)
       \/ \E r \in Reads : r[1] = h /\ read(h, r[2])
       \/ \E w \in Writes : w[1] = h /\ write(h, w[2])

Spec == Init /\ [][Next]_vars

-----------------------------------------------------------------------------
(* Properties                                                              *)

\* The blocks each inode holds, index blocks included.
Owned(i) == clear_size(inodes[i])

\* Every variable has its type; inode sizes stay within the bound.
TypeOK ==
  /\ inode_bitmap \subseteq InodeIds
  /\ data_bitmap \subseteq Blocks
  /\ \A i \in InodeIds :
       /\ inodes[i].size \in 0 .. Max({MaxSize, DIRENT_SZ * Cardinality(Names)})
       /\ \A k \in DOMAIN inodes[i].direct : inodes[i].direct[k] \in {0} \cup Blocks
       /\ {inodes[i].indirect1, inodes[i].indirect2} \subseteq {0} \cup Blocks
  /\ DOMAIN blocks = Blocks
  /\ \A h \in Handles : handles[h].open => handles[h].inode \in inode_bitmap
  /\ panicked \in {"no", "full", "assert"}

\* The data bitmap and the inodes agree: every allocated block has one place in
\* one inode, and a block in no inode is free.  Growing a file over the direct
\* and indirect boundaries and truncating it neither lose nor share a block.  A
\* call that finds the disk full half way leaves blocks marked that nobody has,
\* but none that two have.  The assertions hold: Inode::clear gets back as many
\* blocks as total_blocks counts, and Bitmap::dealloc never frees a free block.
BlocksOwned ==
  LET all == FlattenSeq([i \in 1 .. Cardinality(InodeIds) |-> Owned(i - 1)])
  IN  /\ TypeOK /\ panicked # "assert"
      /\ IsInjective(all)
      /\ ToSet(all) \subseteq data_bitmap
      /\ panicked # "full" => ToSet(all) = data_bitmap

\* The file system implements named byte strings, with the name looked up in the
\* directory and the bytes read through the inode: no write is lost, none
\* reaches another file, and a gap left behind a truncation reads as zeros.
Absent == <<-1>>
Files == INSTANCE FileStore WITH
  files <- [f \in Names |->
              LET dir == Entries
                  at == {i \in DOMAIN dir : dir[i].name = f}
                  inode == inodes[dir[Min(at)].inode]
              IN  IF at = {} THEN Absent ELSE read_at(blocks, inode, 0, inode.size)],
  open <- [h \in Handles |->
             IF ~handles[h].open THEN NoHandle
             ELSE [name |-> handles[h].name, offset |-> handles[h].offset]],
  Closed <- NoHandle
ImplementsFiles == Files!Spec
=============================================================================
