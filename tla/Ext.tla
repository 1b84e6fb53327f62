-------------------------------- MODULE Ext --------------------------------
(***************************************************************************)
(* Reading a file of an ext2 or ext4 volume from beginning to end, as the  *)
(* loop of command/boot.c (which loads the kernel) and that of             *)
(* command/cat.c do: the map from file blocks to disk blocks, through the  *)
(* indirect blocks or the extents, and one read() after the other.         *)
(*                                                                         *)
(* The byte at place n of the file is the number n; every byte that is not *)
(* the file's (a block number that nobody set, the next block on the disk) *)
(* is Junk.  Sizes are in bytes of a small block.                          *)
(***************************************************************************)
EXTENDS Integers, Sequences, SequencesExt

CONSTANTS
    BlockSize,    \* s_blocksize
    NDir,         \* EXT2_IND_BLOCK: the direct blocks of an inode
    PerBlock,     \* index_per_block: block numbers in an indirect block
    Chunks,       \* what a loop asks of one read(): 512 in cat, 8K in boot
    MaxSize       \* bound: bytes of a file

VARIABLES
    file,   \* the file: the file system that holds it, its size, its extents (their
            \* numbers of blocks) and whether the header in the inode is one of extents
            \* ("leaf"), of a deeper tree ("index") or has no magic number ("bad")
    chunk,  \* the size of the reads of the loop
    f_pos,  \* the position of the descriptor
    mem,    \* what the reads have delivered
    stop    \* the loop: "no", "end", "error" or "fault"

vars == <<file, chunk, f_pos, mem, stop>>

Junk == -1
Ceil(a, b) == (a + b - 1) \div b
Least(a, b) == IF a < b THEN a ELSE b
Clamp(a) == IF a < 0 THEN 0 ELSE a
UpTo(s, n) == SubSeq(s, 1, Least(n, Len(s)))

-----------------------------------------------------------------------------
(* The block map.  The file's block n stands for its number on the disk;    *)
(* the trees of indirect blocks are the ones that mke2fs's layout gives.    *)

Ind  == NDir
Dind == Ind + PerBlock
Tind == Dind + PerBlock * PerBlock

get_start_layer(start) ==
    CASE start < Ind -> 0
      [] start >= Ind /\ start < Dind -> 1
      [] start >= Dind /\ start < Tind -> 2
      [] start >= Tind -> 3

get_dir_block(start, len) ==
    [i \in 1..Least(len, NDir - start) |-> start + i - 1]

get_ind_block(start, len) ==
    [i \in 1..Least(len, PerBlock - Clamp(start)) |-> Ind + Clamp(start) + i - 1]

\* The block numbers from..PerBlock - 1 of an indirect block whose first one
\* is of file block `base'.
Rest(base, from) == [i \in 1..Clamp(PerBlock - from) |-> base + from + i - 1]

get_dind_block(start, len) ==
    LET s == Clamp(start)
        j0 == s \div PerBlock
    IN  UpTo(FlattenSeq(
               [j \in 1..Clamp(PerBlock - j0) |->
                  Rest(Dind + (j0 + j - 1) * PerBlock,
                       IF j = 1 THEN s % PerBlock ELSE 0)]), len)

\* The second loop starts at start / PerBlock for every turn of the first.
get_tind_block(start, len) ==
    LET s == Clamp(start)
        j0 == s \div (PerBlock * PerBlock)
        k0 == s \div PerBlock
    IN  UpTo(FlattenSeq(
               [j \in 1..Clamp(PerBlock - j0) |-> FlattenSeq(
                  [k \in 1..Clamp(PerBlock - k0) |->
                     Rest(Tind + ((j0 + j - 1) * PerBlock + k0 + k - 1) * PerBlock,
                          IF j = 1 /\ k = 1 THEN s % PerBlock ELSE 0)])]), len)

\* A mutant of get_block_indexs: the second layer starts at the first one's place.
get_block_indexs_late(start, len) ==
    LET l == get_start_layer(start)
        a == IF l = 0 THEN get_dir_block(start, len) ELSE <<>>
        b == IF l <= 1 THEN a \o get_ind_block(start, len - Len(a)) ELSE a
        c == IF l <= 2 THEN b \o get_dind_block(start - Dind, len - Len(b)) ELSE b
    IN  c \o get_tind_block(start - Tind, len - Len(c))

\* get_block_indexs(): from the layer of the first block on, each layer fills
\* what the ones before it have left.
get_block_indexs(start, len) ==
    LET l == get_start_layer(start)
        a == IF l = 0 THEN get_dir_block(start, len) ELSE <<>>
        b == IF l <= 1 THEN a \o get_ind_block(start - Ind, len - Len(a)) ELSE a
        c == IF l <= 2 THEN b \o get_dind_block(start - Dind, len - Len(b)) ELSE b
    IN  c \o get_tind_block(start - Tind, len - Len(c))

\* ext4_get_extent_blkbums(): the pointer to the extents advances by the
\* square of their size, past the inode, so only the first one is found; in a
\* deeper tree none is, and that is no error.
Found == IF file.head = "leaf" THEN file.extents[1] ELSE 0

ext4_get_extent_blkbums(skip, nums) ==
    [i \in 1..Clamp(Least(nums, Found - skip)) |-> skip + i - 1]

ext4_get_blknums(skip, nums) ==
    IF file.extents # <<>> THEN ext4_get_extent_blkbums(skip, nums)
    ELSE get_block_indexs(skip, nums)

\* `len' bytes from `off' of the i-th of the block numbers found.
Bytes(blocks, i, off, len) ==
    [k \in 1..len |->
        LET o == off + k - 1
            n == blocks[i] * BlockSize + o
        IN  IF i > Len(blocks) \/ o >= BlockSize THEN Junk
            ELSE IF n >= file.size THEN Junk ELSE n]

-----------------------------------------------------------------------------
(* read() *)

\* ext2_read() and ext4_read() call the block map for the blocks of the read.
\* A read of real bytes in ext2: the blocks are counted from the size alone,
\* not from where in its block the read begins.
Read2(real, blocks) ==
    LET n == Ceil(real, BlockSize)
        off == f_pos % BlockSize
        last == IF real % BlockSize = 0 THEN BlockSize ELSE real % BlockSize
        len(i) == IF i = n THEN last ELSE IF i = 1 THEN BlockSize - off ELSE BlockSize
    IN  FlattenSeq([i \in 1..n |-> Bytes(blocks, i, IF i = 1 THEN off ELSE 0, len(i))])

\* What ext2_read() returns.
real_size(size) == Least(size, file.size - f_pos)

\* ext4_read() computes a negative number of bytes behind the first block, in
\* an unsigned type: it then writes block numbers past its array.
Overruns(size) ==
    f_pos < file.size /\ f_pos % BlockSize # 0
    /\ size <= BlockSize - (f_pos % BlockSize)

\* Without the magic number the block map gives -EINVAL, and so does ext4_read().
Invalid == f_pos < file.size /\ file.extents # <<>> /\ file.head = "bad"

\* ext4_read() of whole blocks, or of the first part of one: never less than
\* it is asked for, however little is left of the file.
Read4(size, blocks) ==
    LET n == Ceil(size, BlockSize)
        len(i) == IF i = n THEN size - (n - 1) * BlockSize ELSE BlockSize
    IN  FlattenSeq([i \in 1..n |-> Bytes(blocks, i, 0, len(i))])

-----------------------------------------------------------------------------
Files ==
    [fs : {"ext2"}, size : 0..MaxSize, extents : {<<>>}, head : {"leaf"}]
    \cup [fs : {"ext4"}, size : 1..MaxSize, extents : {<<>>}, head : {"leaf"}]
    \cup {[fs |-> "ext4", size |-> n, extents |-> e, head |-> h] :
            n \in 1..MaxSize, e \in {<<1, Ceil(MaxSize, BlockSize)>>,
                                     <<Ceil(MaxSize, BlockSize)>>},
            h \in {"leaf", "index", "bad"}}

Init ==
    /\ file \in Files /\ chunk \in Chunks
    /\ f_pos = 0 /\ mem = <<>> /\ stop = "no"

\* One turn of the loop: read() and what it returns decides.
Deliver(data) ==
    /\ mem' = mem \o data
    /\ f_pos' = f_pos + Len(data)
    /\ stop' = IF data = <<>> THEN "end" ELSE "no"
    /\ UNCHANGED <<file, chunk>>

ext2_read ==
    /\ stop = "no" /\ file.fs = "ext2"
    /\ \E blocks \in {get_block_indexs(f_pos \div BlockSize,
                                      Ceil(real_size(chunk), BlockSize))} :
       \E data \in {Read2(real_size(chunk), blocks)} : Deliver(data)

ext4_read ==
    /\ stop = "no" /\ file.fs = "ext4" /\ ~Invalid /\ ~Overruns(chunk)
    /\ \E blocks \in {ext4_get_blknums(f_pos \div BlockSize, Ceil(chunk, BlockSize))} :
       \E data \in {IF f_pos >= file.size THEN <<>> ELSE Read4(chunk, blocks)} :
          Deliver(data)

Overrun ==
    /\ stop = "no" /\ file.fs = "ext4" /\ ~Invalid /\ Overruns(chunk)
    /\ stop' = "fault"
    /\ UNCHANGED <<file, chunk, f_pos, mem>>

\* A negative result ends both loops.
ReadFails ==
    /\ stop = "no" /\ file.fs = "ext4" /\ Invalid
    /\ stop' = "error"
    /\ UNCHANGED <<file, chunk, f_pos, mem>>

\* The loop of command/boot.c ends by itself at the size that fstat() gave.
BootEnds ==
    /\ stop = "no" /\ Len(mem) >= file.size
    /\ stop' = "end"
    /\ UNCHANGED <<file, chunk, f_pos, mem>>

Next == ext2_read \/ ext4_read \/ Overrun \/ ReadFails \/ BootEnds

Spec == Init /\ [][Next]_vars

-----------------------------------------------------------------------------
(* Properties *)

\* The blocks that the map gets right: not behind the first index block of
\* the triply indirect ones, not behind the first extent, nothing of a tree.
MapLimit ==
    IF file.extents = <<>> THEN Tind + PerBlock * PerBlock ELSE Found

\* When a loop ends, memory holds the file, byte for byte and in order, on
\* ext2 nothing else, on ext4 less than one read() more, provided that the
\* block map reaches that far: with the sizes that cat and boot ask for the
\* reads never lose or repeat a part of a block, and pass from one layer of
\* indirect blocks to the next at the right place.
FileLoaded ==
    /\ stop = "end" /\ file.size <= MapLimit * BlockSize =>
         /\ Len(mem) >= file.size
         /\ \A i \in 1..file.size : mem[i] = i - 1
    /\ Len(mem) < file.size + (IF file.fs = "ext2" THEN 1 ELSE chunk)
=============================================================================
