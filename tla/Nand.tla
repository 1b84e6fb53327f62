--------------------------------- MODULE Nand ---------------------------------
(***************************************************************************)
(* The NAND flash of driver/flash: the chip layer (nand_core.c), the bad   *)
(* block table kept in memory (nand_bbt.c), the partitions (flash_core.c)  *)
(* and the one client that writes through them, the MTD interface of       *)
(* YAFFS2 (yaffs_mtdif.c, yaffs_mtdif2.c, the device set-up of             *)
(* yaffs_vfs.c).                                                           *)
(*                                                                         *)
(* A page is its data, the tags in the free part of its spare area, and    *)
(* the bad block marker in the spare area.  The software or hardware ECC   *)
(* decides only how a read is reported (nand_set_ecc_mode() chooses one    *)
(* with a layout; without a layout the modes used here do not work).       *)
(* Power may fail in every call: all of the memory is lost, and what the   *)
(* chip was doing is done in part.                                         *)
(***************************************************************************)
EXTENDS Integers, Sequences, FiniteSets, SequencesExt, FiniteSetsExt

CONSTANTS
    NBlocks,     \* chip_size / erase_size
    NPages,      \* erase_size / write_size
    ScanPages,   \* pages looked at for a marker: 2 on small pages, 1 on large
    PartTables,  \* what "flash.parts" may say: sequences of definitions
    FactoryBad,  \* sets of blocks the chip may be delivered with as bad
    MaxFail,     \* bound: program and erase operations that fail
    MaxOff       \* bound: power failures

ASSUME NandAssumption ==
    /\ NBlocks \in Nat \ {0}
    /\ NPages \in Nat \ {0}
    /\ ScanPages \in 1 .. 2 /\ ScanPages <= NPages
    /\ MaxFail \in Nat /\ MaxOff \in Nat
    /\ FactoryBad \subseteq SUBSET (0 .. NBlocks - 1)

VARIABLES
    cell,      \* the chip: for each block a sequence of pages
    bbt,       \* nand->bbt: 0 good, 1 marked while running, 3 found bad
    oob_buf,   \* nand->oob_buf, the buffer all spare area traffic goes through
    table,     \* the configured partition definitions
    part,      \* the partition that is mounted: its base and its size
    power,     \* "off", "on", "mounted", "marking" (between bbt and marker)
    view,      \* what YAFFS knows of its blocks, by its own numbers
    target,    \* the block a marking is about
    marked,    \* history: blocks delivered as bad, or whose marking returned 0
    suspect,   \* history: those, and the blocks whose marking was begun
    strayed,   \* history: YAFFS has changed a block outside its partition
    used       \* how much of the bounds is used up

vars == <<cell, bbt, oob_buf, table, part, power, view, target,
          marked, suspect, strayed, used>>

Blocks == 0 .. NBlocks - 1

ErasedPage == [data |-> "ff", tags |-> "ff", mark |-> "ff"]
\* The spare area of a page, as it goes through oob_buf.
Spare(page) == [tags |-> page.tags, mark |-> page.mark]

ErasedBlock == [p \in 1 .. NPages |-> ErasedPage]

\* Programming only clears bits: an erased field takes the new value, a field
\* that was not erased is spoilt unless it is left alone.
Over(old, new) == IF new = "ff" THEN old ELSE IF old \in {"ff", new} THEN new ELSE "bad"

Program(page, new) ==
    [data |-> Over(page.data, new.data), tags |-> Over(page.tags, new.tags),
     mark |-> Over(page.mark, new.mark)]

-----------------------------------------------------------------------------
(* Partitions *)

AlignUp(n) == ((n + NPages - 1) \div NPages) * NPages
ChipSize == NBlocks * NPages

\* How a definition says "-" for its size, and leaves its place to the ones
\* before it.
Rest == -1
Following == -1

\* One definition [size, at]: its place follows the one before unless "@" says
\* otherwise; "-" is what the chip has left there.  Lengths are in pages.
ParsePart(state, d) ==
    IF state.error \/ state.base >= ChipSize THEN [state EXCEPT !.error = TRUE]
    ELSE LET size == IF d.size = Rest THEN ChipSize - state.base ELSE AlignUp(d.size)
             base == IF d.at = Following THEN state.base ELSE AlignUp(d.at)
         IN [error |-> FALSE, base |-> base + size,
             parts |-> Append(state.parts, [base |-> base, size |-> size])]

flash_parse_part(defs) ==
    LET end == FoldLeft(ParsePart, [error |-> FALSE, base |-> 0, parts |-> <<>>], defs)
    IN IF end.error THEN <<>> ELSE end.parts

\* slave->chip_size = mtd->chip_size: whoever asks a partition for its size is
\* told the size of the chip.
flash_register(defs) ==
    [i \in DOMAIN flash_parse_part(defs) |->
        [base |-> flash_parse_part(defs)[i].base \div NPages,
         size |-> flash_parse_part(defs)[i].size \div NPages,
         chip_size |-> NBlocks]]

\* The places of the partitions are whole blocks.
ASSUME PartAssumption ==
    \A defs \in PartTables : \A i \in DOMAIN flash_register(defs) : flash_register(defs)[i].base \in Nat

NoPart == [base |-> 0, size |-> 0, chip_size |-> 0]

\* part_read(), part_write_oob(), part_erase(), part_block_is_bad() ...: the
\* block of the chip that a block of the partition is.
OnChip(b) == part.base + b

\* read_super(): the blocks YAFFS works with are those of mtd->chip_size.
YaffsBlocks == 0 .. part.chip_size - 1

-----------------------------------------------------------------------------
(* Bad blocks *)

\* Mutant: only the last of the pages is looked at.
scan_block_fast_last(b) == cell[b][ScanPages].mark # "ff"

\* scan_block_fast(): a block is bad if one of the pages looked at is marked.
scan_block_fast(b) == \E p \in 1 .. ScanPages : cell[b][p].mark # "ff"

\* p is the page of a block that the scan looks at last: it stops at a marker.
LastScanned(b, p) ==
    /\ \A q \in 1 .. p - 1 : cell[b][q].mark = "ff"
    /\ cell[b][p].mark # "ff" \/ p = ScanPages

create_bbt == [b \in Blocks |-> IF scan_block_fast(b) THEN 3 ELSE 0]

\* nand_is_bad_bbt(), for each of the values an entry can have.
nand_is_bad_bbt(b) == bbt[b] \in {1, 3}

\* nand_blk_is_bad() lets the offset chip_size through: the entry behind the
\* table may be anything.  Farther offsets are refused, which YAFFS takes for
\* a bad block as well.
IsBad(b) ==
    IF b \in Blocks THEN {nand_is_bad_bbt(b)}
    ELSE IF b = NBlocks THEN BOOLEAN
    ELSE {TRUE}

-----------------------------------------------------------------------------
(* Booting and mounting *)

Init ==
    /\ table \in PartTables
    /\ \E bad \in FactoryBad, p \in 1 .. ScanPages :
         /\ cell = [b \in Blocks |->
                      IF b \in bad THEN [ErasedBlock EXCEPT ![p].mark = "00"] ELSE ErasedBlock]
         /\ marked = bad /\ suspect = bad
    /\ power = "off" /\ bbt = [b \in Blocks |-> 0] /\ oob_buf = Spare(ErasedPage)
    /\ part = NoPart /\ view = <<>> /\ target = 0
    /\ strayed = FALSE
    /\ used = [fail |-> 0, off |-> 0]

\* nand_register(): the partitions are set up, then the table is built.  The
\* scan leaves the last spare area it has read in oob_buf.
nand_register ==
    /\ power = "off"
    /\ power' = "on"
    /\ bbt' = create_bbt
    /\ \E p \in 1 .. ScanPages : LastScanned(NBlocks - 1, p) /\ oob_buf' = Spare(cell[NBlocks - 1][p])
    /\ UNCHANGED <<cell, table, part, view, target, marked, suspect, strayed, used>>

\* read_super(): get_mtd_device() finds the partition by its number.
get_mtd_device ==
    /\ power = "on" /\ part = NoPart
    /\ \E i \in DOMAIN flash_register(table) : part' = flash_register(table)[i]
    /\ UNCHANGED <<cell, bbt, oob_buf, table, power, view, target, marked, suspect, strayed, used>>

\* nandmtd2_query_block().  A block that is not bad has the tags of its first
\* chunk read; behind the end of the chip that read fails, and the tags are
\* whatever the buffer held.
nandmtd2_query_block(b, bad) ==
    IF bad THEN {"DEAD"}
    ELSE IF OnChip(b) \notin Blocks THEN {"EMPTY", "NEEDS_SCAN"}
    ELSE IF cell[OnChip(b)][1].tags = "ff" THEN {"EMPTY"} ELSE {"NEEDS_SCAN"}

\* The mount asks for the state of every block, the last one last.
Mount ==
    /\ power = "on" /\ part # NoPart
    /\ \E bad \in [YaffsBlocks -> BOOLEAN], st \in [YaffsBlocks -> {"DEAD", "EMPTY", "NEEDS_SCAN"}] :
         /\ \A b \in YaffsBlocks : /\ bad[b] \in IsBad(OnChip(b))
                                   /\ st[b] \in nandmtd2_query_block(b, bad[b])
         /\ view' = [b \in YaffsBlocks |-> [st |-> st[b], n |-> 0]]
         /\ LET read == {OnChip(b) : b \in {c \in YaffsBlocks : ~bad[c]}} \cap Blocks
            IN \/ read = {} /\ UNCHANGED oob_buf
               \/ \E c \in read : (\A d \in read : d <= c) /\ oob_buf' = Spare(cell[c][1])
    /\ power' = "mounted"
    /\ UNCHANGED <<cell, bbt, table, part, target, marked, suspect, strayed, used>>

-----------------------------------------------------------------------------
(* Reading, writing, erasing *)

\* nand_wait(): the status the chip reports after a program or an erase.
nand_wait(failed) ==
    /\ failed => used.fail < MaxFail
    /\ used' = [used EXCEPT !.fail = IF failed THEN @ + 1 ELSE @]

Strays(b) == strayed' = (strayed \/ (b >= part.size /\ OnChip(b) \in Blocks))

SetView(b, st, n) == view' = [view EXCEPT ![b] = [st |-> st, n |-> n]]

\* nand_do_read_oob(): the spare area of the page is in oob_buf afterwards.
nand_do_read_oob(c, p) == oob_buf' = Spare(cell[c][p])

\* nand_read_by_opt(): the spare area too.  The ECC counters tell it whether an
\* error was left uncorrected, which it reports as -EBADMSG.
nand_read_by_opt(c, p, badmsg) ==
    /\ oob_buf' = Spare(cell[c][p])
    /\ nand_wait(badmsg)

\* nandmtd2_read_chunk_tags(), without or with the data.  An error that was not
\* corrected may be the one that makes YAFFS retire the block.
nandmtd2_read_chunk_tags(b, p) ==
    /\ power = "mounted" /\ view[b].st # "DEAD" /\ OnChip(b) \in Blocks
    /\ \/ nand_do_read_oob(OnChip(b), p) /\ UNCHANGED <<view, used>>
       \/ \E badmsg \in BOOLEAN :
            /\ nand_read_by_opt(OnChip(b), p, badmsg)
            /\ IF badmsg THEN SetView(b, "FAILED", view[b].n) ELSE UNCHANGED view
    /\ UNCHANGED <<cell, bbt, table, part, power, target, marked, suspect, strayed>>

\* nand_fill_oob(), automatic placement: the tags go to the free part of
\* oob_buf, the rest of it stays as it is.
nand_fill_oob == [oob_buf EXCEPT !.tags = "t"]

\* What a page that is being written gets.
Written(old) == Program(old, [data |-> "d", tags |-> nand_fill_oob.tags, mark |-> nand_fill_oob.mark])

\* nand_write_by_opt() of one page with its tags.
nand_write_by_opt(c, p, failed) ==
    /\ oob_buf' = nand_fill_oob
    /\ nand_wait(failed)
    /\ \E page \in {Written(cell[c][p])} \cup IF failed THEN {cell[c][p]} ELSE {} :
         cell' = [cell EXCEPT ![c][p] = page]

\* nandmtd2_write_chunk_tags() of the next chunk of the block.
nandmtd2_write_chunk_tags(b) ==
    /\ power = "mounted" /\ view[b].st = "ALLOCATING" /\ view[b].n < NPages
    /\ OnChip(b) \in Blocks
    /\ Strays(b)
    /\ \E failed \in BOOLEAN :
         /\ nand_write_by_opt(OnChip(b), view[b].n + 1, failed)
         /\ SetView(b, IF failed THEN "FAILED" ELSE "ALLOCATING", view[b].n + 1)
    /\ UNCHANGED <<bbt, table, part, power, target, marked, suspect>>

\* Before YAFFS writes the first chunk of a block it reads it: a block that is
\* not erased is not used.
yaffs_check_chunk_erased(b) ==
    /\ power = "mounted" /\ view[b].st = "EMPTY" /\ OnChip(b) \in Blocks
    /\ nand_do_read_oob(OnChip(b), 1)
    /\ SetView(b, IF cell[OnChip(b)][1] = ErasedPage THEN "ALLOCATING" ELSE "NEEDS_SCAN", 0)
    /\ UNCHANGED <<cell, bbt, table, part, power, target, marked, suspect, strayed, used>>

\* A block after its erasure, with the JFFS2 clean marker that may be written
\* over the place of the tags.
JffsCleanMark(flags) ==
    IF "JFFS2" \in flags
    THEN [ErasedBlock EXCEPT ![1] = Program(@, [data |-> "ff", tags |-> "clean", mark |-> "ff"])]
    ELSE ErasedBlock

\* nand_erase() of one block; ok says whether it returns 0.
nand_erase(c, flags, ok) ==
    IF c \notin Blocks \/ ("ALLOWBB" \notin flags /\ nand_is_bad_bbt(c))
    THEN ~ok /\ UNCHANGED <<cell, used>>
    ELSE /\ nand_wait(~ok)
         /\ \E blk \in IF ok THEN {JffsCleanMark(flags)} ELSE {cell[c], ErasedBlock} :
              cell' = [cell EXCEPT ![c] = blk]

\* nandmtd_erase_block() fills in an erase_info but not its flags: nand_erase()
\* may find EDF_ALLOWBB and EDF_JFFS2 there.
nandmtd_erase_block(b) ==
    /\ power = "mounted" /\ view[b].st \in {"NEEDS_SCAN", "ALLOCATING"}
    /\ Strays(b)
    /\ \E flags \in SUBSET {"ALLOWBB", "JFFS2"}, ok \in BOOLEAN :
         /\ nand_erase(OnChip(b), flags, ok)
         /\ SetView(b, IF ok THEN "EMPTY" ELSE "FAILED", 0)
    /\ UNCHANGED <<bbt, oob_buf, table, part, power, target, marked, suspect>>

-----------------------------------------------------------------------------
(* Marking a block bad *)

\* nand_mark_blk_bad() sets the bit in the table first, and then goes on to
\* write the marker.
nand_mark_blk_bad(c) ==
    /\ bbt' = [bbt EXCEPT ![c] = IF @ = 0 THEN 1 ELSE @]
    /\ power' = "marking" /\ target' = c
    /\ suspect' = suspect \cup {c}

\* nand_block_mark_bad(): nothing is done to a block that is bad already.
nand_block_mark_bad(c) ==
    IF nand_is_bad_bbt(c) THEN UNCHANGED <<bbt, power, target, suspect>>
    ELSE nand_mark_blk_bad(c)

nandmtd2_mark_block_bad(b) ==
    /\ power = "mounted" /\ view[b].st = "FAILED" /\ OnChip(b) \in Blocks
    /\ SetView(b, "DEAD", 0)
    /\ nand_block_mark_bad(OnChip(b))
    /\ UNCHANGED <<cell, oob_buf, table, part, marked, strayed, used>>

\* Mutant: oob_buf keeps the marker that was written.
MarkerLeftInBuffer(c) ==
    /\ power = "marking" /\ target = c
    /\ cell' = [cell EXCEPT ![c][1] = Program(@, [data |-> "ff", tags |-> "ff", mark |-> "00"])]
    /\ marked' = marked \cup {c}
    /\ oob_buf' = [tags |-> "ff", mark |-> "00"]
    /\ power' = "mounted"
    /\ UNCHANGED <<bbt, table, part, view, target, suspect, strayed, used>>

\* nand_do_write_oob(): the spare area is all ones but for the marker, and
\* oob_buf is left all ones whatever the status.  Its range errors need an
\* offset or a block outside the chip, which the only caller,
\* nand_mark_blk_bad(), never passes; a write-protected chip (-EROFS) is left
\* out, because the first page write to it stops at the BUG() of
\* nand_write_by_opt().
nand_do_write_oob(c) ==
    /\ power = "marking" /\ target = c
    /\ \E failed \in BOOLEAN :
         /\ nand_wait(failed)
         /\ IF failed THEN UNCHANGED <<cell, marked>>
            ELSE /\ cell' = [cell EXCEPT ![c][1] =
                               Program(@, [data |-> "ff", tags |-> "ff", mark |-> "00"])]
                 /\ marked' = marked \cup {c}
    /\ oob_buf' = Spare(ErasedPage)
    /\ power' = "mounted"
    /\ UNCHANGED <<bbt, table, part, view, target, suspect, strayed>>

-----------------------------------------------------------------------------
(* Power failure *)

\* What an interrupted program or erase operation can leave of a block.
Torn ==
    {cell} \cup
    {[cell EXCEPT ![OnChip(b)][view[b].n + 1] = [Written(@) EXCEPT !.data = "bad"]] :
        b \in {c \in DOMAIN view : /\ view[c].st = "ALLOCATING" /\ view[c].n < NPages
                                   /\ OnChip(c) \in Blocks}} \cup
    {[cell EXCEPT ![OnChip(b)] = [p \in 1 .. NPages |->
        IF p = 1 THEN ErasedPage ELSE [cell[OnChip(b)][p] EXCEPT !.data = "bad"]]] :
        b \in {c \in DOMAIN view : view[c].st = "NEEDS_SCAN" /\ OnChip(c) \in Blocks}}

PowerFail ==
    /\ power # "off" /\ used.off < MaxOff
    /\ used' = [used EXCEPT !.off = @ + 1]
    /\ \/ power # "mounted" /\ UNCHANGED <<cell, strayed>>
       \/ /\ power = "mounted" /\ cell' \in Torn
          /\ strayed' = (strayed \/ \E b \in Blocks : cell'[b] # cell[b] /\ b - part.base >= part.size)
    /\ power' = "off" /\ bbt' = [b \in Blocks |-> 0] /\ oob_buf' = Spare(ErasedPage)
    /\ part' = NoPart /\ view' = <<>> /\ target' = 0
    /\ UNCHANGED <<table, marked, suspect>>

Next ==
    \/ nand_register \/ get_mtd_device \/ Mount \/ PowerFail
    \/ \E b \in DOMAIN view :
         \/ yaffs_check_chunk_erased(b) \/ nandmtd2_write_chunk_tags(b)
         \/ nandmtd_erase_block(b) \/ nandmtd2_mark_block_bad(b)
         \/ \E p \in 1 .. NPages : nandmtd2_read_chunk_tags(b, p)
    \/ \E b \in Blocks : nand_do_write_oob(b)

Spec == Init /\ [][Next]_vars

-----------------------------------------------------------------------------
(* Properties *)

\* The types of the state: cells, the bad block table, the shared buffer.
NandTypeOK ==
    /\ cell \in [Blocks -> [1 .. NPages -> [data : {"ff", "d", "bad"},
                                            tags : {"ff", "t", "clean", "bad"},
                                            mark : {"ff", "00", "bad"}]]]
    /\ bbt \in [Blocks -> {0, 1, 3}]
    /\ oob_buf \in [tags : {"ff", "t", "clean", "bad"}, mark : {"ff", "00"}]
    /\ power \in {"off", "on", "mounted", "marking"}
    /\ \A b \in DOMAIN view : view[b].st \in {"DEAD", "EMPTY", "NEEDS_SCAN", "ALLOCATING", "FAILED"}

\* Bad blocks stay bad: a block that was delivered as bad, or whose marking
\* returned success, is in the table built after every restart, whatever was
\* written, erased, failed or interrupted in between (nand_mark_blk_bad() and
\* create_bbt() agree on where the marker is, and nobody erases it).
MarksLast == power # "off" => \A b \in marked : nand_is_bad_bbt(b)

\* Good blocks stay good: nothing but a marking makes a block bad.  The marker
\* byte that every page program carries along in oob_buf is never a left-over
\* of a bad block's spare area (nand_do_write_oob() resets the buffer, and
\* after a scan the mount reads a good block before anything is written).
GoodStaysGood == \A b \in Blocks : scan_block_fast(b) => b \in suspect

\* A file system on a partition changes no block of another one: flash_core.c
\* gives each <partdef> its <size> and its place.
StaysInPartition == ~strayed
=============================================================================
