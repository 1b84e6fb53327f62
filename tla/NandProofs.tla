------------------------------ MODULE NandProofs ------------------------------
(***************************************************************************)
(* Proofs about Nand: bad blocks stay bad and good ones stay good, for     *)
(* chips of every size, every partition table and any number of failing    *)
(* operations and power failures.                                          *)
(*                                                                         *)
(* The argument: while a file system is mounted, no block it still works   *)
(* with carries a marker on any page, and the marker byte in oob_buf is    *)
(* clear; so every write and every erasure leaves all markers of the chip  *)
(* as they are, and only nand_do_write_oob() adds one.                     *)
(*                                                                         *)
(* Proofs about Ecc, as a part of MCNand: the tags of a chunk survive one  *)
(* flipped cell, and two are noticed.  The syndrome of what is read is the *)
(* sum of the marks that the flipped cells leave in it (SyndromeFlip), and *)
(* the marks of one or two cells are told apart (FixT, FixCode, TwoT,      *)
(* TAndCode, TwoCode).                                                     *)
(***************************************************************************)
EXTENDS MCNand, FiniteSetTheorems, TLAPS

Pages == [data : {"ff", "d", "bad"}, tags : {"ff", "t", "clean", "bad"}, mark : {"ff", "00"}]
Spares == [tags : {"ff", "t", "clean", "bad"}, mark : {"ff", "00"}]
States == {"DEAD", "EMPTY", "NEEDS_SCAN", "ALLOCATING", "FAILED"}

FlashTypes ==
    /\ cell \in [Blocks -> [1 .. NPages -> Pages]]
    /\ bbt \in [Blocks -> {0, 1, 3}]
    /\ oob_buf \in Spares
    /\ table \in PartTables
    /\ part.base \in Nat /\ part.chip_size \in Nat
    /\ power \in {"off", "on", "mounted", "marking"}
    /\ power \in {"off", "on"} => view = <<>>
    /\ power \in {"mounted", "marking"} => view \in [YaffsBlocks -> [st : States, n : Nat]]
    /\ marked \subseteq Blocks

\* Blocks of the chip that the file system still works with.
InUse(b) == OnChip(b) \in Blocks /\ view[b].st # "DEAD"

\* Where markers can be.
Markers ==
    /\ \A b \in Blocks : \A p \in 1 .. NPages : p > ScanPages => cell[b][p].mark = "ff"
    /\ \A b \in marked : scan_block_fast(b)
    /\ \A b \in Blocks : scan_block_fast(b) => b \in suspect

\* What the memory knows of them.
Known ==
    /\ power # "off" => \A b \in marked : nand_is_bad_bbt(b)
    /\ power = "on" => \A b \in Blocks : scan_block_fast(b) => nand_is_bad_bbt(b)
    /\ power \in {"mounted", "marking"} =>
         /\ \A b \in DOMAIN view : InUse(b) => ~scan_block_fast(OnChip(b))
         /\ oob_buf.mark = "ff" \/ \A b \in DOMAIN view : ~InUse(b)
    /\ power = "marking" =>
         /\ target \in Blocks /\ nand_is_bad_bbt(target) /\ target \in suspect
         /\ \A b \in DOMAIN view : OnChip(b) = target => view[b].st = "DEAD"

FlashInv == FlashTypes /\ Markers /\ Known

-----------------------------------------------------------------------------
(* Cells, pages and entries.                                               *)

LEMMA AddCancel ==
    ASSUME NEW x \in Int, NEW y \in Int, NEW z \in Int, x + y = x + z
    PROVE  y = z
OBVIOUS

LEMMA CellFacts ==
    ASSUME FlashTypes, NEW c \in Blocks, NEW p \in 1 .. NPages, NEW x \in Pages
    PROVE  /\ [cell EXCEPT ![c][p] = x] \in [Blocks -> [1 .. NPages -> Pages]]
           /\ \A b \in Blocks : \A q \in 1 .. NPages :
                [cell EXCEPT ![c][p] = x][b][q] = IF b = c /\ q = p THEN x ELSE cell[b][q]
<1>1. cell \in [Blocks -> [1 .. NPages -> Pages]] /\ cell[c] \in [1 .. NPages -> Pages]
  BY DEF FlashTypes
<1>2. [cell EXCEPT ![c][p] = x] = [cell EXCEPT ![c] = [cell[c] EXCEPT ![p] = x]]
  OBVIOUS
<1>3. [cell[c] EXCEPT ![p] = x] \in [1 .. NPages -> Pages]
  BY <1>1
<1> QED BY <1>1, <1>2, <1>3

LEMMA BlockFacts ==
    ASSUME FlashTypes, NEW c \in Blocks, NEW x \in [1 .. NPages -> Pages]
    PROVE  /\ [cell EXCEPT ![c] = x] \in [Blocks -> [1 .. NPages -> Pages]]
           /\ \A b \in Blocks : [cell EXCEPT ![c] = x][b] = IF b = c THEN x ELSE cell[b]
BY DEF FlashTypes

LEMMA PageFacts ==
    ASSUME NEW p \in Pages
    PROVE  /\ Spare(p) \in Spares /\ Spare(p).mark = p.mark /\ p.mark \in {"ff", "00"}
           /\ ErasedPage \in Pages /\ ErasedPage.mark = "ff" /\ ErasedPage.tags = "ff"
           /\ Spare(ErasedPage) \in Spares /\ Spare(ErasedPage).mark = "ff"
BY DEF Pages, Spares, Spare, ErasedPage

\* A program operation that leaves the marker alone.
LEMMA ProgramFacts ==
    ASSUME NEW p \in Pages, NEW d \in {"ff", "d"}, NEW t \in {"ff", "t", "clean"}
    PROVE  /\ Program(p, [data |-> d, tags |-> t, mark |-> "ff"]) \in Pages
           /\ Program(p, [data |-> d, tags |-> t, mark |-> "ff"]).mark = p.mark
BY DEF Program, Over, Pages

\* The marker of a bad block.
LEMMA MarkerFacts ==
    ASSUME NEW p \in Pages
    PROVE  /\ Program(p, [data |-> "ff", tags |-> "ff", mark |-> "00"]) \in Pages
           /\ Program(p, [data |-> "ff", tags |-> "ff", mark |-> "00"]).mark = "00"
BY DEF Program, Over, Pages

LEMMA WrittenFacts ==
    ASSUME NEW p \in Pages, oob_buf \in Spares, oob_buf.mark = "ff"
    PROVE  /\ Written(p) \in Pages /\ Written(p).mark = p.mark
           /\ nand_fill_oob \in Spares /\ nand_fill_oob.mark = "ff"
<1>1. nand_fill_oob \in Spares /\ nand_fill_oob.mark = "ff" /\ nand_fill_oob.tags = "t"
  BY DEF nand_fill_oob, Spares
<1>2. Written(p) = Program(p, [data |-> "d", tags |-> "t", mark |-> "ff"])
  BY <1>1 DEF Written
<1> QED BY <1>1, <1>2, ProgramFacts

LEMMA ErasedFacts ==
    /\ ErasedBlock \in [1 .. NPages -> Pages]
    /\ \A p \in 1 .. NPages : ErasedBlock[p] = ErasedPage /\ ErasedPage.mark = "ff"
BY DEF ErasedBlock, ErasedPage, Pages

LEMMA CleanMarkFacts ==
    ASSUME NEW flags
    PROVE  /\ JffsCleanMark(flags) \in [1 .. NPages -> Pages]
           /\ \A p \in 1 .. NPages : JffsCleanMark(flags)[p].mark = "ff"
<1> DEFINE x == Program(ErasedPage, [data |-> "ff", tags |-> "clean", mark |-> "ff"])
<1>0. 1 \in 1 .. NPages
  BY NandAssumption
<1>1. x \in Pages /\ x.mark = "ff"
  <2>1. ErasedPage \in Pages /\ ErasedPage.mark = "ff"
    BY DEF ErasedPage, Pages
  <2> QED BY <2>1, ProgramFacts
<1>2. CASE "JFFS2" \in flags
  <2>1. JffsCleanMark(flags) = [ErasedBlock EXCEPT ![1] = x]
    BY <1>0, <1>2, ErasedFacts DEF JffsCleanMark
  <2> HIDE DEF x
  <2> QED BY <1>0, <1>1, <2>1, ErasedFacts
<1>3. CASE "JFFS2" \notin flags
  BY <1>3, ErasedFacts DEF JffsCleanMark
<1> QED BY <1>2, <1>3

-----------------------------------------------------------------------------
(* Steps that leave every marker of the chip as it is.                     *)

SameMarks ==
    \A b \in Blocks : \A p \in 1 .. NPages : cell'[b][p].mark = cell[b][p].mark

LEMMA ScanKept ==
    ASSUME SameMarks, NEW b \in Blocks
    PROVE  scan_block_fast(b)' <=> scan_block_fast(b)
<1>1. \A p \in 1 .. ScanPages : p \in 1 .. NPages
  BY NandAssumption
<1> QED BY <1>1 DEF SameMarks, scan_block_fast

LEMMA MarkersKept ==
    ASSUME FlashTypes, Markers, SameMarks, UNCHANGED <<marked, suspect>>
    PROVE  Markers'
<1>1. \A b \in Blocks : scan_block_fast(b)' <=> scan_block_fast(b)
  BY ScanKept
<1>2. marked \subseteq Blocks
  BY DEF FlashTypes
<1> QED BY <1>1, <1>2 DEF Markers, SameMarks

\* No page of a block that is in use carries a marker.
LEMMA InUseClean ==
    ASSUME FlashInv, power \in {"mounted", "marking"}, NEW b \in DOMAIN view, InUse(b)
    PROVE  /\ \A p \in 1 .. NPages : cell[OnChip(b)][p].mark = "ff"
           /\ oob_buf.mark = "ff" /\ OnChip(b) \in Blocks /\ OnChip(b) \notin marked
<1>1. OnChip(b) \in Blocks /\ ~scan_block_fast(OnChip(b)) /\ oob_buf.mark = "ff"
  BY DEF FlashInv, Known, InUse
<1>2. ASSUME NEW p \in 1 .. NPages
      PROVE  cell[OnChip(b)][p].mark = "ff"
  <2>1. CASE p <= ScanPages
    <3>1. p \in 1 .. ScanPages
      BY <2>1, NandAssumption
    <3> QED BY <1>1, <3>1 DEF scan_block_fast
  <2>2. CASE p > ScanPages
    BY <1>1, <2>2 DEF FlashInv, Markers
  <2> QED BY <2>1, <2>2, NandAssumption
<1> QED BY <1>1, <1>2 DEF FlashInv, Markers

\* Rewriting a block in use by one without markers changes no marker.
LEMMA BlockSame ==
    ASSUME FlashInv, power \in {"mounted", "marking"}, NEW b \in DOMAIN view, InUse(b),
           NEW x \in [1 .. NPages -> Pages], \A p \in 1 .. NPages : x[p].mark = "ff",
           cell' = [cell EXCEPT ![OnChip(b)] = x]
    PROVE  SameMarks /\ cell' \in [Blocks -> [1 .. NPages -> Pages]]
<1>1. OnChip(b) \in Blocks /\ \A p \in 1 .. NPages : cell[OnChip(b)][p].mark = "ff"
  BY InUseClean
<1>2. /\ cell' \in [Blocks -> [1 .. NPages -> Pages]]
      /\ \A c \in Blocks : cell'[c] = IF c = OnChip(b) THEN x ELSE cell[c]
  BY <1>1, BlockFacts DEF FlashInv
<1> QED BY <1>1, <1>2 DEF SameMarks

\* The same for one page.
LEMMA PageSame ==
    ASSUME FlashInv, power \in {"mounted", "marking"}, NEW b \in DOMAIN view, InUse(b),
           NEW p \in 1 .. NPages, NEW x \in Pages, x.mark = "ff",
           cell' = [cell EXCEPT ![OnChip(b)][p] = x]
    PROVE  SameMarks /\ cell' \in [Blocks -> [1 .. NPages -> Pages]]
<1>1. OnChip(b) \in Blocks /\ \A q \in 1 .. NPages : cell[OnChip(b)][q].mark = "ff"
  BY InUseClean
<1>2. /\ cell' \in [Blocks -> [1 .. NPages -> Pages]]
      /\ \A c \in Blocks : \A q \in 1 .. NPages :
           cell'[c][q] = IF c = OnChip(b) /\ q = p THEN x ELSE cell[c][q]
  BY <1>1, CellFacts DEF FlashInv
<1> QED BY <1>1, <1>2 DEF SameMarks

\* An entry of the view is set.
LEMMA ViewFacts ==
    ASSUME FlashTypes, power \in {"mounted", "marking"}, UNCHANGED part, NEW b \in DOMAIN view,
           NEW st \in States, NEW n \in Nat, SetView(b, st, n)
    PROVE  /\ view' \in [YaffsBlocks' -> [st : States, n : Nat]]
           /\ DOMAIN view' = DOMAIN view
           /\ view'[b].st = st /\ \A c \in DOMAIN view : c # b => view'[c] = view[c]
<1>1. view \in [YaffsBlocks -> [st : States, n : Nat]] /\ YaffsBlocks' = YaffsBlocks
  BY DEF FlashTypes, YaffsBlocks
<1>2. [st |-> st, n |-> n] \in [st : States, n : Nat]
  OBVIOUS
<1>3. view' = [view EXCEPT ![b] = [st |-> st, n |-> n]]
  BY DEF SetView
<1> QED BY <1>1, <1>2, <1>3

\* A step of the mounted file system on one of its blocks.
LEMMA MountedStep ==
    ASSUME FlashInv, power = "mounted", power' = "mounted",
           UNCHANGED <<bbt, table, part, marked, suspect>>,
           NEW b \in DOMAIN view,
           view' = view \/ \E st \in States, n \in Nat : SetView(b, st, n) /\ (InUse(b) \/ st = "DEAD"
                                                                               \/ OnChip(b) \notin Blocks),
           SameMarks, cell' \in [Blocks -> [1 .. NPages -> Pages]],
           oob_buf' = oob_buf \/ (oob_buf' \in Spares /\ oob_buf'.mark = "ff")
    PROVE  FlashInv'
<1> USE DEF FlashInv
<1>1. /\ view' \in [YaffsBlocks' -> [st : States, n : Nat]] /\ DOMAIN view' = DOMAIN view
      /\ \A c \in DOMAIN view : InUse(c)' => InUse(c)
  <2>1. CASE view' = view
    BY <2>1 DEF FlashTypes, YaffsBlocks, InUse, OnChip
  <2>2. CASE \E st \in States, n \in Nat : SetView(b, st, n) /\ (InUse(b) \/ st = "DEAD"
                                                                 \/ OnChip(b) \notin Blocks)
    <3>1. PICK st \in States, n \in Nat : /\ SetView(b, st, n)
                                          /\ InUse(b) \/ st = "DEAD" \/ OnChip(b) \notin Blocks
      BY <2>2
    <3>2. /\ view' \in [YaffsBlocks' -> [st : States, n : Nat]]
          /\ DOMAIN view' = DOMAIN view
          /\ view'[b].st = st /\ \A c \in DOMAIN view : c # b => view'[c] = view[c]
      BY <3>1, ViewFacts
    <3>3. ASSUME NEW c \in DOMAIN view, InUse(c)'
          PROVE  InUse(c)
      <4>1. CASE c = b
        BY <3>1, <3>2, <3>3, <4>1 DEF InUse, OnChip
      <4>2. CASE c # b
        BY <3>2, <3>3, <4>2 DEF InUse, OnChip
      <4> QED BY <4>1, <4>2
    <3> QED BY <3>2, <3>3
  <2> QED BY <2>1, <2>2
<1>2. FlashTypes'
  BY <1>1 DEF FlashTypes
<1>3. Markers'
  BY MarkersKept
<1>4. Known'
  <2>1. \A c \in marked' : nand_is_bad_bbt(c)'
    BY DEF Known, nand_is_bad_bbt
  <2>2. ASSUME NEW c \in DOMAIN view', InUse(c)'
        PROVE  ~scan_block_fast(OnChip(c))'
    <3>1. InUse(c) /\ OnChip(c) \in Blocks /\ OnChip(c)' = OnChip(c)
      BY <1>1, <2>2 DEF InUse, OnChip
    <3>2. ~scan_block_fast(OnChip(c))
      BY <1>1, <3>1 DEF Known
    <3>3. ASSUME NEW d \in Blocks, d = OnChip(c)
          PROVE  ~scan_block_fast(d)'
      BY <3>2, <3>3, ScanKept
    <3> QED BY <3>1, <3>3
  <2>3. oob_buf'.mark = "ff" \/ \A c \in DOMAIN view' : ~InUse(c)'
    BY <1>1 DEF Known
  <2> QED BY <2>1, <2>2, <2>3 DEF Known
<1> QED BY <1>2, <1>3, <1>4
-----------------------------------------------------------------------------
(* The calls of the mounted file system.                                   *)

LEMMA SameMarksIfSame == cell' = cell => SameMarks
BY DEF SameMarks

LEMMA MountedFacts ==
    ASSUME FlashInv, power = "mounted", NEW b \in DOMAIN view
    PROVE  /\ view[b].st \in States /\ view[b].n \in Nat
           /\ cell \in [Blocks -> [1 .. NPages -> Pages]] /\ oob_buf \in Spares
BY DEF FlashInv, FlashTypes

LEMMA ReadStep ==
    ASSUME FlashInv, NEW b \in DOMAIN view, NEW p \in 1 .. NPages, nandmtd2_read_chunk_tags(b, p)
    PROVE  FlashInv'
<1>1. /\ power = "mounted" /\ InUse(b)
      /\ UNCHANGED <<cell, bbt, table, part, power, marked, suspect>>
  BY DEF nandmtd2_read_chunk_tags, InUse
<1>2. oob_buf' = Spare(cell[OnChip(b)][p])
  BY DEF nandmtd2_read_chunk_tags, nand_do_read_oob, nand_read_by_opt
<1>3. OnChip(b) \in Blocks /\ cell[OnChip(b)][p].mark = "ff" /\ cell[OnChip(b)][p] \in Pages
  BY <1>1, InUseClean, MountedFacts
<1>4. oob_buf' \in Spares /\ oob_buf'.mark = "ff"
  BY <1>2, <1>3, PageFacts
<1>5. view' = view \/ SetView(b, "FAILED", view[b].n)
  BY DEF nandmtd2_read_chunk_tags
<1>6. view[b].n \in Nat /\ "FAILED" \in States /\ cell' \in [Blocks -> [1 .. NPages -> Pages]]
  BY <1>1, MountedFacts DEF States
<1> QED BY <1>1, <1>4, <1>5, <1>6, SameMarksIfSame, MountedStep

LEMMA WriteStep ==
    ASSUME FlashInv, NEW b \in DOMAIN view, nandmtd2_write_chunk_tags(b)
    PROVE  FlashInv'
<1>1. /\ power = "mounted" /\ InUse(b) /\ view[b].n < NPages
      /\ UNCHANGED <<bbt, table, part, power, marked, suspect>>
  BY DEF nandmtd2_write_chunk_tags, InUse
<1>2. PICK failed \in BOOLEAN :
        /\ nand_write_by_opt(OnChip(b), view[b].n + 1, failed)
        /\ SetView(b, IF failed THEN "FAILED" ELSE "ALLOCATING", view[b].n + 1)
  BY DEF nandmtd2_write_chunk_tags
<1>3. /\ view[b].n + 1 \in 1 .. NPages /\ view[b].n + 1 \in Nat
      /\ cell \in [Blocks -> [1 .. NPages -> Pages]] /\ oob_buf \in Spares
  BY <1>1, MountedFacts, NandAssumption
<1> DEFINE q == view[b].n + 1
           c == OnChip(b)
<1>4. c \in Blocks /\ cell[c][q].mark = "ff" /\ cell[c][q] \in Pages /\ oob_buf.mark = "ff"
  BY <1>1, <1>3, InUseClean
<1>5. /\ Written(cell[c][q]) \in Pages /\ Written(cell[c][q]).mark = "ff"
      /\ nand_fill_oob \in Spares /\ nand_fill_oob.mark = "ff"
  BY <1>3, <1>4, WrittenFacts
<1>6. PICK page \in Pages : page.mark = "ff" /\ cell' = [cell EXCEPT ![c][q] = page]
  BY <1>2, <1>4, <1>5 DEF nand_write_by_opt
<1>7. SameMarks /\ cell' \in [Blocks -> [1 .. NPages -> Pages]]
  BY <1>1, <1>3, <1>6, PageSame
<1>8. oob_buf' \in Spares /\ oob_buf'.mark = "ff"
  BY <1>2, <1>5 DEF nand_write_by_opt
<1>9. \E st \in States : SetView(b, st, q)
  BY <1>2 DEF States
<1> HIDE DEF c
<1> QED BY <1>1, <1>3, <1>7, <1>8, <1>9, MountedStep

LEMMA CheckStep ==
    ASSUME FlashInv, NEW b \in DOMAIN view, yaffs_check_chunk_erased(b)
    PROVE  FlashInv'
<1>1. /\ power = "mounted" /\ InUse(b)
      /\ UNCHANGED <<cell, bbt, table, part, power, marked, suspect>>
      /\ oob_buf' = Spare(cell[OnChip(b)][1])
  BY DEF yaffs_check_chunk_erased, InUse, nand_do_read_oob
<1>2. 1 \in 1 .. NPages
  BY NandAssumption
<1>3. OnChip(b) \in Blocks /\ cell[OnChip(b)][1].mark = "ff" /\ cell[OnChip(b)][1] \in Pages
  BY <1>1, <1>2, InUseClean, MountedFacts
<1>4. oob_buf' \in Spares /\ oob_buf'.mark = "ff"
  BY <1>1, <1>3, PageFacts
<1>5. \E st \in States, n \in Nat : SetView(b, st, n)
  <2>1. "ALLOCATING" \in States /\ "NEEDS_SCAN" \in States
    BY DEF States
  <2> QED BY <2>1 DEF yaffs_check_chunk_erased
<1>6. cell' \in [Blocks -> [1 .. NPages -> Pages]]
  BY <1>1, MountedFacts
<1> QED BY <1>1, <1>4, <1>5, <1>6, SameMarksIfSame, MountedStep

LEMMA EraseStep ==
    ASSUME FlashInv, NEW b \in DOMAIN view, nandmtd_erase_block(b)
    PROVE  FlashInv'
<1>1. /\ power = "mounted" /\ view[b].st # "DEAD"
      /\ UNCHANGED <<oob_buf, bbt, table, part, power, marked, suspect>>
  BY DEF nandmtd_erase_block
<1>2. PICK flags \in SUBSET {"ALLOWBB", "JFFS2"}, ok \in BOOLEAN :
        nand_erase(OnChip(b), flags, ok) /\ SetView(b, IF ok THEN "EMPTY" ELSE "FAILED", 0)
  BY DEF nandmtd_erase_block
<1>3. cell \in [Blocks -> [1 .. NPages -> Pages]]
  BY <1>1, MountedFacts
<1>4. SameMarks /\ cell' \in [Blocks -> [1 .. NPages -> Pages]]
  <2>1. CASE cell' = cell
    BY <1>3, <2>1, SameMarksIfSame
  <2>2. CASE cell' # cell
    <3>1. InUse(b) /\ \E x \in {JffsCleanMark(flags), cell[OnChip(b)], ErasedBlock} :
                        cell' = [cell EXCEPT ![OnChip(b)] = x]
      BY <1>1, <1>2, <2>2 DEF nand_erase, InUse
    <3>2. PICK x \in {JffsCleanMark(flags), cell[OnChip(b)], ErasedBlock} :
            cell' = [cell EXCEPT ![OnChip(b)] = x]
      BY <3>1
    <3>3. x \in [1 .. NPages -> Pages] /\ \A p \in 1 .. NPages : x[p].mark = "ff"
      <4>1. /\ cell[OnChip(b)] \in [1 .. NPages -> Pages]
            /\ \A p \in 1 .. NPages : cell[OnChip(b)][p].mark = "ff"
        BY <1>1, <1>3, <3>1, InUseClean
      <4> QED BY <3>2, <4>1, CleanMarkFacts, ErasedFacts
    <3> QED BY <1>1, <3>1, <3>2, <3>3, BlockSame
  <2> QED BY <2>1, <2>2
<1>5. \E st \in States, n \in Nat : SetView(b, st, n)
  <2>1. "EMPTY" \in States /\ "FAILED" \in States
    BY DEF States
  <2> QED BY <1>2, <2>1
<1>6. InUse(b) \/ OnChip(b) \notin Blocks
  BY <1>1 DEF InUse
<1> QED BY <1>1, <1>4, <1>5, <1>6, MountedStep

\* The bit in the table is set before the marker is written.
LEMMA MarkStep ==
    ASSUME FlashInv, NEW b \in DOMAIN view, nandmtd2_mark_block_bad(b)
    PROVE  FlashInv'
<1> USE DEF FlashInv
<1>1. /\ power = "mounted" /\ view[b].st = "FAILED" /\ OnChip(b) \in Blocks
      /\ SetView(b, "DEAD", 0) /\ UNCHANGED <<cell, oob_buf, table, part, marked>>
  BY DEF nandmtd2_mark_block_bad
<1>2. 0 \in Nat /\ "DEAD" \in States
  BY DEF States
<1>3. CASE nand_is_bad_bbt(OnChip(b))
  <2>1. UNCHANGED <<bbt, power, suspect>>
    BY <1>3 DEF nandmtd2_mark_block_bad, nand_block_mark_bad
  <2>2. cell' \in [Blocks -> [1 .. NPages -> Pages]]
    BY <1>1, MountedFacts
  <2> QED BY <1>1, <1>2, <2>1, <2>2, SameMarksIfSame, MountedStep
<1>4. CASE ~nand_is_bad_bbt(OnChip(b))
  <2>1. /\ bbt' = [bbt EXCEPT ![OnChip(b)] = IF @ = 0 THEN 1 ELSE @]
        /\ power' = "marking" /\ target' = OnChip(b) /\ suspect' = suspect \cup {OnChip(b)}
    BY <1>4 DEF nandmtd2_mark_block_bad, nand_block_mark_bad, nand_mark_blk_bad
  <2>2. /\ view' \in [YaffsBlocks' -> [st : States, n : Nat]]
        /\ DOMAIN view' = DOMAIN view
        /\ view'[b].st = "DEAD" /\ \A c \in DOMAIN view : c # b => view'[c] = view[c]
    BY <1>1, <1>2, ViewFacts
  <2>3. bbt \in [Blocks -> {0, 1, 3}] /\ DOMAIN view \subseteq Int /\ part.base \in Int
    BY <1>1 DEF FlashTypes, YaffsBlocks
  <2>4. /\ bbt' \in [Blocks -> {0, 1, 3}]
        /\ bbt'[OnChip(b)] \in {1, 3}
        /\ \A c \in Blocks : bbt[c] \in {1, 3} => bbt'[c] \in {1, 3}
    BY <1>1, <2>1, <2>3
  <2>5. FlashTypes'
    BY <1>1, <2>1, <2>2, <2>4 DEF FlashTypes
  <2>6. Markers'
    BY <1>1, <2>1 DEF Markers, scan_block_fast
  <2>7. marked \subseteq Blocks /\ \A c \in marked : bbt[c] \in {1, 3}
    BY <1>1 DEF FlashTypes, Known, nand_is_bad_bbt
  <2>8. \A c \in DOMAIN view : InUse(c)' => InUse(c)
    BY <1>1, <2>2 DEF InUse, OnChip
  <2>9. ASSUME NEW c \in DOMAIN view, OnChip(c)' = target'
        PROVE  c = b
    <3>1. c \in Int /\ b \in Int /\ part.base \in Int
      BY <2>3
    <3>2. OnChip(c)' = part.base + c
      BY <1>1 DEF OnChip
    <3>3. target' = part.base + b
      BY <2>1 DEF OnChip
    <3>4. part.base + c = part.base + b
      BY <2>9, <3>2, <3>3
    <3> QED BY <3>1, <3>4, AddCancel, Zenon
  <2>10. Known'
    <3>1. \A c \in marked' : nand_is_bad_bbt(c)'
      BY <1>1, <2>4, <2>7 DEF nand_is_bad_bbt
    <3>2. \A c \in DOMAIN view' : InUse(c)' => ~scan_block_fast(OnChip(c))'
      BY <1>1, <2>2, <2>8 DEF Known, scan_block_fast, OnChip
    <3>3. oob_buf'.mark = "ff" \/ \A c \in DOMAIN view' : ~InUse(c)'
      BY <1>1, <2>2, <2>8 DEF Known
    <3>4. target' \in Blocks /\ nand_is_bad_bbt(target)' /\ target' \in suspect'
      BY <1>1, <2>1, <2>4 DEF nand_is_bad_bbt
    <3>5. \A c \in DOMAIN view' : OnChip(c)' = target' => view'[c].st = "DEAD"
      BY <2>2, <2>9
    <3> QED BY <2>1, <3>1, <3>2, <3>3, <3>4, <3>5 DEF Known
  <2> QED BY <2>5, <2>6, <2>10
<1> QED BY <1>3, <1>4

\* The marker is written, or the chip reports that it was not.
LEMMA MarkerStep ==
    ASSUME FlashInv, NEW c \in Blocks, nand_do_write_oob(c)
    PROVE  FlashInv'
<1> USE DEF FlashInv
<1>1. /\ power = "marking" /\ target = c /\ power' = "mounted" /\ oob_buf' = Spare(ErasedPage)
      /\ UNCHANGED <<bbt, table, part, view, suspect>>
  BY DEF nand_do_write_oob
<1>2. 1 \in 1 .. NPages /\ 1 \in 1 .. ScanPages /\ ~(1 > ScanPages)
  BY NandAssumption
<1>3. cell \in [Blocks -> [1 .. NPages -> Pages]] /\ cell[c][1] \in Pages
  BY <1>2 DEF FlashTypes
<1>4. oob_buf' \in Spares /\ oob_buf'.mark = "ff"
  BY <1>1, <1>3, PageFacts
<1>5. nand_is_bad_bbt(c) /\ c \in suspect /\ \A b \in DOMAIN view : OnChip(b) = c => ~InUse(b)
  BY <1>1 DEF Known, InUse
<1> DEFINE x == Program(cell[c][1], [data |-> "ff", tags |-> "ff", mark |-> "00"])
<1>6. x \in Pages /\ x.mark = "00"
  BY <1>3, MarkerFacts
<1>7. \/ UNCHANGED <<cell, marked>>
      \/ cell' = [cell EXCEPT ![c][1] = x] /\ marked' = marked \cup {c}
  BY <1>2, <1>3 DEF nand_do_write_oob
<1> HIDE DEF x
<1>8. CASE UNCHANGED <<cell, marked>>
  <2>1. FlashTypes'
    BY <1>1, <1>4, <1>8 DEF FlashTypes, YaffsBlocks
  <2>2. Markers'
    BY <1>1, <1>8, SameMarksIfSame, MarkersKept
  <2>3. Known'
    BY <1>1, <1>4, <1>8 DEF Known, nand_is_bad_bbt, InUse, OnChip, scan_block_fast
  <2> QED BY <2>1, <2>2, <2>3
<1>9. CASE cell' = [cell EXCEPT ![c][1] = x] /\ marked' = marked \cup {c}
  <2>1. /\ cell' \in [Blocks -> [1 .. NPages -> Pages]]
        /\ \A b \in Blocks : \A q \in 1 .. NPages :
             cell'[b][q] = IF b = c /\ q = 1 THEN x ELSE cell[b][q]
    BY <1>2, <1>6, <1>9, CellFacts
  <2>2. \A p \in 1 .. ScanPages : p \in 1 .. NPages
    BY NandAssumption
  <2>3. \A b \in Blocks : b # c => (scan_block_fast(b)' <=> scan_block_fast(b))
    BY <2>1, <2>2 DEF scan_block_fast
  <2>4. scan_block_fast(c)'
    BY <1>2, <1>6, <2>1 DEF scan_block_fast
  <2>5. FlashTypes'
    BY <1>1, <1>4, <1>9, <2>1 DEF FlashTypes, YaffsBlocks
  <2>6. Markers'
    <3>1. \A b \in Blocks : \A p \in 1 .. NPages : p > ScanPages => cell'[b][p].mark = "ff"
      BY <1>2, <2>1 DEF Markers
    <3>2. \A b \in marked' : scan_block_fast(b)'
      BY <1>9, <2>3, <2>4 DEF FlashTypes, Markers
    <3>3. \A b \in Blocks : scan_block_fast(b)' => b \in suspect'
      BY <1>1, <1>5, <2>3 DEF Markers
    <3> QED BY <3>1, <3>2, <3>3 DEF Markers
  <2>7. Known'
    <3>1. \A b \in marked' : nand_is_bad_bbt(b)'
      BY <1>1, <1>5, <1>9 DEF Known, nand_is_bad_bbt
    <3>2. ASSUME NEW b \in DOMAIN view, InUse(b)'
          PROVE  ~scan_block_fast(OnChip(b))'
      <4>1. InUse(b) /\ OnChip(b)' = OnChip(b) /\ OnChip(b) \in Blocks
        BY <1>1, <3>2 DEF InUse, OnChip
      <4>2. OnChip(b) # c /\ ~scan_block_fast(OnChip(b))
        BY <1>1, <1>5, <4>1 DEF Known
      <4>3. ASSUME NEW d \in Blocks, d = OnChip(b)
            PROVE  ~scan_block_fast(d)'
        BY <2>3, <4>2, <4>3
      <4> QED BY <4>1, <4>3
    <3> QED BY <1>1, <1>4, <3>1, <3>2 DEF Known
  <2> QED BY <2>5, <2>6, <2>7
<1> QED BY <1>7, <1>8, <1>9

-----------------------------------------------------------------------------
(* Booting, mounting and power failures.                                   *)

LEMMA RegisterStep == FlashInv /\ nand_register => FlashInv'
<1> SUFFICES ASSUME FlashInv, nand_register PROVE FlashInv'
  OBVIOUS
<1> USE DEF FlashInv
<1>1. /\ power = "off" /\ power' = "on" /\ bbt' = [b \in Blocks |-> IF scan_block_fast(b) THEN 3 ELSE 0]
      /\ UNCHANGED <<cell, table, part, view, target, marked, suspect>>
  BY DEF nand_register, create_bbt
<1>2. PICK p \in 1 .. ScanPages : oob_buf' = Spare(cell[NBlocks - 1][p])
  BY DEF nand_register
<1>3. oob_buf' \in Spares
  <2>1. p \in 1 .. NPages /\ NBlocks - 1 \in Blocks
    BY NandAssumption DEF Blocks
  <2>2. cell[NBlocks - 1][p] \in Pages
    BY <2>1 DEF FlashTypes
  <2> QED BY <1>2, <2>2, PageFacts
<1>4. FlashTypes'
  BY <1>1, <1>3 DEF FlashTypes
<1>5. Markers'
  BY <1>1, SameMarksIfSame, MarkersKept
<1>6. \A b \in Blocks : scan_block_fast(b) => nand_is_bad_bbt(b)'
  BY <1>1 DEF nand_is_bad_bbt
<1>7. Known'
  BY <1>1, <1>6 DEF Known, FlashTypes, Markers, scan_block_fast
<1> QED BY <1>4, <1>5, <1>7

LEMMA DeviceStep == FlashInv /\ get_mtd_device => FlashInv'
<1> SUFFICES ASSUME FlashInv, get_mtd_device PROVE FlashInv'
  OBVIOUS
<1> USE DEF FlashInv
<1>1. power = "on" /\ UNCHANGED <<cell, bbt, oob_buf, table, power, view, target, marked, suspect>>
  BY DEF get_mtd_device
<1>2. PICK i \in DOMAIN flash_register(table) : part' = flash_register(table)[i]
  BY DEF get_mtd_device
<1>3. part'.base \in Nat
  BY <1>2, PartAssumption DEF FlashTypes
<1>4. part'.chip_size = NBlocks
  BY <1>2 DEF flash_register
<1>5. FlashTypes'
  BY <1>1, <1>3, <1>4, NandAssumption DEF FlashTypes
<1> QED BY <1>1, <1>5 DEF Markers, Known, scan_block_fast, nand_is_bad_bbt

\* A block that YAFFS does not take for bad was scanned without a marker, and
\* the last one of them is the one that oob_buf holds.
LEMMA MountStep == FlashInv /\ Mount => FlashInv'
<1> SUFFICES ASSUME FlashInv, Mount PROVE FlashInv'
  OBVIOUS
<1> USE DEF FlashInv
<1>1. /\ power = "on" /\ power' = "mounted"
      /\ UNCHANGED <<cell, bbt, table, part, target, marked, suspect>>
  BY DEF Mount
<1>2. PICK bad \in [YaffsBlocks -> BOOLEAN], st \in [YaffsBlocks -> {"DEAD", "EMPTY", "NEEDS_SCAN"}] :
        /\ \A b \in YaffsBlocks : /\ bad[b] \in IsBad(OnChip(b))
                                  /\ st[b] \in nandmtd2_query_block(b, bad[b])
        /\ view' = [b \in YaffsBlocks |-> [st |-> st[b], n |-> 0]]
        /\ LET read == {OnChip(b) : b \in {c \in YaffsBlocks : ~bad[c]}} \cap Blocks
           IN \/ read = {} /\ UNCHANGED oob_buf
              \/ \E c \in read : (\A d \in read : d <= c) /\ oob_buf' = Spare(cell[c][1])
  BY DEF Mount
<1> DEFINE read == {OnChip(b) : b \in {c \in YaffsBlocks : ~bad[c]}} \cap Blocks
<1>3. \A c \in read : ~scan_block_fast(c) /\ c \in Blocks
  BY <1>1, <1>2 DEF IsBad, Known
<1>4. \A b \in YaffsBlocks : InUse(b)' => OnChip(b) \in read
  <2> SUFFICES ASSUME NEW b \in YaffsBlocks, InUse(b)' PROVE OnChip(b) \in read
    OBVIOUS
  <2>1. OnChip(b) \in Blocks /\ st[b] # "DEAD"
    BY <1>1, <1>2 DEF InUse, OnChip
  <2>2. ~bad[b]
    BY <1>2, <2>1 DEF nandmtd2_query_block
  <2> QED BY <2>1, <2>2
<1>5. /\ view' \in [YaffsBlocks' -> [st : States, n : Nat]] /\ DOMAIN view' = YaffsBlocks
  BY <1>1, <1>2 DEF YaffsBlocks, States
<1>6. oob_buf' \in Spares /\ (oob_buf'.mark = "ff" \/ read = {})
  <2>1. CASE read = {} /\ UNCHANGED oob_buf
    BY <2>1 DEF FlashTypes
  <2>2. CASE \E c \in read : oob_buf' = Spare(cell[c][1])
    <3>1. PICK c \in read : oob_buf' = Spare(cell[c][1])
      BY <2>2
    <3>2. 1 \in 1 .. NPages /\ 1 \in 1 .. ScanPages
      BY NandAssumption
    <3>3. cell[c][1] \in Pages /\ cell[c][1].mark = "ff"
      BY <1>3, <3>2 DEF FlashTypes, scan_block_fast
    <3> QED BY <3>1, <3>3, PageFacts
  <2> QED BY <1>2, <2>1, <2>2
<1> HIDE DEF read
<1>7. FlashTypes'
  BY <1>1, <1>5, <1>6 DEF FlashTypes
<1>8. Markers'
  BY <1>1, SameMarksIfSame, MarkersKept
<1>9. Known'
  <2>1. \A b \in marked' : nand_is_bad_bbt(b)'
    BY <1>1 DEF Known, nand_is_bad_bbt
  <2>2. \A b \in DOMAIN view' : InUse(b)' => ~scan_block_fast(OnChip(b))'
    BY <1>1, <1>3, <1>4, <1>5 DEF scan_block_fast, OnChip
  <2>3. oob_buf'.mark = "ff" \/ \A b \in DOMAIN view' : ~InUse(b)'
    BY <1>4, <1>5, <1>6
  <2> QED BY <1>1, <2>1, <2>2, <2>3 DEF Known
<1> QED BY <1>7, <1>8, <1>9

\* What an interrupted operation leaves has the markers that were there.
LEMMA TornSame ==
    ASSUME FlashInv, power = "mounted", cell' \in Torn
    PROVE  SameMarks /\ cell' \in [Blocks -> [1 .. NPages -> Pages]]
<1>1. CASE cell' = cell
  BY <1>1, SameMarksIfSame DEF FlashInv, FlashTypes
<1>2. CASE \E b \in {c \in DOMAIN view : /\ view[c].st = "ALLOCATING" /\ view[c].n < NPages
                                         /\ OnChip(c) \in Blocks} :
             cell' = [cell EXCEPT ![OnChip(b)][view[b].n + 1] = [Written(@) EXCEPT !.data = "bad"]]
  <2>1. PICK b \in DOMAIN view :
          /\ view[b].st = "ALLOCATING" /\ view[b].n < NPages /\ OnChip(b) \in Blocks
          /\ cell' = [cell EXCEPT ![OnChip(b)][view[b].n + 1] = [Written(@) EXCEPT !.data = "bad"]]
    BY <1>2
  <2> DEFINE q == view[b].n + 1
  <2>2. InUse(b) /\ q \in 1 .. NPages /\ oob_buf \in Spares
    BY <2>1, MountedFacts, NandAssumption DEF InUse
  <2>3. cell[OnChip(b)][q] \in Pages /\ cell[OnChip(b)][q].mark = "ff" /\ oob_buf.mark = "ff"
    BY <2>1, <2>2, InUseClean DEF FlashInv, FlashTypes
  <2>4. Written(cell[OnChip(b)][q]) \in Pages /\ Written(cell[OnChip(b)][q]).mark = "ff"
    BY <2>2, <2>3, WrittenFacts
  <2> DEFINE w == Written(cell[OnChip(b)][q])
             x == [w EXCEPT !.data = "bad"]
  <2>5. cell' = [cell EXCEPT ![OnChip(b)][q] = x]
    BY <2>1, <2>2 DEF FlashInv, FlashTypes
  <2>6. w \in Pages /\ w.mark = "ff"
    BY <2>4
  <2> HIDE DEF w
  <2>7. x \in Pages /\ x.mark = "ff"
    BY <2>6 DEF Pages
  <2> HIDE DEF x, q
  <2> QED BY <2>2, <2>5, <2>7, PageSame
<1>3. CASE \E b \in {c \in DOMAIN view : view[c].st = "NEEDS_SCAN" /\ OnChip(c) \in Blocks} :
             cell' = [cell EXCEPT ![OnChip(b)] = [p \in 1 .. NPages |->
               IF p = 1 THEN ErasedPage ELSE [cell[OnChip(b)][p] EXCEPT !.data = "bad"]]]
  <2>1. PICK b \in DOMAIN view :
          /\ view[b].st = "NEEDS_SCAN" /\ OnChip(b) \in Blocks
          /\ cell' = [cell EXCEPT ![OnChip(b)] = [p \in 1 .. NPages |->
               IF p = 1 THEN ErasedPage ELSE [cell[OnChip(b)][p] EXCEPT !.data = "bad"]]]
    BY <1>3
  <2> DEFINE x == [p \in 1 .. NPages |->
                     IF p = 1 THEN ErasedPage ELSE [cell[OnChip(b)][p] EXCEPT !.data = "bad"]]
  <2>2. InUse(b)
    BY <2>1 DEF InUse
  <2>3. ASSUME NEW p \in 1 .. NPages
        PROVE  x[p] \in Pages /\ x[p].mark = "ff"
    <3>1. CASE p = 1
      BY <3>1 DEF ErasedPage, Pages
    <3>2. CASE p # 1
      <4>1. cell[OnChip(b)][p] \in Pages /\ cell[OnChip(b)][p].mark = "ff"
        BY <2>1, <2>2, InUseClean DEF FlashInv, FlashTypes
      <4>2. \A w \in Pages : w.mark = "ff" => [w EXCEPT !.data = "bad"] \in Pages
                                              /\ [w EXCEPT !.data = "bad"].mark = "ff"
        BY DEF Pages
      <4> QED BY <3>2, <4>1, <4>2
    <3> QED BY <3>1, <3>2
  <2>4. x \in [1 .. NPages -> Pages]
    BY <2>3
  <2> HIDE DEF x
  <2> QED BY <2>1, <2>2, <2>3, <2>4, BlockSame DEF x
<1> QED BY <1>1, <1>2, <1>3 DEF Torn

LEMMA PowerStep == FlashInv /\ PowerFail => FlashInv'
<1> SUFFICES ASSUME FlashInv, PowerFail PROVE FlashInv'
  OBVIOUS
<1> USE DEF FlashInv
<1>1. /\ power' = "off" /\ bbt' = [b \in Blocks |-> 0] /\ oob_buf' = Spare(ErasedPage)
      /\ part' = NoPart /\ view' = <<>> /\ UNCHANGED <<table, marked, suspect>>
  BY DEF PowerFail
<1>2. SameMarks /\ cell' \in [Blocks -> [1 .. NPages -> Pages]]
  <2>1. cell' = cell \/ (power = "mounted" /\ cell' \in Torn)
    BY DEF PowerFail
  <2> QED BY <2>1, SameMarksIfSame, TornSame DEF FlashTypes
<1>3. oob_buf' \in Spares
  BY <1>1 DEF Spare, ErasedPage, Spares
<1>4. FlashTypes'
  BY <1>1, <1>2, <1>3 DEF FlashTypes, NoPart
<1>5. Markers'
  BY <1>1, <1>2, MarkersKept
<1> QED BY <1>1, <1>4, <1>5 DEF Known

LEMMA FlashInvInit == Init => FlashInv
<1> SUFFICES ASSUME Init PROVE FlashInv
  OBVIOUS
<1>1. PICK bad \in FactoryBad, p \in 1 .. ScanPages :
        /\ cell = [b \in Blocks |->
                     IF b \in bad THEN [ErasedBlock EXCEPT ![p].mark = "00"] ELSE ErasedBlock]
        /\ marked = bad /\ suspect = bad
  BY DEF Init
<1>2. bad \subseteq Blocks /\ p \in 1 .. NPages /\ ~(p > ScanPages)
  BY NandAssumption DEF Blocks
<1> DEFINE m == [ErasedPage EXCEPT !.mark = "00"]
<1>3. m \in Pages /\ m.mark = "00" /\ ErasedPage \in Pages /\ ErasedPage.mark = "ff"
  BY DEF ErasedPage, Pages
<1>4. [ErasedBlock EXCEPT ![p].mark = "00"] = [ErasedBlock EXCEPT ![p] = m]
  BY <1>2, ErasedFacts
<1> HIDE DEF m
<1>5. /\ cell \in [Blocks -> [1 .. NPages -> Pages]]
      /\ \A b \in Blocks : \A q \in 1 .. NPages :
           cell[b][q] = IF b \in bad /\ q = p THEN m ELSE ErasedPage
  BY <1>1, <1>2, <1>3, <1>4, ErasedFacts
<1>6. \A q \in 1 .. ScanPages : q \in 1 .. NPages
  BY NandAssumption
<1>7. \A b \in Blocks : scan_block_fast(b) <=> b \in bad
  BY <1>3, <1>5, <1>6 DEF scan_block_fast
<1>8. Markers
  <2>1. \A b \in Blocks : \A q \in 1 .. NPages : q > ScanPages => cell[b][q].mark = "ff"
    BY <1>2, <1>3, <1>5
  <2> QED BY <1>1, <1>2, <1>7, <2>1 DEF Markers
<1>9. FlashTypes
  <2>1. oob_buf \in Spares
    BY DEF Init, Spare, ErasedPage, Spares
  <2> QED BY <1>1, <1>2, <1>5, <2>1 DEF Init, FlashTypes, NoPart
<1> QED BY <1>8, <1>9 DEF Init, FlashInv, Known

LEMMA FlashInvStep == FlashInv /\ [Next]_vars => FlashInv'
<1> SUFFICES ASSUME FlashInv, [Next]_vars PROVE FlashInv'
  OBVIOUS
<1>1. CASE UNCHANGED vars
  BY <1>1 DEF vars, FlashInv, FlashTypes, Markers, Known, scan_block_fast, nand_is_bad_bbt,
              InUse, OnChip, YaffsBlocks
<1>2. CASE Next
  BY <1>2, RegisterStep, DeviceStep, MountStep, PowerStep, CheckStep, WriteStep, EraseStep,
     MarkStep, ReadStep, MarkerStep DEF Next
<1> QED BY <1>1, <1>2

\* The state of the flash has its types.
THEOREM NandTypes == Spec => []NandTypeOK
<1>1. FlashInv => NandTypeOK
  BY DEF FlashInv, FlashTypes, NandTypeOK, Pages, Spares, States
<1> QED BY FlashInvInit, FlashInvStep, <1>1, PTL DEF Spec

\* A block that was delivered as bad or marked with success is bad in the table
\* after every restart, on chips of every size.
THEOREM NandMarksLast == Spec => []MarksLast
<1>1. FlashInv => MarksLast
  BY DEF FlashInv, Known, MarksLast
<1> QED BY FlashInvInit, FlashInvStep, <1>1, PTL DEF Spec

\* Nothing but the marking of a block puts a marker where the scan looks.
THEOREM NandGoodStaysGood == Spec => []GoodStaysGood
<1>1. FlashInv => GoodStaysGood
  BY DEF FlashInv, Markers, GoodStaysGood
<1> QED BY FlashInvInit, FlashInvStep, <1>1, PTL DEF Spec

-----------------------------------------------------------------------------
(* Parities *)

LEMMA SameCount == \A S : E!Cardinality(S) = Cardinality(S)
BY DEF E!Cardinality, Cardinality

LEMMA OddFlip ==
    ASSUME NEW S, IsFiniteSet(S), NEW p
    PROVE  /\ IsFiniteSet(E!Flip(S, p))
           /\ E!Odd(E!Flip(S, p)) <=> ~E!Odd(S)
<1>0. Cardinality(S) \in Nat
  BY FS_CardinalityType
<1>1. CASE p \in S
  <2>1. IsFiniteSet(S \ {p}) /\ Cardinality(S \ {p}) = Cardinality(S) - 1
    BY <1>1, FS_RemoveElement
  <2>2. E!Flip(S, p) = S \ {p}
    BY <1>1 DEF E!Flip
  <2>3. ((Cardinality(S) - 1) % 2 = 1) <=> ~(Cardinality(S) % 2 = 1)
    BY <1>0
  <2>4. (Cardinality(E!Flip(S, p)) % 2 = 1) <=> ~(Cardinality(S) % 2 = 1)
    BY <2>1, <2>2, <2>3
  <2>5. IsFiniteSet(E!Flip(S, p))
    BY <2>1, <2>2
  <2>6. E!Odd(E!Flip(S, p)) <=> ~E!Odd(S)
    BY <2>4, SameCount DEF E!Odd
  <2> QED BY <2>5, <2>6
<1>2. CASE p \notin S
  <2>1. IsFiniteSet(S \cup {p}) /\ Cardinality(S \cup {p}) = Cardinality(S) + 1
    BY <1>2, FS_AddElement
  <2>2. E!Flip(S, p) = S \cup {p}
    BY <1>2 DEF E!Flip
  <2>3. ((Cardinality(S) + 1) % 2 = 1) <=> ~(Cardinality(S) % 2 = 1)
    BY <1>0
  <2>4. (Cardinality(E!Flip(S, p)) % 2 = 1) <=> ~(Cardinality(S) % 2 = 1)
    BY <2>1, <2>2, <2>3
  <2>5. IsFiniteSet(E!Flip(S, p))
    BY <2>1, <2>2
  <2>6. E!Odd(E!Flip(S, p)) <=> ~E!Odd(S)
    BY <2>4, SameCount DEF E!Odd
  <2> QED BY <2>5, <2>6
<1> QED BY <1>1, <1>2

\* The part of a set that a flip is in, or is not in.
LEMMA PartFlip ==
    ASSUME NEW S, IsFiniteSet(S), NEW D, NEW p
    PROVE  /\ p \in D => (E!Odd(E!Flip(S, p) \cap D) <=> ~E!Odd(S \cap D))
           /\ p \notin D => E!Flip(S, p) \cap D = S \cap D
<1>1. ASSUME p \in D PROVE E!Flip(S, p) \cap D = E!Flip(S \cap D, p)
  BY <1>1 DEF E!Flip
<1>2. ASSUME p \notin D PROVE E!Flip(S, p) \cap D = S \cap D
  BY <1>2 DEF E!Flip
<1>3. IsFiniteSet(S \cap D)
  BY FS_Subset
<1>4. E!Odd(E!Flip(S \cap D, p)) <=> ~E!Odd(S \cap D)
  BY <1>3, OddFlip
<1> QED BY <1>1, <1>2, <1>4

Lines(i) == {b \in E!Word : E!HasBit(i, b)}
Cols(p) == {c \in 0 .. 5 : E!InColumn(c, p % 8)}

\* The code of the tags after one cell of them has flipped.
LEMMA CodeOfFlip ==
    ASSUME NEW t \in SUBSET E!AllOnes, NEW p \in E!AllOnes
    PROVE  LET old == E!yaffs_ecc_calc_other(t)
               new == E!yaffs_ecc_calc_other(E!Flip(t, p))
           IN  /\ new.col = E!Xor(old.col, Cols(p))
               /\ new.line = E!Xor(old.line, Lines(p \div 8))
               /\ new.prime = E!Xor(old.prime, E!Word \ Lines(p \div 8))
<1> DEFINE u == E!Flip(t, p)
           OddBytes(s) == {i \in 0 .. E!TagBytes - 1 : E!Odd({q \in s : q \div 8 = i})}
           ot == OddBytes(t)
           ou == OddBytes(u)
           old == E!yaffs_ecc_calc_other(t)
           new == E!yaffs_ecc_calc_other(u)
<1>0. IsFiniteSet(t) /\ t \subseteq 0 .. 127
  <2>1. E!AllOnes = 0 .. 127
    BY DEF E!AllOnes, E!TagBytes
  <2>2. IsFiniteSet(0 .. 127)
    <3>1. 0 \in Int /\ 127 \in Int
      OBVIOUS
    <3> QED BY <3>1, FS_Interval
  <2> QED BY <2>1, <2>2, FS_Subset
<1>1. p \in 0 .. 127 /\ p \div 8 \in 0 .. 15 /\ p % 8 \in 0 .. 7
  BY DEF E!AllOnes, E!TagBytes
<1>2. u \subseteq 0 .. 127
  BY <1>0, <1>1 DEF E!Flip
<1>3. ou = E!Flip(ot, p \div 8)
  <2>1. ASSUME NEW i \in 0 .. 15
        PROVE  E!Odd({q \in u : q \div 8 = i}) <=>
                 (IF i = p \div 8 THEN ~E!Odd({q \in t : q \div 8 = i})
                  ELSE E!Odd({q \in t : q \div 8 = i}))
    <3> DEFINE D == {q \in 0 .. 127 : q \div 8 = i}
    <3>1. {q \in u : q \div 8 = i} = u \cap D /\ {q \in t : q \div 8 = i} = t \cap D
      BY <1>0, <1>2
    <3>2. p \in D <=> i = p \div 8
      BY <1>1
    <3> HIDE DEF D
    <3>3. /\ p \in D => (E!Odd(E!Flip(t, p) \cap D) <=> ~E!Odd(t \cap D))
          /\ p \notin D => E!Flip(t, p) \cap D = t \cap D
      BY <1>0, PartFlip
    <3> QED BY <3>1, <3>2, <3>3
  <2>2. E!TagBytes - 1 = 15
    BY DEF E!TagBytes
  <2> QED BY <1>1, <2>1, <2>2 DEF E!Flip
<1>4. ot \subseteq 0 .. 15 /\ IsFiniteSet(ot) /\ ou \subseteq 0 .. 15
  <2>1. ot \subseteq 0 .. 15 /\ ou \subseteq 0 .. 15
    BY DEF E!TagBytes
  <2>2. IsFiniteSet(0 .. 15)
    <3>1. 0 \in Int /\ 15 \in Int
      OBVIOUS
    <3> QED BY <3>1, FS_Interval
  <2> QED BY <2>1, <2>2, FS_Subset
<1>5. /\ old.col = {c \in 0 .. 5 : E!Odd({q \in t : E!InColumn(c, q % 8)})}
      /\ new.col = {c \in 0 .. 5 : E!Odd({q \in u : E!InColumn(c, q % 8)})}
      /\ old.line = {b \in E!Word : E!Odd({i \in ot : E!HasBit(i, b)})}
      /\ new.line = {b \in E!Word : E!Odd({i \in ou : E!HasBit(i, b)})}
      /\ old.prime = {b \in E!Word : E!Odd({i \in ot : ~E!HasBit(i, b)})}
      /\ new.prime = {b \in E!Word : E!Odd({i \in ou : ~E!HasBit(i, b)})}
  BY DEF E!yaffs_ecc_calc_other
<1> HIDE DEF OddBytes, old, new, ot, ou
<1>6. ASSUME NEW c \in 0 .. 5
      PROVE  E!Odd({q \in u : E!InColumn(c, q % 8)}) <=>
               (IF c \in Cols(p) THEN ~E!Odd({q \in t : E!InColumn(c, q % 8)})
                ELSE E!Odd({q \in t : E!InColumn(c, q % 8)}))
  <2> DEFINE D == {q \in 0 .. 127 : E!InColumn(c, q % 8)}
  <2>1. {q \in u : E!InColumn(c, q % 8)} = u \cap D /\ {q \in t : E!InColumn(c, q % 8)} = t \cap D
    BY <1>0, <1>2
  <2>2. p \in D <=> c \in Cols(p)
    BY <1>1 DEF Cols
  <2> HIDE DEF D
  <2>3. /\ p \in D => (E!Odd(E!Flip(t, p) \cap D) <=> ~E!Odd(t \cap D))
        /\ p \notin D => E!Flip(t, p) \cap D = t \cap D
    BY <1>0, PartFlip
  <2> QED BY <2>1, <2>2, <2>3
<1>7. ASSUME NEW b \in E!Word
      PROVE  E!Odd({i \in ou : E!HasBit(i, b)}) <=>
               (IF b \in Lines(p \div 8) THEN ~E!Odd({i \in ot : E!HasBit(i, b)})
                ELSE E!Odd({i \in ot : E!HasBit(i, b)}))
  <2> DEFINE D == {i \in 0 .. 15 : E!HasBit(i, b)}
  <2>1. /\ {i \in ou : E!HasBit(i, b)} = E!Flip(ot, p \div 8) \cap D
        /\ {i \in ot : E!HasBit(i, b)} = ot \cap D
    BY <1>3, <1>4
  <2>2. p \div 8 \in D <=> b \in Lines(p \div 8)
    BY <1>1 DEF Lines
  <2> HIDE DEF D
  <2>3. \A j : /\ j \in D => (E!Odd(E!Flip(ot, j) \cap D) <=> ~E!Odd(ot \cap D))
               /\ j \notin D => E!Flip(ot, j) \cap D = ot \cap D
    BY <1>4, PartFlip
  <2>4. PICK j : j = p \div 8
    OBVIOUS
  <2>5. /\ {i \in ou : E!HasBit(i, b)} = E!Flip(ot, j) \cap D
        /\ j \in D <=> b \in Lines(p \div 8)
    BY <2>1, <2>2, <2>4
  <2> QED BY <2>1, <2>3, <2>5
<1>8. ASSUME NEW b \in E!Word
      PROVE  E!Odd({i \in ou : ~E!HasBit(i, b)}) <=>
               (IF b \notin Lines(p \div 8) THEN ~E!Odd({i \in ot : ~E!HasBit(i, b)})
                ELSE E!Odd({i \in ot : ~E!HasBit(i, b)}))
  <2> DEFINE D == {i \in 0 .. 15 : ~E!HasBit(i, b)}
  <2>1. /\ {i \in ou : ~E!HasBit(i, b)} = E!Flip(ot, p \div 8) \cap D
        /\ {i \in ot : ~E!HasBit(i, b)} = ot \cap D
    BY <1>3, <1>4
  <2>2. p \div 8 \in D <=> b \notin Lines(p \div 8)
    BY <1>1 DEF Lines
  <2> HIDE DEF D
  <2>3. \A j : /\ j \in D => (E!Odd(E!Flip(ot, j) \cap D) <=> ~E!Odd(ot \cap D))
               /\ j \notin D => E!Flip(ot, j) \cap D = ot \cap D
    BY <1>4, PartFlip
  <2>4. PICK j : j = p \div 8
    OBVIOUS
  <2>5. /\ {i \in ou : ~E!HasBit(i, b)} = E!Flip(ot, j) \cap D
        /\ j \in D <=> b \notin Lines(p \div 8)
    BY <2>1, <2>2, <2>4
  <2> QED BY <2>1, <2>3, <2>5
<1>9. new.col = E!Xor(old.col, Cols(p))
  <2>1. Cols(p) \subseteq 0 .. 5
    BY DEF Cols
  <2> QED BY <1>5, <1>6, <2>1 DEF E!Xor
<1>10. new.line = E!Xor(old.line, Lines(p \div 8))
  <2>1. Lines(p \div 8) \subseteq E!Word
    BY DEF Lines
  <2> QED BY <1>5, <1>7, <2>1 DEF E!Xor
<1>11. new.prime = E!Xor(old.prime, E!Word \ Lines(p \div 8))
  BY <1>5, <1>8 DEF E!Xor
<1> QED BY <1>9, <1>10, <1>11 DEF old, new

-----------------------------------------------------------------------------
(* Numbers and their bits *)

LEMMA NumberOfLines ==
    ASSUME NEW i \in 0 .. 15
    PROVE  Lines(i) \subseteq 0 .. 3 /\ E!Number(Lines(i)) = i
<1>1. Lines(i) \subseteq 0 .. 3
  BY DEF Lines, E!HasBit
<1>2. /\ 0 \in Lines(i) <=> i % 2 = 1
      /\ 1 \in Lines(i) <=> (i \div 2) % 2 = 1
      /\ 2 \in Lines(i) <=> (i \div 4) % 2 = 1
      /\ 3 \in Lines(i) <=> (i \div 8) % 2 = 1
  BY DEF Lines, E!HasBit, E!Word
<1>3. E!Number(Lines(i)) = i
  BY <1>2 DEF E!Number
<1> QED BY <1>1, <1>3

BitOf(col) == {a \in 0 .. 2 : 2 * a + 1 \in col}

LEMMA NumberOfCols ==
    ASSUME NEW p \in E!AllOnes, NEW col, col \cap (0 .. 5) = Cols(p)
    PROVE  /\ \A a \in 0 .. 2 : (2 * a \in col) # (2 * a + 1 \in col)
           /\ E!Number(BitOf(col)) = p % 8
           /\ p = 8 * (p \div 8) + (p % 8) /\ p % 8 \in 0 .. 7 /\ p \div 8 \in 0 .. 15
<1>1. p = 8 * (p \div 8) + (p % 8) /\ p % 8 \in 0 .. 7 /\ p \div 8 \in 0 .. 15
  BY DEF E!AllOnes, E!TagBytes
<1>2. \A a \in 0 .. 2 : /\ 2 * a + 1 \in col <=> E!HasBit(p % 8, a)
                        /\ 2 * a \in col <=> ~E!HasBit(p % 8, a)
  <2> SUFFICES ASSUME NEW a \in 0 .. 2
               PROVE  /\ 2 * a + 1 \in col <=> E!HasBit(p % 8, a)
                      /\ 2 * a \in col <=> ~E!HasBit(p % 8, a)
    OBVIOUS
  <2>1. /\ 2 * a \in 0 .. 5 /\ (2 * a) \div 2 = a /\ (2 * a) % 2 = 0
        /\ 2 * a + 1 \in 0 .. 5 /\ (2 * a + 1) \div 2 = a /\ (2 * a + 1) % 2 = 1
    OBVIOUS
  <2>2. /\ 2 * a \in col <=> E!InColumn(2 * a, p % 8)
        /\ 2 * a + 1 \in col <=> E!InColumn(2 * a + 1, p % 8)
    BY <2>1 DEF Cols
  <2> QED BY <2>1, <2>2 DEF E!InColumn
<1>3. \A a \in 0 .. 2 : a \in BitOf(col) <=> E!HasBit(p % 8, a)
  BY <1>2 DEF BitOf
<1>4. 3 \notin BitOf(col)
  BY DEF BitOf
<1>5. E!Number(BitOf(col)) = p % 8
  <2>1. /\ 0 \in BitOf(col) <=> (p % 8) % 2 = 1
        /\ 1 \in BitOf(col) <=> ((p % 8) \div 2) % 2 = 1
        /\ 2 \in BitOf(col) <=> ((p % 8) \div 4) % 2 = 1
    BY <1>3 DEF E!HasBit
  <2> QED BY <1>1, <1>4, <2>1 DEF E!Number
<1> QED BY <1>1, <1>2, <1>5

-----------------------------------------------------------------------------
(* The syndrome: what the code that was read and the code of the tags that *)
(* were read differ by                                                     *)

PackedTags == [t : SUBSET E!AllOnes, col : SUBSET (0 .. 7), line : SUBSET E!Word,
               prime : SUBSET E!Word]

Syndrome(x) ==
    LET test == E!yaffs_ecc_calc_other(x.t)
    IN  [col |-> E!Xor(x.col, test.col), line |-> E!Xor(x.line, test.line),
         prime |-> E!Xor(x.prime, test.prime)]

Clean == [col |-> {}, line |-> {}, prime |-> {}]

Plus(r, s) == [col |-> E!Xor(r.col, s.col), line |-> E!Xor(r.line, s.line),
               prime |-> E!Xor(r.prime, s.prime)]

FlipCell(x, c) == [x EXCEPT ![c[1]] = E!Flip(@, c[2])]

\* What a flipped cell adds to the syndrome.
MarkT(p) == [col |-> Cols(p), line |-> Lines(p \div 8), prime |-> E!Word \ Lines(p \div 8)]
MarkCol(b) == [col |-> {b}, line |-> {}, prime |-> {}]
MarkLine(b) == [col |-> {}, line |-> {b}, prime |-> {}]
MarkPrime(b) == [col |-> {}, line |-> {}, prime |-> {b}]
Mark(c) == IF c[1] = "t" THEN MarkT(c[2])
           ELSE IF c[1] = "col" THEN MarkCol(c[2])
           ELSE IF c[1] = "line" THEN MarkLine(c[2]) ELSE MarkPrime(c[2])

LEMMA CellKinds ==
    ASSUME NEW c \in E!Cells
    PROVE  \/ c[1] = "t" /\ c[2] \in E!AllOnes
           \/ c[1] = "col" /\ c[2] \in 0 .. 7
           \/ c[1] = "line" /\ c[2] \in E!Word
           \/ c[1] = "prime" /\ c[2] \in E!Word
BY DEF E!Cells

LEMMA CodeTypes ==
    ASSUME NEW t
    PROVE  /\ E!yaffs_ecc_calc_other(t).col \subseteq 0 .. 5
           /\ E!yaffs_ecc_calc_other(t).line \subseteq E!Word
           /\ E!yaffs_ecc_calc_other(t).prime \subseteq E!Word
BY DEF E!yaffs_ecc_calc_other

LEMMA XorFlip ==
    ASSUME NEW A, NEW B, NEW x
    PROVE  E!Xor(E!Flip(A, x), B) = E!Xor(E!Xor(A, B), {x})
BY DEF E!Xor, E!Flip

LEMMA XorAssoc ==
    ASSUME NEW A, NEW B, NEW C
    PROVE  E!Xor(A, E!Xor(B, C)) = E!Xor(E!Xor(A, B), C)
BY DEF E!Xor

LEMMA XorNothing ==
    ASSUME NEW A
    PROVE  E!Xor(A, {}) = A /\ E!Xor({}, A) = A /\ E!Xor(A, A) = {}
BY DEF E!Xor

LEMMA SyndromeFlip ==
    ASSUME NEW x \in PackedTags, NEW c \in E!Cells
    PROVE  /\ FlipCell(x, c) \in PackedTags
           /\ Syndrome(FlipCell(x, c)) = Plus(Syndrome(x), Mark(c))
<1> DEFINE y == FlipCell(x, c)
           f == E!yaffs_ecc_calc_other(x.t)
<1>0. /\ x.t \in SUBSET E!AllOnes /\ x.col \in SUBSET (0 .. 7)
      /\ x.line \in SUBSET E!Word /\ x.prime \in SUBSET E!Word
  BY DEF PackedTags
<1>1. CASE c[1] = "t" /\ c[2] \in E!AllOnes
  <2>1. y = [x EXCEPT !.t = E!Flip(x.t, c[2])] /\ E!Flip(x.t, c[2]) \subseteq E!AllOnes
    BY <1>0, <1>1 DEF FlipCell, E!Flip, PackedTags
  <2>2. /\ y \in PackedTags /\ y.t = E!Flip(x.t, c[2])
        /\ y.col = x.col /\ y.line = x.line /\ y.prime = x.prime
    BY <2>1 DEF PackedTags
  <2> DEFINE g == E!yaffs_ecc_calc_other(y.t)
  <2>3. /\ g.col = E!Xor(f.col, Cols(c[2]))
        /\ g.line = E!Xor(f.line, Lines(c[2] \div 8))
        /\ g.prime = E!Xor(f.prime, E!Word \ Lines(c[2] \div 8))
    BY <1>0, <1>1, <2>2, CodeOfFlip
  <2>4. Mark(c) = MarkT(c[2])
    BY <1>1 DEF Mark
  <2> HIDE DEF f, g, y
  <2>5. /\ E!Xor(y.col, g.col) = E!Xor(E!Xor(x.col, f.col), Cols(c[2]))
        /\ E!Xor(y.line, g.line) = E!Xor(E!Xor(x.line, f.line), Lines(c[2] \div 8))
        /\ E!Xor(y.prime, g.prime) = E!Xor(E!Xor(x.prime, f.prime), E!Word \ Lines(c[2] \div 8))
    BY <2>2, <2>3, XorAssoc
  <2>6. Syndrome(y) = Plus(Syndrome(x), Mark(c))
    BY <2>4, <2>5 DEF Syndrome, Plus, MarkT, f, g
  <2> QED BY <2>2, <2>6 DEF y
<1>2. CASE c[1] = "col" /\ c[2] \in 0 .. 7
  <2>1. y = [x EXCEPT !.col = E!Flip(x.col, c[2])] /\ E!Flip(x.col, c[2]) \subseteq 0 .. 7
    BY <1>0, <1>2 DEF FlipCell, E!Flip, PackedTags
  <2>2. /\ y \in PackedTags /\ y.col = E!Flip(x.col, c[2])
        /\ y.t = x.t /\ y.line = x.line /\ y.prime = x.prime
    BY <2>1 DEF PackedTags
  <2>4. Mark(c) = MarkCol(c[2])
    BY <1>2 DEF Mark
  <2> HIDE DEF f, y
  <2>5. /\ E!Xor(y.col, f.col) = E!Xor(E!Xor(x.col, f.col), {c[2]})
        /\ E!Xor(y.line, f.line) = E!Xor(E!Xor(x.line, f.line), {})
        /\ E!Xor(y.prime, f.prime) = E!Xor(E!Xor(x.prime, f.prime), {})
    BY <2>2, XorFlip, XorNothing
  <2>6. Syndrome(y) = Plus(Syndrome(x), Mark(c))
    BY <2>2, <2>4, <2>5 DEF Syndrome, Plus, MarkCol, f
  <2> QED BY <2>2, <2>6 DEF y
<1>3. CASE c[1] = "line" /\ c[2] \in E!Word
  <2>1. y = [x EXCEPT !.line = E!Flip(x.line, c[2])] /\ E!Flip(x.line, c[2]) \subseteq E!Word
    BY <1>0, <1>3 DEF FlipCell, E!Flip, PackedTags
  <2>2. /\ y \in PackedTags /\ y.line = E!Flip(x.line, c[2])
        /\ y.t = x.t /\ y.col = x.col /\ y.prime = x.prime
    BY <2>1 DEF PackedTags
  <2>4. Mark(c) = MarkLine(c[2])
    BY <1>3 DEF Mark
  <2> HIDE DEF f, y
  <2>5. /\ E!Xor(y.line, f.line) = E!Xor(E!Xor(x.line, f.line), {c[2]})
        /\ E!Xor(y.col, f.col) = E!Xor(E!Xor(x.col, f.col), {})
        /\ E!Xor(y.prime, f.prime) = E!Xor(E!Xor(x.prime, f.prime), {})
    BY <2>2, XorFlip, XorNothing
  <2>6. Syndrome(y) = Plus(Syndrome(x), Mark(c))
    BY <2>2, <2>4, <2>5 DEF Syndrome, Plus, MarkLine, f
  <2> QED BY <2>2, <2>6 DEF y
<1>4. CASE c[1] = "prime" /\ c[2] \in E!Word
  <2>1. y = [x EXCEPT !.prime = E!Flip(x.prime, c[2])] /\ E!Flip(x.prime, c[2]) \subseteq E!Word
    BY <1>0, <1>4 DEF FlipCell, E!Flip, PackedTags
  <2>2. /\ y \in PackedTags /\ y.prime = E!Flip(x.prime, c[2])
        /\ y.t = x.t /\ y.col = x.col /\ y.line = x.line
    BY <2>1 DEF PackedTags
  <2>4. Mark(c) = MarkPrime(c[2])
    BY <1>4 DEF Mark
  <2> HIDE DEF f, y
  <2>5. /\ E!Xor(y.prime, f.prime) = E!Xor(E!Xor(x.prime, f.prime), {c[2]})
        /\ E!Xor(y.col, f.col) = E!Xor(E!Xor(x.col, f.col), {})
        /\ E!Xor(y.line, f.line) = E!Xor(E!Xor(x.line, f.line), {})
    BY <2>2, XorFlip, XorNothing
  <2>6. Syndrome(y) = Plus(Syndrome(x), Mark(c))
    BY <2>2, <2>4, <2>5 DEF Syndrome, Plus, MarkPrime, f
  <2> QED BY <2>2, <2>6 DEF y
<1> QED BY <1>1, <1>2, <1>3, <1>4, CellKinds

-----------------------------------------------------------------------------
(* What yaffs_ecc_correct_other() makes of a syndrome *)

Correct(x) == E!yaffs_ecc_correct_other(x.t, x, E!yaffs_ecc_calc_other(x.t))

\* The syndrome looks like that of one flipped cell of the tags.
OneBit(s) == /\ s.line = E!Word \ s.prime
             /\ \A a \in 0 .. 2 : (2 * a \in s.col) # (2 * a + 1 \in s.col)

Weight(s) == Cardinality(s.col) + Cardinality(s.line) + Cardinality(s.prime)

LEMMA Decision ==
    ASSUME NEW x, NEW s, s = Syndrome(x)
    PROVE  /\ s = Clean => Correct(x) = [ret |-> 0, t |-> x.t]
           /\ OneBit(s) /\ s.line \subseteq 0 .. 3 =>
                Correct(x) = [ret |-> 1, t |-> E!Flip(x.t, 8 * E!Number(s.line) + E!Number(BitOf(s.col)))]
           /\ OneBit(s) /\ ~(s.line \subseteq 0 .. 3) => Correct(x) = [ret |-> -1, t |-> x.t]
           /\ ~OneBit(s) /\ s # Clean =>
                Correct(x) = [ret |-> IF Weight(s) = 1 THEN 1 ELSE -1, t |-> x.t]
<1> DEFINE test == E!yaffs_ecc_calc_other(x.t)
           col == E!Xor(x.col, test.col)
           line == E!Xor(x.line, test.line)
           prime == E!Xor(x.prime, test.prime)
           one == line = E!Word \ prime /\ \A a \in 0 .. 2 : (2 * a \in col) # (2 * a + 1 \in col)
           none == col \cup line \cup prime = {}
           sum == E!Cardinality(col) + E!Cardinality(line) + E!Cardinality(prime)
           fixed == E!Flip(x.t, 8 * E!Number(line) + E!Number(BitOf(col)))
<1>1. Correct(x) = CASE none -> [ret |-> 0, t |-> x.t]
          [] one /\ E!Beyond(line) -> [ret |-> -1, t |-> x.t]
          [] one /\ ~E!Beyond(line) -> [ret |-> 1, t |-> fixed]
          [] OTHER -> IF sum = 1 THEN [ret |-> 1, t |-> x.t] ELSE [ret |-> -1, t |-> x.t]
  BY DEF Correct, E!yaffs_ecc_correct_other, BitOf
<1>2. s = [col |-> col, line |-> line, prime |-> prime]
  BY DEF Syndrome
<1>3. one <=> OneBit(s)
  BY <1>2 DEF OneBit
<1>4. none <=> s = Clean
  BY <1>2 DEF Clean
<1>5. one => ~none
  <2>1. 0 \in E!Word
    BY DEF E!Word
  <2> QED BY <2>1
<1>6. E!Beyond(line) <=> ~(s.line \subseteq 0 .. 3)
  BY <1>2 DEF E!Beyond
<1>7. sum = Weight(s) /\ fixed = E!Flip(x.t, 8 * E!Number(s.line) + E!Number(BitOf(s.col)))
  BY <1>2, SameCount DEF Weight
<1> HIDE DEF none, one, sum, fixed, line
<1>8. none => Correct(x) = [ret |-> 0, t |-> x.t]
  BY <1>1, <1>5
<1>9. one /\ E!Beyond(line) => Correct(x) = [ret |-> -1, t |-> x.t]
  BY <1>1, <1>5
<1>10. one /\ ~E!Beyond(line) => Correct(x) = [ret |-> 1, t |-> fixed]
  BY <1>1, <1>5
<1>11. ~one /\ ~none => Correct(x) = IF sum = 1 THEN [ret |-> 1, t |-> x.t] ELSE [ret |-> -1, t |-> x.t]
  BY <1>1, <1>5
<1> QED BY <1>3, <1>4, <1>6, <1>7, <1>8, <1>9, <1>10, <1>11

-----------------------------------------------------------------------------
(* The weights of syndromes *)

Syndromes == [col : SUBSET (0 .. 7), line : SUBSET E!Word, prime : SUBSET E!Word]

LEMMA SyndromeFinite ==
    ASSUME NEW s \in Syndromes
    PROVE  /\ IsFiniteSet(s.col) /\ IsFiniteSet(s.line) /\ IsFiniteSet(s.prime)
           /\ Cardinality(s.col) \in Nat /\ Cardinality(s.line) \in Nat
           /\ Cardinality(s.prime) \in Nat
<1>1. 0 \in Int /\ 7 \in Int /\ 31 \in Int
  OBVIOUS
<1>2. IsFiniteSet(0 .. 7) /\ IsFiniteSet(0 .. 31)
  BY <1>1, FS_Interval
<1>3. IsFiniteSet(s.col) /\ IsFiniteSet(s.line) /\ IsFiniteSet(s.prime)
  <2>1. s.col \subseteq 0 .. 7 /\ s.line \subseteq 0 .. 31 /\ s.prime \subseteq 0 .. 31
    BY DEF Syndromes, E!Word
  <2> QED BY <1>2, <2>1, FS_Subset
<1> QED BY <1>3, FS_CardinalityType

LEMMA AtLeastTwo ==
    ASSUME NEW S, IsFiniteSet(S), NEW a \in S, NEW b \in S, a # b
    PROVE  Cardinality(S) >= 2
<1>1. IsFiniteSet({a}) /\ Cardinality({a}) = 1
  BY FS_Singleton
<1>2. IsFiniteSet({a} \cup {b}) /\ Cardinality({a} \cup {b}) = Cardinality({a}) + 1
  <2>1. b \notin {a}
    OBVIOUS
  <2> QED BY <1>1, <2>1, FS_AddElement
<1>3. {a} \cup {b} \subseteq S
  OBVIOUS
<1>4. Cardinality({a} \cup {b}) <= Cardinality(S)
  BY <1>3, FS_Subset
<1>5. Cardinality(S) \in Nat
  BY FS_CardinalityType
<1> QED BY <1>1, <1>2, <1>4, <1>5

LEMMA AtLeastOne ==
    ASSUME NEW S, IsFiniteSet(S), NEW a \in S
    PROVE  Cardinality(S) >= 1
<1>1. IsFiniteSet({a}) /\ Cardinality({a}) = 1
  BY FS_Singleton
<1>2. {a} \subseteq S
  OBVIOUS
<1>3. Cardinality({a}) <= Cardinality(S)
  BY <1>2, FS_Subset
<1> QED BY <1>1, <1>3

\* Two marks anywhere make a syndrome that is not the one of a flipped cell
\* of the code.
LEMMA TwoMarks ==
    ASSUME NEW s \in Syndromes,
           \/ \E a, b \in s.col : a # b
           \/ \E a, b \in s.line : a # b
           \/ \E a, b \in s.prime : a # b
           \/ s.col # {} /\ s.line # {}
           \/ s.col # {} /\ s.prime # {}
           \/ s.line # {} /\ s.prime # {}
    PROVE  Weight(s) # 1 /\ s # Clean
<1>0. /\ IsFiniteSet(s.col) /\ IsFiniteSet(s.line) /\ IsFiniteSet(s.prime)
      /\ Cardinality(s.col) \in Nat /\ Cardinality(s.line) \in Nat
      /\ Cardinality(s.prime) \in Nat
  BY SyndromeFinite
<1>1. /\ (\E a, b \in s.col : a # b) => Cardinality(s.col) >= 2
      /\ (\E a, b \in s.line : a # b) => Cardinality(s.line) >= 2
      /\ (\E a, b \in s.prime : a # b) => Cardinality(s.prime) >= 2
  BY <1>0, AtLeastTwo
<1>2. /\ s.col # {} => Cardinality(s.col) >= 1
      /\ s.line # {} => Cardinality(s.line) >= 1
      /\ s.prime # {} => Cardinality(s.prime) >= 1
  BY <1>0, AtLeastOne
<1>3. Weight(s) # 1
  BY <1>0, <1>1, <1>2 DEF Weight
<1>4. s # Clean
  BY DEF Clean
<1> QED BY <1>3, <1>4

LEMMA OneMark ==
    ASSUME NEW b
    PROVE  /\ Weight(MarkCol(b)) = 1 /\ MarkCol(b) # Clean
           /\ Weight(MarkLine(b)) = 1 /\ MarkLine(b) # Clean
           /\ Weight(MarkPrime(b)) = 1 /\ MarkPrime(b) # Clean
<1>1. Cardinality({b}) = 1 /\ Cardinality({}) = 0
  BY FS_Singleton, FS_EmptySet
<1> QED BY <1>1 DEF Weight, MarkCol, MarkLine, MarkPrime, Clean

LEMMA MarkTypes ==
    ASSUME NEW c \in E!Cells
    PROVE  Mark(c) \in Syndromes
BY CellKinds DEF Mark, MarkT, MarkCol, MarkLine, MarkPrime, Syndromes, Cols, Lines

LEMMA PlusTypes ==
    ASSUME NEW r \in Syndromes, NEW s \in Syndromes
    PROVE  Plus(r, s) \in Syndromes /\ Plus(r, s) = Plus(s, r) /\ Plus(Clean, s) = s
<1>1. Plus(r, s) \in Syndromes
  BY DEF Plus, Syndromes, E!Xor
<1>2. Plus(r, s) = Plus(s, r)
  BY DEF Plus, E!Xor
<1>3. Plus(Clean, s) = s
  <2>1. s = [col |-> s.col, line |-> s.line, prime |-> s.prime]
    BY DEF Syndromes
  <2>2. Plus(Clean, s) = [col |-> s.col, line |-> s.line, prime |-> s.prime]
    BY XorNothing DEF Plus, Clean
  <2> QED BY <2>1, <2>2
<1> QED BY <1>1, <1>2, <1>3

-----------------------------------------------------------------------------
(* One and two flipped cells *)

\* A flipped cell of the tags, with or without one of the two spare bits of
\* the column parities.
LEMMA FixT ==
    ASSUME NEW x, NEW s, s = Syndrome(x), NEW p \in E!AllOnes,
           s.col \cap (0 .. 5) = Cols(p), s.line = Lines(p \div 8),
           s.prime = E!Word \ Lines(p \div 8)
    PROVE  Correct(x) = [ret |-> 1, t |-> E!Flip(x.t, p)]
<1>1. /\ \A a \in 0 .. 2 : (2 * a \in s.col) # (2 * a + 1 \in s.col)
      /\ E!Number(BitOf(s.col)) = p % 8
      /\ p = 8 * (p \div 8) + (p % 8) /\ p % 8 \in 0 .. 7 /\ p \div 8 \in 0 .. 15
  BY NumberOfCols
<1>2. Lines(p \div 8) \subseteq 0 .. 3 /\ E!Number(Lines(p \div 8)) = p \div 8
  BY <1>1, NumberOfLines
<1>3. Lines(p \div 8) \subseteq E!Word
  BY DEF Lines
<1>4. OneBit(s)
  BY <1>1, <1>3 DEF OneBit
<1>5. 8 * E!Number(s.line) + E!Number(BitOf(s.col)) = p
  BY <1>1, <1>2
<1> QED BY <1>2, <1>4, <1>5, Decision

\* A syndrome in which no line is marked or not all of them are is not the one of a
\* flipped cell of the tags.
LEMMA NotOneBit ==
    ASSUME NEW s \in Syndromes, NEW b \in E!Word, b \in s.line <=> b \in s.prime
    PROVE  ~OneBit(s)
BY DEF OneBit

LEMMA FixCode ==
    ASSUME NEW x, NEW c \in E!Cells, c[1] # "t", Syndrome(x) = Mark(c)
    PROVE  Correct(x) = [ret |-> 1, t |-> x.t]
<1> DEFINE s == Mark(c)
<1>1. s \in Syndromes
  BY MarkTypes
<1>2. Weight(s) = 1 /\ s # Clean
  BY CellKinds, OneMark DEF Mark
<1>3. ~OneBit(s)
  <2>1. \E b \in E!Word : b \notin s.line /\ b \notin s.prime
    <3>1. c[2] \in Int /\ 0 \in E!Word /\ 1 \in E!Word
      BY CellKinds DEF E!Word, E!AllOnes
    <3>2. CASE c[2] = 0
      BY <3>1, <3>2, CellKinds DEF Mark, MarkCol, MarkLine, MarkPrime
    <3>3. CASE c[2] # 0
      BY <3>1, <3>3, CellKinds DEF Mark, MarkCol, MarkLine, MarkPrime
    <3> QED BY <3>2, <3>3
  <2> QED BY <1>1, <2>1, NotOneBit
<1> QED BY <1>2, <1>3, Decision

\* Two different cells of the tags.
LEMMA TwoT ==
    ASSUME NEW x, NEW p \in E!AllOnes, NEW q \in E!AllOnes, p # q,
           Syndrome(x) = Plus(MarkT(p), MarkT(q))
    PROVE  Correct(x).ret = -1
<1> DEFINE s == Plus(MarkT(p), MarkT(q))
<1>0. MarkT(p) \in Syndromes /\ MarkT(q) \in Syndromes
  BY DEF MarkT, Syndromes, Cols, Lines
<1>1. s \in Syndromes
  BY <1>0, PlusTypes
<1>2. /\ Cols(p) \cap (0 .. 5) = Cols(p) /\ Cols(q) \cap (0 .. 5) = Cols(q)
      /\ Lines(p \div 8) \subseteq E!Word /\ Lines(q \div 8) \subseteq E!Word
  BY DEF Cols, Lines
<1>3. /\ p \div 8 \in 0 .. 15 /\ p = 8 * (p \div 8) + (p % 8) /\ E!Number(BitOf(Cols(p))) = p % 8
      /\ q \div 8 \in 0 .. 15 /\ q = 8 * (q \div 8) + (q % 8) /\ E!Number(BitOf(Cols(q))) = q % 8
      /\ \A a \in 0 .. 2 : (2 * a \in Cols(p)) # (2 * a + 1 \in Cols(p))
      /\ \A a \in 0 .. 2 : (2 * a \in Cols(q)) # (2 * a + 1 \in Cols(q))
  BY <1>2, NumberOfCols
<1>4. /\ s.col = E!Xor(Cols(p), Cols(q))
      /\ s.line = E!Xor(Lines(p \div 8), Lines(q \div 8))
      /\ s.prime = E!Xor(Lines(p \div 8), Lines(q \div 8))
  <2>1. /\ s.col = E!Xor(Cols(p), Cols(q))
        /\ s.line = E!Xor(Lines(p \div 8), Lines(q \div 8))
        /\ s.prime = E!Xor(E!Word \ Lines(p \div 8), E!Word \ Lines(q \div 8))
    BY DEF Plus, MarkT
  <2> QED BY <1>2, <2>1 DEF E!Xor
<1>5. ~OneBit(s)
  <2>1. 0 \in E!Word
    BY DEF E!Word
  <2> QED BY <1>1, <1>4, <2>1, NotOneBit
<1>6. CASE Lines(p \div 8) # Lines(q \div 8)
  <2>1. s.line # {} /\ s.prime # {}
    BY <1>4, <1>6 DEF E!Xor
  <2>2. Weight(s) # 1 /\ s # Clean
    BY <1>1, <2>1, TwoMarks
  <2> QED BY <1>5, <2>2, Decision
<1>7. CASE Lines(p \div 8) = Lines(q \div 8)
  <2>1. p \div 8 = q \div 8
    BY <1>3, <1>7, NumberOfLines
  <2>2. BitOf(Cols(p)) # BitOf(Cols(q))
    BY <1>3, <2>1
  <2>3. PICK a \in 0 .. 2 : (2 * a + 1 \in Cols(p)) # (2 * a + 1 \in Cols(q))
    BY <2>2 DEF BitOf
  <2>4. 2 * a + 1 \in s.col /\ 2 * a \in s.col /\ 2 * a + 1 # 2 * a
    BY <1>3, <1>4, <2>3 DEF E!Xor
  <2>5. Weight(s) # 1 /\ s # Clean
    BY <1>1, <2>4, TwoMarks
  <2> QED BY <1>5, <2>5, Decision
<1> QED BY <1>6, <1>7

\* A cell of the tags and one of the code.
LEMMA TAndCode ==
    ASSUME NEW x, NEW p \in E!AllOnes, NEW c \in E!Cells, c[1] # "t",
           Syndrome(x) = Plus(MarkT(p), Mark(c))
    PROVE  \/ Correct(x).ret = -1
           \/ c[1] = "col" /\ Correct(x) = [ret |-> 1, t |-> E!Flip(x.t, p)]
<1> DEFINE s == Plus(MarkT(p), Mark(c))
<1>0. MarkT(p) \in Syndromes /\ Mark(c) \in Syndromes
  BY MarkTypes DEF MarkT, Syndromes, Cols, Lines
<1>1. s \in Syndromes
  BY <1>0, PlusTypes
<1>2. /\ s.col = E!Xor(Cols(p), Mark(c).col)
      /\ s.line = E!Xor(Lines(p \div 8), Mark(c).line)
      /\ s.prime = E!Xor(E!Word \ Lines(p \div 8), Mark(c).prime)
  BY DEF Plus, MarkT
<1>3. Cols(p) \cap (0 .. 5) = Cols(p) /\ Lines(p \div 8) \subseteq E!Word
  BY DEF Cols, Lines
<1>4. /\ \A a \in 0 .. 2 : (2 * a \in Cols(p)) # (2 * a + 1 \in Cols(p))
      /\ p \div 8 \in 0 .. 15
  BY <1>3, NumberOfCols
<1>5. \E a \in 0 .. 1 : \E b \in 2 .. 3 : a \in Cols(p) /\ b \in Cols(p)
  <2>1. 0 \in Cols(p) \/ 1 \in Cols(p)
    BY <1>4
  <2>2. 2 \in Cols(p) \/ 3 \in Cols(p)
    BY <1>4
  <2> QED BY <2>1, <2>2
<1>6. CASE c[1] = "col" /\ c[2] \in 6 .. 7
  <2>1. Mark(c) = MarkCol(c[2])
    BY <1>6 DEF Mark
  <2>2. /\ s.col \cap (0 .. 5) = Cols(p) /\ s.line = Lines(p \div 8)
        /\ s.prime = E!Word \ Lines(p \div 8)
    BY <1>2, <1>3, <1>6, <2>1 DEF MarkCol, E!Xor
  <2>3. Correct(x) = [ret |-> 1, t |-> E!Flip(x.t, p)]
    BY <2>2, FixT
  <2> QED BY <1>6, <2>3
<1>7. CASE c[1] = "col" /\ c[2] \in 0 .. 5
  <2>1. Mark(c) = MarkCol(c[2])
    BY <1>7 DEF Mark
  <2>2. s.col = E!Xor(Cols(p), {c[2]}) /\ s.line = Lines(p \div 8)
        /\ s.prime = E!Word \ Lines(p \div 8)
    BY <1>2, <2>1, XorNothing DEF MarkCol
  <2>3. ~OneBit(s)
    <3>1. PICK a \in 0 .. 2 : c[2] = 2 * a \/ c[2] = 2 * a + 1
      <4>1. c[2] \in {0, 1, 2, 3, 4, 5}
        BY <1>7
      <4> QED BY <4>1
    <3>2. (2 * a \in Cols(p)) # (2 * a + 1 \in Cols(p))
      BY <1>4
    <3>3. (2 * a \in s.col) <=> (2 * a + 1 \in s.col)
      BY <2>2, <3>1, <3>2 DEF E!Xor
    <3> QED BY <3>3 DEF OneBit
  <2>5. \E a, b \in s.prime : a # b
    <3>1. Lines(p \div 8) \subseteq 0 .. 3
      BY <1>4, NumberOfLines
    <3>2. 4 \in s.prime /\ 5 \in s.prime /\ 4 # 5
      BY <2>2, <3>1 DEF E!Word
    <3> QED BY <3>2
  <2>6. Weight(s) # 1 /\ s # Clean
    BY <1>1, <2>5, TwoMarks
  <2>7. Correct(x) = [ret |-> -1, t |-> x.t]
    BY <2>3, <2>6, Decision
  <2> QED BY <2>7
<1>8. CASE c[1] \in {"line", "prime"} /\ c[2] \in E!Word
  <2>1. Mark(c) = MarkLine(c[2]) \/ Mark(c) = MarkPrime(c[2])
    BY <1>8 DEF Mark
  <2>2. /\ s.col = Cols(p)
        /\ \/ s.line = E!Xor(Lines(p \div 8), {c[2]}) /\ s.prime = E!Word \ Lines(p \div 8)
           \/ s.line = Lines(p \div 8) /\ s.prime = E!Xor(E!Word \ Lines(p \div 8), {c[2]})
    <3>1. CASE Mark(c) = MarkLine(c[2])
      BY <1>2, <3>1, XorNothing DEF MarkLine
    <3>2. CASE Mark(c) = MarkPrime(c[2])
      BY <1>2, <3>2, XorNothing DEF MarkPrime
    <3> QED BY <2>1, <3>1, <3>2
  <2>3. c[2] \in s.line <=> c[2] \in s.prime
    BY <1>8, <2>2 DEF E!Xor
  <2>4. ~OneBit(s)
    BY <1>1, <1>8, <2>3, NotOneBit
  <2>5. \E a, b \in s.col : a # b
    BY <1>5, <2>2
  <2>6. Weight(s) # 1 /\ s # Clean
    BY <1>1, <2>5, TwoMarks
  <2>7. Correct(x) = [ret |-> -1, t |-> x.t]
    BY <2>4, <2>6, Decision
  <2> QED BY <2>7
<1>9. 0 .. 7 = (0 .. 5) \cup (6 .. 7)
  OBVIOUS
<1> QED BY <1>6, <1>7, <1>8, <1>9, CellKinds

\* Two different cells of the code.
LEMMA TwoCode ==
    ASSUME NEW x, NEW c \in E!Cells, c[1] # "t", NEW d \in E!Cells, d[1] # "t", c # d,
           Syndrome(x) = Plus(Mark(c), Mark(d))
    PROVE  Correct(x).ret = -1
<1> DEFINE s == Plus(Mark(c), Mark(d))
<1>0. Mark(c) \in Syndromes /\ Mark(d) \in Syndromes
  BY MarkTypes
<1>1. s \in Syndromes
  BY <1>0, PlusTypes
<1>2. /\ s.col = E!Xor(Mark(c).col, Mark(d).col)
      /\ s.line = E!Xor(Mark(c).line, Mark(d).line)
      /\ s.prime = E!Xor(Mark(c).prime, Mark(d).prime)
  BY DEF Plus
<1>3. c[1] = d[1] => c[2] # d[2]
  <2>1. c = <<c[1], c[2]>> /\ d = <<d[1], d[2]>>
    BY DEF E!Cells
  <2> QED BY <2>1
<1>4. /\ c[1] \in {"col", "line", "prime"} /\ d[1] \in {"col", "line", "prime"}
      /\ Mark(c) = IF c[1] = "col" THEN MarkCol(c[2])
                   ELSE IF c[1] = "line" THEN MarkLine(c[2]) ELSE MarkPrime(c[2])
      /\ Mark(d) = IF d[1] = "col" THEN MarkCol(d[2])
                   ELSE IF d[1] = "line" THEN MarkLine(d[2]) ELSE MarkPrime(d[2])
  BY CellKinds DEF Mark
<1>5. \/ c[2] \in s.col /\ d[2] \in s.col /\ c[2] # d[2]
      \/ c[2] \in s.line /\ d[2] \in s.line /\ c[2] # d[2]
      \/ c[2] \in s.prime /\ d[2] \in s.prime /\ c[2] # d[2]
      \/ s.col # {} /\ s.line # {}
      \/ s.col # {} /\ s.prime # {}
      \/ s.line # {} /\ s.prime # {}
  <2>1. CASE c[1] = d[1]
    BY <1>2, <1>3, <1>4, <2>1 DEF MarkCol, MarkLine, MarkPrime, E!Xor
  <2>2. CASE c[1] # d[1]
    <3>1. CASE c[1] = "col"
      BY <1>2, <1>4, <2>2, <3>1, XorNothing, SMTT(40) DEF MarkCol, MarkLine, MarkPrime
    <3>2. CASE c[1] = "line"
      BY <1>2, <1>4, <2>2, <3>2, XorNothing, SMTT(40) DEF MarkCol, MarkLine, MarkPrime
    <3>3. CASE c[1] = "prime"
      BY <1>2, <1>4, <2>2, <3>3, XorNothing, SMTT(40) DEF MarkCol, MarkLine, MarkPrime
    <3> QED BY <1>4, <3>1, <3>2, <3>3
  <2> QED BY <2>1, <2>2
<1>6. Weight(s) # 1 /\ s # Clean
  BY <1>1, <1>5, TwoMarks
<1>7. ~OneBit(s)
  <2>1. s.line \subseteq {c[2], d[2]} /\ s.prime \subseteq {c[2], d[2]}
    BY <1>2, <1>4 DEF MarkCol, MarkLine, MarkPrime, E!Xor
  <2>2. \E b \in E!Word : b # c[2] /\ b # d[2]
    <3>1. 0 \in E!Word /\ 1 \in E!Word /\ 2 \in E!Word /\ 0 # 1 /\ 1 # 2 /\ 0 # 2
      BY DEF E!Word
    <3> QED BY <3>1
  <2> QED BY <1>1, <2>1, <2>2, NotOneBit
<1>8. Correct(x) = [ret |-> -1, t |-> x.t]
  BY <1>6, <1>7, Decision
<1> QED BY <1>8

-----------------------------------------------------------------------------
(* Packing and unpacking *)

LEMMA Words ==
    ASSUME NEW A \in SUBSET (0 .. 31), NEW B \in SUBSET (0 .. 31),
           NEW C \in SUBSET (0 .. 31), NEW D \in SUBSET (0 .. 31), NEW t,
           t = E!In(0, A) \cup (E!In(1, B) \cup E!In(2, C) \cup E!In(3, D))
    PROVE  /\ t \subseteq E!AllOnes
           /\ E!WordOf(t, 0) = A /\ E!WordOf(t, 1) = B
           /\ E!WordOf(t, 2) = C /\ E!WordOf(t, 3) = D
<1>1. ASSUME NEW w \in 0 .. 3, NEW S \in SUBSET (0 .. 31), NEW v \in 0 .. 3, NEW b \in 0 .. 31
      PROVE  32 * v + b \in E!In(w, S) <=> v = w /\ b \in S
  BY DEF E!In
<1>2. ASSUME NEW w \in 0 .. 3, NEW S \in SUBSET (0 .. 31)
      PROVE  E!In(w, S) \subseteq E!AllOnes
  BY DEF E!In, E!AllOnes, E!TagBytes
<1>3. t \subseteq E!AllOnes
  BY <1>2
<1>4. \A b \in 0 .. 31 : /\ 32 * 0 + b \in t <=> b \in A
                         /\ 32 * 1 + b \in t <=> b \in B
                         /\ 32 * 2 + b \in t <=> b \in C
                         /\ 32 * 3 + b \in t <=> b \in D
  BY <1>1
<1> QED BY <1>3, <1>4 DEF E!WordOf, E!Word

\* The record that the words of the packed tags stand for.
Header(A, B, C, D) ==
    [seq_number |-> A, obj_id |-> B \ E!TypeField, chunk_id |-> {}, n_bytes |-> {},
     extra |-> [available |-> TRUE, parent_id |-> C \ E!TypeField,
                is_shrink |-> E!SHRINK \in C, shadows |-> E!SHADOWS \in C,
                obj_type |-> E!TypeOf({b - 28 : b \in B \cap E!TypeField}), info |-> D]]

LEMMA Unpacked ==
    ASSUME NEW t, E!WordOf(t, 0) # E!Word
    PROVE  /\ 31 \notin E!WordOf(t, 2) =>
                E!yaffs_unpack_tags2_tags_only(t) =
                  [seq_number |-> E!WordOf(t, 0), obj_id |-> E!WordOf(t, 1),
                   chunk_id |-> E!WordOf(t, 2), n_bytes |-> E!WordOf(t, 3), extra |-> E!NoExtra]
           /\ 31 \in E!WordOf(t, 2) =>
                E!yaffs_unpack_tags2_tags_only(t) =
                  Header(E!WordOf(t, 0), E!WordOf(t, 1), E!WordOf(t, 2), E!WordOf(t, 3))
BY DEF E!yaffs_unpack_tags2_tags_only, Header, E!SEQ_NUMBER, E!OBJ_ID, E!CHUNK_ID, E!N_BYTES,
       E!HEADER_INFO

TagSet == [seq_number : SUBSET (0 .. 28), obj_id : SUBSET (0 .. 27),
           chunk_id : SUBSET (0 .. 30), n_bytes : SUBSET (0 .. 31),
           extra : [available : BOOLEAN, parent_id : SUBSET (0 .. 27),
                    is_shrink : BOOLEAN, shadows : BOOLEAN,
                    obj_type : DOMAIN Types \cup {"UNKNOWN"},
                    info : SUBSET (0 .. 31)]]

LEMMA TypeBack ==
    ASSUME NEW n \in DOMAIN Types
    PROVE  E!TypeOf(Types[n]) = n
<1>1. \A m \in DOMAIN Types : Types[m] = Types[n] => m = n
  BY TagsAssumption
<1>2. (CHOOSE m \in DOMAIN Types : Types[m] = Types[n]) = n
  BY <1>1
<1> QED BY <1>2 DEF E!TypeOf

\* Tags that are packed and unpacked are the tags, as far as packing keeps them.
LEMMA PackBack ==
    ASSUME NEW t \in Tags
    PROVE  /\ E!yaffs_pack_tags2_tags_only(t) \subseteq E!AllOnes
           /\ \A b \in 29 .. 31 : b \notin E!yaffs_pack_tags2_tags_only(t)
           /\ E!yaffs_unpack_tags2_tags_only(E!yaffs_pack_tags2_tags_only(t)) = E!Kept(t)
<1> DEFINE raw == E!yaffs_pack_tags2_tags_only(t)
<1>0. t \in TagSet
  BY TagsAssumption DEF TagSet
<1>1. /\ t.seq_number \in SUBSET (0 .. 31) /\ t.obj_id \in SUBSET (0 .. 31)
      /\ t.chunk_id \in SUBSET (0 .. 31) /\ t.n_bytes \in SUBSET (0 .. 31)
      /\ \A b \in 29 .. 31 : b \notin t.seq_number
      /\ 31 \notin t.chunk_id /\ t.obj_id \subseteq 0 .. 27
  BY <1>0 DEF TagSet
<1>2. /\ t.extra.parent_id \subseteq 0 .. 27 /\ t.extra.info \in SUBSET (0 .. 31)
      /\ t.extra.is_shrink \in BOOLEAN /\ t.extra.shadows \in BOOLEAN
  BY <1>0 DEF TagSet
<1>s. ASSUME E!WordOf(raw, 0) = t.seq_number
      PROVE  E!WordOf(raw, 0) # E!Word /\ \A b \in 29 .. 31 : b \notin raw
  <2>1. \A b \in 29 .. 31 : b \in E!Word /\ 32 * 0 + b = b
    BY DEF E!Word
  <2> QED BY <1>1, <1>s, <2>1 DEF E!WordOf
<1>3. CASE ~E!yaffs_check_tags_extra_packable(t)
  <2>1. raw = E!In(0, t.seq_number)
                \cup (E!In(1, t.obj_id) \cup E!In(2, t.chunk_id) \cup E!In(3, t.n_bytes))
    BY <1>3 DEF E!yaffs_pack_tags2_tags_only, E!SEQ_NUMBER, E!OBJ_ID, E!CHUNK_ID, E!N_BYTES
  <2>2. /\ raw \subseteq E!AllOnes
        /\ E!WordOf(raw, 0) = t.seq_number /\ E!WordOf(raw, 1) = t.obj_id
        /\ E!WordOf(raw, 2) = t.chunk_id /\ E!WordOf(raw, 3) = t.n_bytes
    BY <1>1, <2>1, Words
  <2>3. E!WordOf(raw, 0) # E!Word /\ \A b \in 29 .. 31 : b \notin raw
    BY <1>s, <2>2
  <2> HIDE DEF raw
  <2>4. E!yaffs_unpack_tags2_tags_only(raw) =
           [seq_number |-> t.seq_number, obj_id |-> t.obj_id, chunk_id |-> t.chunk_id,
            n_bytes |-> t.n_bytes, extra |-> E!NoExtra]
    BY <1>1, <2>2, <2>3, Unpacked
  <2>5. E!Kept(t) = [seq_number |-> t.seq_number, obj_id |-> t.obj_id, chunk_id |-> t.chunk_id,
                     n_bytes |-> t.n_bytes, extra |-> E!NoExtra]
    BY <1>0, <1>3 DEF E!Kept, TagSet
  <2> QED BY <2>2, <2>3, <2>4, <2>5 DEF raw
<1>4. CASE E!yaffs_check_tags_extra_packable(t)
  <2>1. /\ t.chunk_id = {} /\ t.extra.available = TRUE /\ t.n_bytes = {}
        /\ t.extra.obj_type \in DOMAIN Types
        /\ t.extra.obj_type \in {"FILE", "HARDLINK"} \/ t.extra.info = {}
    <3>1. t.chunk_id = {} /\ t.extra.available
      BY <1>4 DEF E!yaffs_check_tags_extra_packable
    <3>2. t.extra.available \in BOOLEAN
      BY <1>0 DEF TagSet
    <3> QED BY <1>4, <3>1, <3>2, TagsAssumption
  <2> DEFINE ty == Types[t.extra.obj_type]
             wb == (t.obj_id \ E!TypeField) \cup {28 + b : b \in ty}
             wc == {31} \cup t.extra.parent_id
                   \cup (IF t.extra.is_shrink THEN {30} ELSE {})
                   \cup (IF t.extra.shadows THEN {29} ELSE {})
             wd == IF t.extra.obj_type \in {"FILE", "HARDLINK"} THEN t.extra.info ELSE {}
  <2>2. raw = E!In(0, t.seq_number) \cup (E!In(1, wb) \cup E!In(2, wc) \cup E!In(3, wd))
    BY <1>4 DEF E!yaffs_pack_tags2_tags_only, E!SEQ_NUMBER, E!OBJ_ID, E!CHUNK_ID, E!N_BYTES,
       E!HEADER_INFO, E!SHRINK, E!SHADOWS
  <2>3. ty \subseteq 0 .. 3
    BY <2>1, TagsAssumption
  <2> HIDE DEF ty
  <2>4. /\ wb \in SUBSET (0 .. 31) /\ wc \in SUBSET (0 .. 31) /\ wd \in SUBSET (0 .. 31)
        /\ wd = t.extra.info
    <3>1. wb \in SUBSET (0 .. 31)
      BY <1>1, <2>3
    <3>2. wc \in SUBSET (0 .. 31)
      BY <1>2
    <3>3. wd \in SUBSET (0 .. 31) /\ wd = t.extra.info
      BY <1>2, <2>1
    <3> QED BY <3>1, <3>2, <3>3
  <2>5. wb \ E!TypeField = t.obj_id /\ {b - 28 : b \in wb \cap E!TypeField} = ty
    <3>1. \A b \in ty : 28 + b \in E!TypeField /\ (28 + b) - 28 = b
      BY <2>3 DEF E!TypeField
    <3>2. \A b \in t.obj_id : b \notin E!TypeField
      BY <1>1 DEF E!TypeField
    <3>3. wb \cap E!TypeField = {28 + b : b \in ty}
      BY <3>1, <3>2
    <3>4. {b - 28 : b \in {28 + d : d \in ty}} = ty
      <4> DEFINE U == {28 + d : d \in ty}
      <4>1. (\A b \in ty : 28 + b \in U) /\ (\A u \in U : \E d \in ty : u = 28 + d)
        OBVIOUS
      <4>2. \A u \in U : u - 28 \in ty
        BY <2>3, <4>1
      <4> HIDE DEF U
      <4>3. \A b \in ty : \E u \in U : u - 28 = b
        BY <2>3, <4>1
      <4> QED BY <4>2, <4>3 DEF U
    <3>5. wb \ E!TypeField = t.obj_id
      BY <3>1, <3>2
    <3> QED BY <3>3, <3>4, <3>5
  <2>6. /\ wc \ E!TypeField = t.extra.parent_id /\ 31 \in wc
        /\ (E!SHRINK \in wc) = t.extra.is_shrink /\ (E!SHADOWS \in wc) = t.extra.shadows
    <3>1. wc \ E!TypeField = t.extra.parent_id /\ 31 \in wc
      BY <1>2 DEF E!TypeField
    <3>2. 30 \notin t.extra.parent_id /\ 29 \notin t.extra.parent_id
      BY <1>2
    <3>3. E!SHRINK \in wc <=> t.extra.is_shrink
      BY <3>2 DEF E!SHRINK
    <3>4. E!SHADOWS \in wc <=> t.extra.shadows
      BY <3>2 DEF E!SHADOWS
    <3> QED BY <1>2, <3>1, <3>3, <3>4
  <2> HIDE DEF wb, wc, wd, raw
  <2>7. /\ raw \subseteq E!AllOnes
        /\ E!WordOf(raw, 0) = t.seq_number /\ E!WordOf(raw, 1) = wb
        /\ E!WordOf(raw, 2) = wc /\ E!WordOf(raw, 3) = wd
    <3>1. \A m1, m2, m3, m4 \in SUBSET (0 .. 31) : \A t0 :
            t0 = E!In(0, m1) \cup (E!In(1, m2) \cup E!In(2, m3) \cup E!In(3, m4)) =>
            /\ t0 \subseteq E!AllOnes
            /\ E!WordOf(t0, 0) = m1 /\ E!WordOf(t0, 1) = m2
            /\ E!WordOf(t0, 2) = m3 /\ E!WordOf(t0, 3) = m4
      BY Words
    <3>2. t.seq_number \in SUBSET (0 .. 31) /\ wb \in SUBSET (0 .. 31)
          /\ wc \in SUBSET (0 .. 31) /\ wd \in SUBSET (0 .. 31)
      BY <1>1, <2>4
    <3> QED BY <2>2, <3>1, <3>2
  <2>8. E!WordOf(raw, 0) # E!Word /\ \A b \in 29 .. 31 : b \notin raw
    BY <1>s, <2>7 DEF raw
  <2>9. E!yaffs_unpack_tags2_tags_only(raw) = Header(t.seq_number, wb, wc, wd)
    BY <2>6, <2>7, <2>8, Unpacked
  <2>10. E!TypeOf(ty) = t.extra.obj_type
    BY <2>1, TypeBack DEF ty
  <2>11. Header(t.seq_number, wb, wc, wd) =
           [seq_number |-> t.seq_number, obj_id |-> t.obj_id, chunk_id |-> {}, n_bytes |-> {},
            extra |-> [available |-> TRUE, parent_id |-> t.extra.parent_id,
                       is_shrink |-> t.extra.is_shrink, shadows |-> t.extra.shadows,
                       obj_type |-> t.extra.obj_type, info |-> t.extra.info]]
    BY <2>4, <2>5, <2>6, <2>10 DEF Header
  <2>12. t.extra = [available |-> TRUE, parent_id |-> t.extra.parent_id,
                    is_shrink |-> t.extra.is_shrink, shadows |-> t.extra.shadows,
                    obj_type |-> t.extra.obj_type, info |-> t.extra.info]
    BY <1>0, <2>1 DEF TagSet
  <2>13. t = [seq_number |-> t.seq_number, obj_id |-> t.obj_id, chunk_id |-> {},
              n_bytes |-> {}, extra |-> t.extra]
    BY <1>0, <2>1 DEF TagSet
  <2>14. E!Kept(t) = t
    BY <1>4 DEF E!Kept
  <2> QED BY <2>7, <2>8, <2>9, <2>11, <2>12, <2>13, <2>14 DEF raw
<1> QED BY <1>3, <1>4

-----------------------------------------------------------------------------
(* Reading after no, one or two flipped cells *)

LEMMA CellFields ==
    ASSUME NEW x \in PackedTags, NEW c \in E!Cells
    PROVE  /\ FlipCell(x, c).t = IF c[1] = "t" THEN E!Flip(x.t, c[2]) ELSE x.t
           /\ FlipCell(x, c).line = IF c[1] = "line" THEN E!Flip(x.line, c[2]) ELSE x.line
BY CellKinds DEF FlipCell, PackedTags

LEMMA FlipBack ==
    ASSUME NEW S, NEW p, NEW q
    PROVE  /\ E!Flip(E!Flip(S, p), p) = S
           /\ E!Flip(E!Flip(S, p), q) = E!Flip(E!Flip(S, q), p)
           /\ E!Flip(S, p) \subseteq S \cup {p} /\ S \ {p} \subseteq E!Flip(S, p)
BY DEF E!Flip

\* What is read from a chunk that is not taken for an erased one.
LEMMA ReadUsed ==
    ASSUME NEW x, E!WordOf(x.t, 0) # E!Word
    PROVE  /\ E!yaffs_unpack_tags2(x).tags = E!yaffs_unpack_tags2_tags_only(Correct(x).t)
           /\ E!yaffs_unpack_tags2(x).result = E!EccResult(Correct(x).ret)
BY DEF E!yaffs_unpack_tags2, Correct, E!SEQ_NUMBER

LEMMA Results ==
    E!EccResult(0) = "NO_ERROR" /\ E!EccResult(1) = "FIXED" /\ E!EccResult(-1) = "UNFIXED"
BY DEF E!EccResult

\* The chunk as it was written.
LEMMA WrittenSound ==
    ASSUME NEW t \in Tags
    PROVE  /\ E!Packed(t) \in PackedTags /\ Syndrome(E!Packed(t)) = Clean
           /\ \A b \in 29 .. 31 : b \notin E!Packed(t).t
           /\ E!yaffs_unpack_tags2_tags_only(E!Packed(t).t) = E!Kept(t)
<1> DEFINE raw == E!yaffs_pack_tags2_tags_only(t)
           code == E!yaffs_ecc_calc_other(raw)
<1>1. E!Packed(t) = [t |-> raw, col |-> code.col, line |-> code.line, prime |-> code.prime]
  BY DEF E!Packed
<1>2. code.col \subseteq 0 .. 5 /\ code.line \subseteq E!Word /\ code.prime \subseteq E!Word
  BY CodeTypes
<1>3. /\ raw \subseteq E!AllOnes
      /\ \A b \in 29 .. 31 : b \notin raw
      /\ E!yaffs_unpack_tags2_tags_only(raw) = E!Kept(t)
  BY PackBack
<1> HIDE DEF raw
<1>4. Syndrome(E!Packed(t)) = Clean
  BY <1>1, XorNothing DEF Syndrome, Clean
<1> HIDE DEF code
<1>5. E!Packed(t) \in PackedTags
  BY <1>1, <1>2, <1>3 DEF PackedTags
<1> QED BY <1>1, <1>3, <1>4, <1>5

\* The sequence number is not all ones after two flips.
LEMMA StillUsed ==
    ASSUME NEW S, \A b \in 29 .. 31 : b \notin S, NEW T, NEW p, NEW q, T \subseteq S \cup {p, q}
    PROVE  E!WordOf(T, 0) # E!Word
<1>1. \E b \in 29 .. 31 : b # p /\ b # q
  <2>1. 29 \in 29 .. 31 /\ 30 \in 29 .. 31 /\ 31 \in 29 .. 31 /\ 29 # 30 /\ 29 # 31 /\ 30 # 31
    OBVIOUS
  <2> QED BY <2>1
<1>2. PICK b \in 29 .. 31 : b \notin T
  BY <1>1
<1>3. b \in E!Word /\ 32 * 0 + b = b
  BY DEF E!Word
<1> QED BY <1>2, <1>3 DEF E!WordOf

LEMMA ReadWritten ==
    ASSUME NEW t \in Tags
    PROVE  /\ E!yaffs_unpack_tags2(E!Packed(t)).tags = E!Kept(t)
           /\ E!yaffs_unpack_tags2(E!Packed(t)).result = "NO_ERROR"
<1> DEFINE x == E!Packed(t)
<1>1. /\ Syndrome(x) = Clean /\ \A b \in 29 .. 31 : b \notin x.t
      /\ E!yaffs_unpack_tags2_tags_only(x.t) = E!Kept(t)
  BY WrittenSound
<1> HIDE DEF x
<1>2. E!WordOf(x.t, 0) # E!Word
  BY <1>1, StillUsed
<1>3. Correct(x) = [ret |-> 0, t |-> x.t]
  BY <1>1, Decision
<1>4. Correct(x).ret = 0 /\ Correct(x).t = x.t
  BY <1>3
<1> QED BY <1>1, <1>2, <1>4, ReadUsed, Results DEF x

LEMMA ReadOne ==
    ASSUME NEW t \in Tags, NEW c \in E!Cells
    PROVE  /\ E!yaffs_unpack_tags2(FlipCell(E!Packed(t), c)).tags = E!Kept(t)
           /\ E!yaffs_unpack_tags2(FlipCell(E!Packed(t), c)).result = "FIXED"
<1> DEFINE w == E!Packed(t)
           x == FlipCell(w, c)
<1>1. /\ w \in PackedTags /\ Syndrome(w) = Clean /\ \A b \in 29 .. 31 : b \notin w.t
      /\ E!yaffs_unpack_tags2_tags_only(w.t) = E!Kept(t)
  BY WrittenSound
<1> HIDE DEF w
<1>2. x \in PackedTags /\ Syndrome(x) = Mark(c)
  <2>1. x \in PackedTags /\ Syndrome(x) = Plus(Clean, Mark(c))
    BY <1>1, SyndromeFlip
  <2>2. Mark(c) \in Syndromes
    BY MarkTypes
  <2> QED BY <2>1, <2>2, PlusTypes
<1>3. x.t = IF c[1] = "t" THEN E!Flip(w.t, c[2]) ELSE w.t
  BY <1>1, CellFields
<1> HIDE DEF x
<1>4. E!WordOf(x.t, 0) # E!Word
  <2>1. x.t \subseteq w.t \cup {c[2], c[2]}
    <3>1. E!Flip(w.t, c[2]) \subseteq w.t \cup {c[2], c[2]}
      BY DEF E!Flip
    <3> QED BY <1>3, <3>1
  <2> QED BY <1>1, <2>1, StillUsed
<1>5. Correct(x) = [ret |-> 1, t |-> w.t]
  <2>1. CASE c[1] = "t"
    <3>1. c[2] \in E!AllOnes /\ Mark(c) = MarkT(c[2])
      BY <2>1, CellKinds DEF Mark
    <3>2. /\ Syndrome(x).col \cap (0 .. 5) = Cols(c[2])
          /\ Syndrome(x).line = Lines(c[2] \div 8)
          /\ Syndrome(x).prime = E!Word \ Lines(c[2] \div 8)
      BY <1>2, <3>1 DEF MarkT, Cols
    <3>3. Correct(x) = [ret |-> 1, t |-> E!Flip(x.t, c[2])]
      BY <3>1, <3>2, FixT
    <3>4. E!Flip(x.t, c[2]) = w.t
      BY <1>3, <2>1, FlipBack
    <3> QED BY <3>3, <3>4
  <2>2. CASE c[1] # "t"
    <3>1. Correct(x) = [ret |-> 1, t |-> x.t]
      BY <1>2, <2>2, FixCode
    <3> QED BY <1>3, <2>2, <3>1
  <2> QED BY <2>1, <2>2
<1>6. Correct(x).ret = 1 /\ Correct(x).t = w.t
  BY <1>5
<1> QED BY <1>1, <1>4, <1>6, ReadUsed, Results DEF x, w

LEMMA ReadTwo ==
    ASSUME NEW t \in Tags, NEW c \in E!Cells, NEW d \in E!Cells, c # d
    PROVE  LET got0 == E!yaffs_unpack_tags2(FlipCell(FlipCell(E!Packed(t), c), d))
           IN  \/ got0.result = "UNFIXED"
               \/ got0.tags = E!Kept(t) /\ got0.result = "FIXED"
<1> DEFINE w == E!Packed(t)
           y == FlipCell(w, c)
           x == FlipCell(y, d)
<1>1. /\ w \in PackedTags /\ Syndrome(w) = Clean /\ \A b \in 29 .. 31 : b \notin w.t
      /\ E!yaffs_unpack_tags2_tags_only(w.t) = E!Kept(t)
  BY WrittenSound
<1> HIDE DEF w
<1>2. y \in PackedTags /\ Syndrome(y) = Plus(Clean, Mark(c))
  BY <1>1, SyndromeFlip
<1>3. Mark(c) \in Syndromes /\ Mark(d) \in Syndromes
  BY MarkTypes
<1>4. y.t = IF c[1] = "t" THEN E!Flip(w.t, c[2]) ELSE w.t
  BY <1>1, CellFields
<1> HIDE DEF y
<1>5. Syndrome(x) = Plus(Mark(c), Mark(d)) /\ Syndrome(x) = Plus(Mark(d), Mark(c))
  <2>1. Syndrome(x) = Plus(Syndrome(y), Mark(d))
    BY <1>2, SyndromeFlip
  <2>2. Syndrome(y) = Mark(c)
    BY <1>2, <1>3, PlusTypes
  <2> QED BY <1>3, <2>1, <2>2, PlusTypes
<1>6. x.t = IF d[1] = "t" THEN E!Flip(y.t, d[2]) ELSE y.t
  BY <1>2, CellFields
<1> HIDE DEF x
<1>7. E!WordOf(x.t, 0) # E!Word
  <2>1. y.t \subseteq w.t \cup {c[2]} /\ x.t \subseteq y.t \cup {d[2]}
    <3>1. y.t \subseteq w.t \cup {c[2]}
      <4>1. E!Flip(w.t, c[2]) \subseteq w.t \cup {c[2]}
        BY DEF E!Flip
      <4> QED BY <1>4, <4>1
    <3>2. x.t \subseteq y.t \cup {d[2]}
      <4>1. E!Flip(y.t, d[2]) \subseteq y.t \cup {d[2]}
        BY DEF E!Flip
      <4> QED BY <1>6, <4>1
    <3> QED BY <3>1, <3>2
  <2>2. x.t \subseteq w.t \cup {c[2], d[2]}
    BY <2>1
  <2> QED BY <1>1, <2>2, StillUsed
<1>8. Correct(x).ret = -1 \/ Correct(x) = [ret |-> 1, t |-> w.t]
  <2>1. CASE c[1] = "t" /\ d[1] = "t"
    <3>1. /\ c[2] \in E!AllOnes /\ Mark(c) = MarkT(c[2])
          /\ d[2] \in E!AllOnes /\ Mark(d) = MarkT(d[2])
      BY <2>1, CellKinds DEF Mark
    <3>2. c[2] # d[2]
      <4>1. c = <<c[1], c[2]>> /\ d = <<d[1], d[2]>>
        BY DEF E!Cells
      <4> QED BY <2>1, <4>1
    <3> QED BY <1>5, <3>1, <3>2, TwoT
  <2>2. CASE c[1] = "t" /\ d[1] # "t"
    <3>1. c[2] \in E!AllOnes /\ Mark(c) = MarkT(c[2])
      BY <2>2, CellKinds DEF Mark
    <3>2. Correct(x).ret = -1 \/ Correct(x) = [ret |-> 1, t |-> E!Flip(x.t, c[2])]
      BY <1>5, <2>2, <3>1, TAndCode
    <3>3. E!Flip(x.t, c[2]) = w.t
      BY <1>4, <1>6, <2>2, FlipBack
    <3> QED BY <3>2, <3>3
  <2>3. CASE c[1] # "t" /\ d[1] = "t"
    <3>1. d[2] \in E!AllOnes /\ Mark(d) = MarkT(d[2])
      BY <2>3, CellKinds DEF Mark
    <3>2. Correct(x).ret = -1 \/ Correct(x) = [ret |-> 1, t |-> E!Flip(x.t, d[2])]
      BY <1>5, <2>3, <3>1, TAndCode
    <3>3. E!Flip(x.t, d[2]) = w.t
      BY <1>4, <1>6, <2>3, FlipBack
    <3> QED BY <3>2, <3>3
  <2>4. CASE c[1] # "t" /\ d[1] # "t"
    BY <1>5, <2>4, TwoCode
  <2> QED BY <2>1, <2>2, <2>3, <2>4
<1>9. CASE Correct(x).ret = -1
  BY <1>7, <1>9, ReadUsed, Results DEF x, y, w
<1>10. CASE Correct(x) = [ret |-> 1, t |-> w.t]
  <2>1. Correct(x).ret = 1 /\ Correct(x).t = w.t
    BY <1>10
  <2> QED BY <1>1, <1>7, <2>1, ReadUsed, Results DEF x, y, w
<1> QED BY <1>8, <1>9, <1>10

\* An erased chunk in which a cell of the sequence number is 0: all lines of
\* the code but one at most are ones, and no byte of the tags has such a number.
LEMMA ErasedFails ==
    ASSUME NEW x \in PackedTags, NEW b, E!Word \ {b} \subseteq x.line
    PROVE  Correct(x).ret = -1
<1> DEFINE test == E!yaffs_ecc_calc_other(x.t)
           s == Syndrome(x)
<1>1. test.line \subseteq 0 .. 3
  <2> DEFINE odd == {i \in 0 .. E!TagBytes - 1 : E!Odd({p \in x.t : p \div 8 = i})}
  <2>1. test.line = {l \in E!Word : E!Odd({i \in odd : E!HasBit(i, l)})}
    BY DEF E!yaffs_ecc_calc_other
  <2>2. ~E!Odd({})
    <3>1. E!Cardinality({}) = 0
      BY FS_EmptySet, SameCount
    <3> QED BY <3>1 DEF E!Odd
  <2> HIDE DEF odd
  <2>3. \A l \in E!Word : l \notin 0 .. 3 => {i \in odd : E!HasBit(i, l)} = {}
    BY DEF E!HasBit
  <2> QED BY <2>1, <2>2, <2>3
<1>2. s \in Syndromes
  <2>1. test.col \subseteq 0 .. 5 /\ test.line \subseteq E!Word /\ test.prime \subseteq E!Word
    BY CodeTypes
  <2>2. s = [col |-> E!Xor(x.col, test.col), line |-> E!Xor(x.line, test.line),
             prime |-> E!Xor(x.prime, test.prime)]
    BY DEF Syndrome
  <2>3. x.col \subseteq 0 .. 7 /\ x.line \subseteq E!Word /\ x.prime \subseteq E!Word
    BY DEF PackedTags
  <2> HIDE DEF s, test
  <2> QED BY <2>1, <2>2, <2>3 DEF Syndromes, E!Xor
<1>3. s.line = E!Xor(x.line, test.line)
  BY DEF Syndrome
<1> HIDE DEF s, test
<1>4. \A l \in {4, 5, 6} : l # b => l \in s.line
  <2>1. \A l \in {4, 5, 6} : l \in E!Word /\ l \notin test.line
    BY <1>1 DEF E!Word
  <2> QED BY <1>3, <2>1 DEF E!Xor
<1>5. \E l, m \in s.line : l # m
  <2>1. 4 # 5 /\ 4 # 6 /\ 5 # 6
    OBVIOUS
  <2> QED BY <1>4, <2>1
<1>6. ~(s.line \subseteq 0 .. 3)
  BY <1>4
<1>7. Weight(s) # 1 /\ s # Clean
  BY <1>2, <1>5, TwoMarks
<1>8. Correct(x) = [ret |-> -1, t |-> x.t]
  BY <1>6, <1>7, Decision DEF s
<1> QED BY <1>8

LEMMA ReadErased ==
    ASSUME NEW x \in PackedTags, x.t = E!AllOnes \/ \E b : E!Word \ {b} \subseteq x.line
    PROVE  \/ E!yaffs_unpack_tags2(x).tags = E!Nothing
           \/ E!yaffs_unpack_tags2(x).result = "UNFIXED"
<1>1. CASE E!WordOf(x.t, 0) = E!Word
  BY <1>1 DEF E!yaffs_unpack_tags2, E!yaffs_unpack_tags2_tags_only, E!SEQ_NUMBER
<1>2. CASE E!WordOf(x.t, 0) # E!Word
  <2>1. x.t # E!AllOnes
    <3>1. E!WordOf(E!AllOnes, 0) = E!Word
      BY DEF E!WordOf, E!AllOnes, E!TagBytes, E!Word
    <3> QED BY <1>2, <3>1
  <2>2. Correct(x).ret = -1
    BY <2>1, ErasedFails
  <2> QED BY <1>2, <2>2, ReadUsed, Results
<1> QED BY <1>1, <1>2

LEMMA ErasedCells ==
    ASSUME NEW c \in E!Cells, NEW d \in E!Cells
    PROVE  /\ E!ErasedTags \in PackedTags /\ E!ErasedTags.t = E!AllOnes
           /\ LET x == FlipCell(E!ErasedTags, c)
              IN  x \in PackedTags /\ (x.t = E!AllOnes \/ \E b : E!Word \ {b} \subseteq x.line)
           /\ LET x == FlipCell(FlipCell(E!ErasedTags, c), d)
              IN  x \in PackedTags /\ (x.t = E!AllOnes \/ \E b : E!Word \ {b} \subseteq x.line)
<1> DEFINE w == E!ErasedTags
           y == FlipCell(w, c)
           x == FlipCell(y, d)
<1>1. w \in PackedTags /\ w.t = E!AllOnes /\ w.line = E!Word
  BY DEF E!ErasedTags, PackedTags
<1> HIDE DEF w
<1>2. /\ y \in PackedTags
      /\ y.t = IF c[1] = "t" THEN E!Flip(w.t, c[2]) ELSE w.t
      /\ y.line = IF c[1] = "line" THEN E!Flip(w.line, c[2]) ELSE w.line
  BY <1>1, SyndromeFlip, CellFields
<1> HIDE DEF y
<1>3. /\ x \in PackedTags
      /\ x.t = IF d[1] = "t" THEN E!Flip(y.t, d[2]) ELSE y.t
      /\ x.line = IF d[1] = "line" THEN E!Flip(y.line, d[2]) ELSE y.line
  BY <1>2, SyndromeFlip, CellFields
<1> HIDE DEF x
<1>4. y.t = E!AllOnes \/ y.line = E!Word
  BY <1>1, <1>2
<1>5. E!Word \ {c[2]} \subseteq y.line
  <2>1. E!Word \ {c[2]} \subseteq E!Flip(E!Word, c[2])
    BY DEF E!Flip
  <2> QED BY <1>1, <1>2, <2>1
<1>6. CASE c[1] # "t" /\ d[1] # "t"
  BY <1>1, <1>2, <1>3, <1>4, <1>5, <1>6 DEF x, y, w
<1>7. CASE c[1] = "t"
  <2>1. y.line = E!Word
    BY <1>1, <1>2, <1>7
  <2>2. E!Word \ {d[2]} \subseteq x.line
    BY <1>3, <2>1, FlipBack
  <2> QED BY <1>1, <1>2, <1>3, <1>5, <2>2 DEF x, y, w
<1>8. CASE d[1] = "t"
  <2>1. x.line = y.line
    BY <1>3, <1>8
  <2> QED BY <1>1, <1>2, <1>3, <1>5, <2>1 DEF x, y, w
<1> QED BY <1>6, <1>7, <1>8

-----------------------------------------------------------------------------
(* The invariant *)

Before == IF tags = E!Nothing THEN E!ErasedTags ELSE E!Packed(tags)

\* The chunk is what was written but for the cells that have flipped.
Flipped ==
    \/ flips = {} /\ pt = Before
    \/ \E c \in E!Cells : flips = {c} /\ pt = FlipCell(Before, c)
    \/ \E c, d \in E!Cells : c # d /\ flips = {c, d} /\ pt = FlipCell(FlipCell(Before, c), d)

EccInv ==
    /\ tags \in Tags \cup {E!Nothing}
    /\ Flipped
    /\ TagsSurvive

LEMMA FlipsCount ==
    ASSUME NEW c, NEW d, c # d
    PROVE  /\ E!Cardinality({}) = 0 /\ E!Cardinality({c}) = 1 /\ E!Cardinality({c, d}) = 2
<1>1. Cardinality({}) = 0
  BY FS_EmptySet
<1>2. IsFiniteSet({c}) /\ Cardinality({c}) = 1
  BY FS_Singleton
<1>3. Cardinality({c} \cup {d}) = Cardinality({c}) + 1
  <2>1. d \notin {c}
    OBVIOUS
  <2> QED BY <1>2, <2>1, FS_AddElement
<1>4. {c} \cup {d} = {c, d}
  OBVIOUS
<1> QED BY <1>1, <1>2, <1>3, <1>4, SameCount

LEMMA ReadKeeps ==
    ASSUME EccInv, E!ReadTags
    PROVE  EccInv'
<1> DEFINE r == E!yaffs_unpack_tags2(pt)
<1>1. got' = r /\ tags' = tags /\ pt' = pt /\ flips' = flips
  BY DEF E!ReadTags
<1>2. tags' \in Tags \cup {E!Nothing} /\ Flipped'
  BY <1>1 DEF EccInv, Flipped, Before
<1>3. ASSUME tags = E!Nothing
      PROVE  r.tags = E!Nothing \/ r.result = "UNFIXED"
  <2>1. Before = E!ErasedTags
    BY <1>3 DEF Before
  <2>2. PICK c0 : c0 \in E!Cells
    <3>1. <<"col", 0>> \in E!Cells
      BY DEF E!Cells
    <3> QED BY <3>1
  <2>3. pt \in PackedTags /\ (pt.t = E!AllOnes \/ \E b : E!Word \ {b} \subseteq pt.line)
    <3>1. CASE pt = Before
      BY <2>1, <2>2, <3>1, ErasedCells
    <3>2. CASE \E c \in E!Cells : pt = FlipCell(Before, c)
      BY <2>1, <3>2, ErasedCells
    <3>3. CASE \E c, d \in E!Cells : pt = FlipCell(FlipCell(Before, c), d)
      BY <2>1, <3>3, ErasedCells
    <3> QED BY <3>1, <3>2, <3>3 DEF EccInv, Flipped
  <2> QED BY <2>3, ReadErased
<1>4. ASSUME tags # E!Nothing
      PROVE  \/ r.result = "UNFIXED" /\ E!Cardinality(flips) > 1
             \/ r.tags = E!Kept(tags) /\ r.result = IF flips = {} THEN "NO_ERROR" ELSE "FIXED"
  <2>1. tags \in Tags /\ Before = E!Packed(tags)
    BY <1>4 DEF EccInv, Before
  <2>2. CASE flips = {} /\ pt = Before
    BY <2>1, <2>2, ReadWritten
  <2>3. CASE \E c \in E!Cells : flips = {c} /\ pt = FlipCell(Before, c)
    <3>1. PICK c \in E!Cells : flips = {c} /\ pt = FlipCell(Before, c)
      BY <2>3
    <3>2. r.tags = E!Kept(tags) /\ r.result = "FIXED"
      BY <2>1, <3>1, ReadOne
    <3>3. flips # {}
      BY <3>1
    <3> QED BY <3>2, <3>3
  <2>4. CASE \E c, d \in E!Cells : c # d /\ flips = {c, d} /\ pt = FlipCell(FlipCell(Before, c), d)
    <3>1. PICK c \in E!Cells, d \in E!Cells :
            c # d /\ flips = {c, d} /\ pt = FlipCell(FlipCell(Before, c), d)
      BY <2>4
    <3>2. \/ r.result = "UNFIXED"
          \/ r.tags = E!Kept(tags) /\ r.result = "FIXED"
      BY <2>1, <3>1, ReadTwo
    <3>3. flips # {}
      BY <3>1
    <3>4. E!Cardinality(flips) > 1
      <4>1. E!Cardinality(flips) = 2
        BY <3>1, FlipsCount
      <4> QED BY <4>1
    <3> QED BY <3>2, <3>3, <3>4
  <2> QED BY <2>2, <2>3, <2>4 DEF EccInv, Flipped
<1> HIDE DEF r
<1>5. TagsSurvive'
  BY <1>1, <1>3, <1>4 DEF TagsSurvive, E!TagsSurvive
<1> QED BY <1>2, <1>5 DEF EccInv

LEMMA FlipKeeps ==
    ASSUME EccInv, E!FlipBit
    PROVE  EccInv'
<1>1. /\ E!Cardinality(flips) < MaxFlips /\ got = E!Unread
      /\ tags' = tags /\ got' = got
  BY DEF E!FlipBit
<1>2. PICK c \in E!Cells \ flips : pt' = FlipCell(pt, c) /\ flips' = flips \cup {c}
  BY DEF E!FlipBit, FlipCell
<1>3. Before' = Before /\ TagsSurvive'
  BY <1>1 DEF Before, TagsSurvive, E!TagsSurvive
<1>4. CASE flips = {} /\ pt = Before
  <2>1. flips' = {c} /\ pt' = FlipCell(Before, c) /\ c \in E!Cells
    BY <1>2, <1>4
  <2>2. Flipped'
    BY <1>3, <2>1 DEF Flipped
  <2> QED BY <1>1, <1>3, <2>2 DEF EccInv
<1>5. CASE \E d \in E!Cells : flips = {d} /\ pt = FlipCell(Before, d)
  <2>1. PICK d \in E!Cells : flips = {d} /\ pt = FlipCell(Before, d)
    BY <1>5
  <2>2. d # c /\ flips' = {d, c} /\ pt' = FlipCell(FlipCell(Before, d), c) /\ c \in E!Cells
    BY <1>2, <2>1
  <2>3. Flipped'
    BY <1>3, <2>2 DEF Flipped
  <2> QED BY <1>1, <1>3, <2>3 DEF EccInv
<1>6. ~(\E d, e \in E!Cells : d # e /\ flips = {d, e})
  <2> SUFFICES ASSUME NEW d, NEW e, d # e, flips = {d, e} PROVE FALSE
    OBVIOUS
  <2>1. E!Cardinality(flips) = 2
    BY FlipsCount
  <2>2. MaxFlips \in 0 .. 2
    BY TagsAssumption
  <2> QED BY <1>1, <2>1, <2>2
<1> QED BY <1>4, <1>5, <1>6 DEF EccInv, Flipped

LEMMA EccStep ==
    ASSUME EccInv, [E!Next]_evars
    PROVE  EccInv'
<1>1. CASE E!WriteTags
  <2>1. /\ flips = {} /\ flips' = {} /\ got = E!Unread /\ got' = got
        /\ tags' \in Tags /\ pt' = E!Packed(tags')
    BY <1>1 DEF E!WriteTags
  <2>2. tags' # E!Nothing
    <3>1. tags' \in TagSet
      BY <2>1, TagsAssumption DEF TagSet
    <3> QED BY <3>1 DEF TagSet, E!Nothing
  <2>3. Flipped'
    BY <2>1, <2>2 DEF Flipped, Before
  <2> QED BY <2>1, <2>3 DEF EccInv, TagsSurvive, E!TagsSurvive
<1>2. CASE E!FlipBit
  BY <1>2, FlipKeeps
<1>3. CASE E!ReadTags
  BY <1>3, ReadKeeps
<1>4. CASE UNCHANGED evars
  BY <1>4 DEF evars, EccInv, Flipped, Before, TagsSurvive, E!TagsSurvive
<1> QED BY <1>1, <1>2, <1>3, <1>4 DEF E!Next

\* The tags of a chunk are read as they were written in spite of one flipped
\* cell anywhere in tags or code, two are noticed, and an erased chunk with
\* flipped cells is not taken for one with sound tags, for all tags that fit
\* (yaffs_unpack_tags2() and yaffs_ecc_correct_other()).
THEOREM TagsAreSafe == FlashSpec => []TagsSurvive
<1>1. FlashInit => EccInv
  BY DEF FlashInit, E!Init, EccInv, Flipped, Before, TagsSurvive, E!TagsSurvive
<1>2. EccInv /\ [FlashNext]_<<half, vars, evars>> => EccInv'
  <2> SUFFICES ASSUME EccInv, [FlashNext]_<<half, vars, evars>> PROVE EccInv'
    OBVIOUS
  <2>1. [E!Next]_evars
    BY DEF FlashNext
  <2> QED BY <2>1, EccStep
<1>3. EccInv => TagsSurvive
  BY DEF EccInv
<1> QED BY <1>1, <1>2, <1>3, PTL DEF FlashSpec
=============================================================================
