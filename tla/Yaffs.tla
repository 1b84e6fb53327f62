--------------------------------- MODULE Yaffs --------------------------------
(***************************************************************************)
(* YAFFS2 (fs/yaffs2): the log of chunks on flash, the allocator and the   *)
(* garbage collector, files with their short operation cache, deletion and *)
(* renaming, and the scan that rebuilds all of it after a power failure.   *)
(*                                                                         *)
(* Calls run one after the other under the gross lock, so that a call is   *)
(* one step.  The operators below are named after the functions they model *)
(* and map a device to the device the function leaves; `ret' is what it    *)
(* returned.  A device keeps in `cuts' every state the flash goes through  *)
(* in the call: power may fail at each of them, and then only the flash    *)
(* remains.                                                                *)
(***************************************************************************)
EXTENDS Integers, Sequences, FiniteSets, SequencesExt, FiniteSetsExt, Functions

CONSTANTS
    NBlocks,    \* internal_end_block; blocks are numbered from 1
    NPages,     \* chunks_per_block
    Reserved,   \* n_reserved_blocks
    Ids,        \* object numbers of files
    Names,      \* names in the root directory
    NChunks,    \* chunks of the largest file
    Writes,     \* what an application writes: <<position, bytes>>, no byte 0
    Sizes,      \* what it sets the size of a file to
    RefreshPeriod, \* collections from one refresh of the oldest block to the next
    SmallHole,  \* YAFFS_SMALL_HOLE_THRESHOLD
    Faults,     \* possible chips: chunks that cannot be programmed, blocks that cannot
                \* be erased or marked bad, whether torn tags still tell the number
    Setup,      \* the files there are at first: <<object, name, bytes, ...>>, each written
    MaxCalls,   \* bound: calls of the file system
    MaxOff      \* bound: power failures

\* chunks_per_summary: the last chunk of a block holds the tags of the others.
PerSummary == NPages - 1

\* The geometry check of yaffs_guts_initialise(); the first block is 1.
Geometry == NPages >= 2 /\ Reserved >= 2 /\ NBlocks > 1 + Reserved + 2

\* Only chips that can be mounted.  A page that cannot be programmed is not the
\* last before the summary, which would be written with its tags all the same.
ASSUME YaffsAssumption ==
    /\ NBlocks \in Nat /\ NPages \in Nat /\ Reserved \in Nat
    /\ Geometry
    /\ Ids \subseteq Nat \ {0} /\ 0 \notin Names
    /\ NChunks \in Nat \ {0} /\ Sizes \subseteq 0 .. 2 * NChunks
    /\ RefreshPeriod \in Nat /\ RefreshPeriod >= 10
    /\ \A f \in Faults : \A c \in f.program : c % NPages # PerSummary - 1
    /\ SmallHole \in Nat /\ MaxCalls \in Nat /\ MaxOff \in Nat

VARIABLES
    dev,     \* the device: its memory and its flash
    may,     \* history: the objects each name, and the values each byte may be
             \* found with after a failure; `kept': bytes no truncation discarded
    used     \* how much of the bounds is used up

vars == <<dev, may, used>>

Blocks == 1 .. NBlocks
Chunks == NPages .. (NBlocks + 1) * NPages - 1
BlockOf(c) == c \div NPages
PagesOf(b) == b * NPages .. b * NPages + NPages - 1

\* A chunk holds two bytes.  Positions in a file are 0 .. Bytes - 1.
Unit == 2
Bytes == NChunks * Unit
ChunkAt(pos) == pos \div Unit + 1

\* What a page may hold.  The sequence number in the tags is the same for all
\* pages of a block and is kept once per block: 0 if it is erased, -1 if a torn
\* first page gives a number out of range.  A summary repeats the tags of the
\* pages before it.
Erased == [k |-> "ff"]
Torn == [k |-> "torn"]     \* tags the ECC cannot repair
Blank == [k |-> "blank"]   \* tags erased, data not
Summary == [k |-> "sum"]
BadBlock == [k |-> "bad"]  \* YAFFS_SEQUENCE_BAD_BLOCK
Data(o, c, v, n) == [k |-> "data", obj |-> o, c |-> c, v |-> v, n |-> n]
Header(o, dir, name, size, shrink, shadows) ==
    [k |-> "hdr", obj |-> o, dir |-> dir, name |-> name, size |-> size,
     shrink |-> shrink, shadows |-> shadows]

NoFile == [dir |-> "none", name |-> 0, hdr |-> 0, size |-> 0, map |-> [c \in 1 .. NChunks |-> 0],
           cache |-> [c \in 1 .. NChunks |-> <<>>], dirty |-> FALSE, shadowed |-> FALSE]

\* Functions call one another by name: Do(d, <<function, arguments>>).
RECURSIVE Do(_, _)

-----------------------------------------------------------------------------
(* The flash *)

Cut(d, flash) == [d EXCEPT !.cuts = Append(@, flash)]

\* The flash with page c as p and sequence number n for its block.
With(flash, c, p, n) == [flash EXCEPT !.page[c] = p, !.seq[BlockOf(c)] = n]

\* Programming a page: it may be cut short.  A page of a bad spot is left torn.
\* The number of the block is what its first page says.
write_chunk_tags_fn(d, c, page, n) ==
    LET first == c % NPages = 0
        left == IF c \in d.faults.program THEN Torn ELSE page
        says == IF left = Torn /\ first /\ ~d.faults.legible THEN -1 ELSE n
        torn == <<With(d.flash, c, Torn, n), With(d.flash, c, Blank, n)>>
        wild == IF first THEN <<With(d.flash, c, Torn, -1)>> ELSE <<>>
    IN  [d EXCEPT !.flash = With(d.flash, c, left, says), !.ret = IF left = page THEN 1 ELSE 0,
                  !.cuts = @ \o torn \o wild \o <<With(d.flash, c, left, says)>>]

\* Erasing a block: cut short, its pages cannot be read, and its first page may
\* give any number.
yaffs_erase_block(d, b) ==
    LET with(p, n) == [d.flash EXCEPT !.page = [c \in PagesOf(b) |-> p] @@ d.flash.page, !.seq[b] = n]
        newest == Max(Range(d.flash.seq)) + 1
        torn == <<with(Torn, d.flash.seq[b]), with(Torn, newest), with(Torn, -1)>>
        done == IF b \in d.faults.erase THEN torn[1] ELSE with(Erased, 0)
    IN  [d EXCEPT !.flash = done, !.ret = IF b \in d.faults.erase THEN 0 ELSE 1,
                  !.cuts = @ \o Append(torn, done)]

-----------------------------------------------------------------------------
(* Blocks and chunks *)

PagesInUse(d, b) == Cardinality({c \in PagesOf(b) : c \in d.inuse})

\* Free chunks and blocks, counted afresh.
yaffs_count_free_chunks(d) ==
    FoldSet(LAMBDA b, n : n + NPages - PagesInUse(d, b), 0,
            {b \in Blocks : d.st[b] \in {"EMPTY", "ALLOCATING", "COLLECTING", "FULL"}})

yaffs_check_alloc_available(d, n) == d.free > Reserved * NPages + n

Dirty(d, b) == d.st[b] = "FULL" /\ PagesInUse(d, b) < NPages

yaffs_calc_oldest_dirty_seq(d) ==
    LET dirty == {b \in Blocks : Dirty(d, b)}
    IN  IF dirty = {} THEN d
        ELSE [d EXCEPT !.oldest = CHOOSE b \in dirty : \A x \in dirty : d.seq[b] <= d.seq[x]]

yaffs2_find_oldest_dirty_seq(d) ==
    IF d.oldest = 0 THEN yaffs_calc_oldest_dirty_seq(d) ELSE d

yaffs2_clear_oldest_dirty_seq(d, b) == IF d.oldest = b THEN [d EXCEPT !.oldest = 0] ELSE d

yaffs2_update_oldest_dirty_seq(d, b) ==
    IF d.oldest # 0 /\ d.seq[d.oldest] > d.seq[b] THEN [d EXCEPT !.oldest = b] ELSE d

\* A block with a shrink header goes only when no older block has discarded
\* chunks, which the header might still have to hide.
yaffs_block_ok_for_gc(d, b) ==
    \/ b \notin d.shrink
    \/ d.oldest # 0 /\ d.seq[b] <= d.seq[d.oldest]

\* Round robin: the blocks in the order a finder visits them.
RoundRobin(finder) == [i \in 1 .. NBlocks |-> ((finder + i - 1) % NBlocks) + 1]
First(order, S) == order[Min({i \in 1 .. NBlocks : order[i] \in S})]

\* alloc is 0 where the code has alloc_block = -1.
yaffs_find_alloc_block(d) ==
    LET empty == {b \in Blocks : d.st[b] = "EMPTY"}
        b == First(RoundRobin(d.finder), empty)
    IN  IF d.erased < 1 \/ empty = {} THEN d
        ELSE [d EXCEPT !.st[b] = "ALLOCATING", !.seq[b] = Max({d.seq[x] : x \in Blocks}) + 1,
                       !.erased = @ - 1, !.finder = b, !.alloc = b]

yaffs_alloc_chunk(d0, reserve) ==
    LET last(d) == d.page + 1 >= NPages
        take(d) ==
            IF ~reserve /\ ~yaffs_check_alloc_available(d, 1) THEN [d EXCEPT !.ret = -1]
            ELSE IF d.alloc = 0 THEN [d EXCEPT !.ret = -1, !.out = TRUE]
            ELSE [d EXCEPT !.ret = d.alloc * NPages + d.page,
                           !.inuse = @ \cup {d.alloc * NPages + d.page},
                           !.page = @ + 1, !.free = @ - 1,
                           !.st[d.alloc] = IF last(d) THEN "FULL" ELSE @,
                           !.alloc = IF last(d) THEN 0 ELSE @]
    IN  take(IF d0.alloc = 0 THEN [yaffs_find_alloc_block(d0) EXCEPT !.page = 0] ELSE d0)

yaffs_skip_rest_of_block(d) ==
    IF d.alloc > 0 /\ d.st[d.alloc] = "ALLOCATING"
    THEN [d EXCEPT !.st[d.alloc] = "FULL", !.alloc = 0] ELSE d

\* The summary of a block is a chunk in use that belongs to no object.
SummaryOf(b) == b * NPages + PerSummary

yaffs_summary_write(d, b) ==
    LET w == write_chunk_tags_fn(d, SummaryOf(b), Summary, d.seq[b])
    IN  IF w.ret = 0 THEN w
        ELSE [w EXCEPT !.inuse = @ \cup {SummaryOf(b)}, !.free = @ - 1]

\* Behind the last page before it, whether or not that one could be written.
yaffs_summary_add(d, c) ==
    IF c % NPages = PerSummary - 1
    THEN [yaffs_skip_rest_of_block(yaffs_summary_write(d, BlockOf(c))) EXCEPT !.ret = d.ret]
    ELSE d

yaffs_summary_gc(d, b) ==
    IF SummaryOf(b) \in d.inuse THEN [d EXCEPT !.inuse = @ \ {SummaryOf(b)}, !.free = @ + 1] ELSE d

yaffs_wr_chunk_tags_nand(d, c, page) ==
    yaffs_summary_add(write_chunk_tags_fn(d, c, page, d.seq[BlockOf(c)]), c)

\* A block that cannot be marked bad is erased, and its first page given a number
\* that the scan takes for the mark.
yaffs_retire_block(d0, b) ==
    LET marked == [d0.flash EXCEPT !.bad = @ \cup {b}]
        number(e) == IF e.ret = 0 THEN e ELSE write_chunk_tags_fn(e, b * NPages, BadBlock, -1)
        mark(d) == IF b \in d.faults.mark THEN number(yaffs_erase_block(d, b))
                   ELSE [Cut(d, marked) EXCEPT !.flash = marked]
    IN  [mark(yaffs2_clear_oldest_dirty_seq(d0, b)) EXCEPT
            !.st[b] = "DEAD", !.retire = @ \ {b}, !.prio = @ \ {b}]

MutantBlockBecameDirty(d0, b) ==
    LET try(d) == IF b \in d.retire THEN [d EXCEPT !.ret = 0] ELSE yaffs_erase_block(d, b)
        done(e) ==
            IF e.ret = 0 THEN yaffs_retire_block(e, b)
            ELSE [e EXCEPT !.st[b] = "EMPTY", !.seq[b] = 0, !.erased = @ + 1,
                           !.inuse = @ \ PagesOf(b), !.shrink = @ \ {b}, !.prio = @ \ {b},
                           !.unchecked = @ \ {b}]
    IN  done(try([yaffs2_clear_oldest_dirty_seq(d0, b) EXCEPT
                     !.st[b] = "DIRTY", !.gcb = IF @ = b THEN 0 ELSE @,
                     !.dirtiest = IF @ = b THEN 0 ELSE @]))

yaffs_block_became_dirty(d0, b) ==
    LET try(d) == IF b \in d.retire THEN [d EXCEPT !.ret = 0] ELSE yaffs_erase_block(d, b)
        done(e) ==
            IF e.ret = 0 THEN yaffs_retire_block([e EXCEPT !.free = @ - NPages], b)
            ELSE [e EXCEPT !.st[b] = "EMPTY", !.seq[b] = 0, !.erased = @ + 1,
                           !.inuse = @ \ PagesOf(b), !.shrink = @ \ {b}, !.prio = @ \ {b},
                           !.unchecked = @ \ {b}]
    IN  done(try([yaffs2_clear_oldest_dirty_seq(d0, b) EXCEPT
                     !.st[b] = "DIRTY", !.gcb = IF @ = b THEN 0 ELSE @,
                     !.dirtiest = IF @ = b THEN 0 ELSE @]))

\* Erases the block with the last chunk in use, unless its shrink header is
\* still needed.
yaffs_chunk_del(d0, c) ==
    LET b == BlockOf(c)
        erase(e) == IF /\ PagesInUse(e, b) = 0 /\ b \notin e.shrink
                       /\ e.st[b] \notin {"ALLOCATING", "NEEDS_SCAN"}
                    THEN Do(e, <<"yaffs_block_became_dirty", b>>) ELSE e
        drop(d) == IF d.st[b] \notin {"ALLOCATING", "FULL", "NEEDS_SCAN", "COLLECTING"} THEN d
                   ELSE erase([d EXCEPT !.free = @ + 1, !.inuse = @ \ {c}])
    IN  IF c <= 0 THEN d0 ELSE drop(yaffs2_update_oldest_dirty_seq(d0, b))

yaffs_check_chunk_erased(d, c) == d.flash.page[c].k = "ff"

yaffs_handle_chunk_wr_error(d, c, erased_ok) ==
    LET b == BlockOf(c)
        e == [d EXCEPT !.prio = @ \cup {b}, !.retire = IF erased_ok THEN @ \cup {b} ELSE @]
    IN  yaffs_skip_rest_of_block(Do(e, <<"yaffs_chunk_del", c>>))

\* Takes chunks until one can be written and read back.
yaffs_write_new_chunk(d0, page, reserve) ==
    LET again(d) == Do(d, <<"yaffs_write_new_chunk", page, reserve>>)
        written(w, c, check) ==
            IF w.ret = 0 THEN again(yaffs_handle_chunk_wr_error(w, c, check))
            ELSE [w EXCEPT !.ret = c, !.unchecked = @ \ {BlockOf(c)}]
        write(a, c) ==
            IF c < 0 THEN a
            ELSE IF BlockOf(c) \in a.unchecked /\ ~yaffs_check_chunk_erased(a, c)
            THEN again(yaffs_skip_rest_of_block(Do(a, <<"yaffs_chunk_del", c>>)))
            ELSE written(yaffs_wr_chunk_tags_nand(a, c, page), c, BlockOf(c) \in a.unchecked)
        start(a) == write(a, a.ret)
    IN  start(yaffs_alloc_chunk(d0, reserve))

-----------------------------------------------------------------------------
(* Garbage collection *)

\* Headers are copied with the present file size, and neither shrink nor shadow.
yaffs_gc_process_chunk(d, c) ==
    LET p == d.flash.page[c]
        known == p.k \in {"data", "hdr"} /\ d.obj[p.obj].dir # "none"
        copy == IF p.k = "data" THEN p
                ELSE [p EXCEPT !.size = d.obj[p.obj].size, !.shrink = FALSE, !.shadows = 0]
        drop(e) == [Do(e, <<"yaffs_chunk_del", c>>) EXCEPT !.ret = 1]
        moved(w) ==
            IF w.ret < 0 THEN [w EXCEPT !.ret = 0]
            ELSE drop(IF p.k = "data" THEN [w EXCEPT !.obj[p.obj].map[p.c] = w.ret]
                      ELSE [w EXCEPT !.obj[p.obj].hdr = w.ret])
    IN  IF known THEN moved(Do(d, <<"yaffs_write_new_chunk", copy, TRUE>>)) ELSE drop(d)

MutantGcBlock(d0, b, copies) ==
    LET step(e, c) ==
            IF e.ret = 1 /\ e.st[b] = "COLLECTING"
            THEN [Do(e, <<"yaffs_gc_process_chunk", c>>) EXCEPT !.gcpos = (c % NPages) + 1] ELSE e
        todo(d) == SetToSortSeq({c \in PagesOf(b) : c \in d.inuse /\ c % NPages >= d.gcpos}, <)
        copy(d) ==
            IF PagesInUse(d, b) = 0 THEN Do(d, <<"yaffs_block_became_dirty", b>>)
            ELSE FoldLeft(step, d, SubSeq(todo(d), 1, Min({copies, Len(todo(d))})))
        end(e) == [e EXCEPT !.gcb = IF e.st[b] = "COLLECTING" THEN @ ELSE 0,
                            !.gcpos = IF e.st[b] = "COLLECTING" THEN @ ELSE 0, !.gcoff = FALSE]
    IN  end(copy(yaffs_summary_gc(
            [d0 EXCEPT !.st[b] = IF @ = "FULL" THEN "COLLECTING" ELSE @,
                       !.shrink = @ \ {b}, !.gcoff = TRUE, !.ret = 1], b)))

\* Copies what is in use, all of it or (passive) five chunks, and deletes it.
yaffs_gc_block(d0, b, copies) ==
    LET step(e, c) ==
            IF e.ret = 1 /\ e.st[b] = "COLLECTING"
            THEN [Do(e, <<"yaffs_gc_process_chunk", c>>) EXCEPT !.gcpos = (c % NPages) + 1] ELSE e
        todo(d) == SetToSortSeq({c \in PagesOf(b) : c \in d.inuse /\ c % NPages >= d.gcpos}, <)
        copy(d) ==
            IF PagesInUse(d, b) = 0 THEN Do(d, <<"yaffs_block_became_dirty", b>>)
            ELSE FoldLeft(step, d, SubSeq(todo(d), 1, Min({copies, Len(todo(d))})))
        end(e) == [e EXCEPT !.st[b] = IF @ = "COLLECTING" THEN "FULL" ELSE @,
                            !.gcb = IF e.st[b] = "COLLECTING" THEN @ ELSE 0,
                            !.gcpos = IF e.st[b] = "COLLECTING" THEN @ ELSE 0, !.gcoff = FALSE]
    IN  end(copy(yaffs_summary_gc(
            [d0 EXCEPT !.st[b] = IF @ = "FULL" THEN "COLLECTING" ELSE @,
                       !.shrink = @ \ {b}, !.gcoff = TRUE, !.ret = 1], b)))

\* The oldest full block, once in RefreshPeriod collections and after a mount.
yaffs2_find_refresh_block(d) ==
    LET full == {b \in Blocks : d.st[b] = "FULL"}
        oldest == CHOOSE b \in full : \A x \in full : d.seq[b] <= d.seq[x]
    IN  IF d.skip > 0 THEN d
        ELSE [d EXCEPT !.skip = RefreshPeriod, !.gcpos = 0, !.gcb = IF full = {} THEN 0 ELSE oldest]

\* Searches on from the finder for the block with the fewest chunks in use, all
\* blocks or (passive) one in 16, until one has at most YAFFS_GC_GOOD_ENOUGH (2);
\* a passive search is content with YAFFS_GC_PASSIVE_THRESHOLD (4) and begins with
\* blocks that failed a write.  (What 20 searches in vain lead to is left out.)
yaffs_find_gc_block(d0, aggressive) ==
    LET known(d, S) == IF S \cap d.shrink = {} THEN d ELSE yaffs2_find_oldest_dirty_seq(d)
        full(d) == {b \in d.prio : d.st[b] = "FULL"}
        ok(d) == {b \in full(d) : yaffs_block_ok_for_gc(d, b)}
        grab(d) == [d EXCEPT !.dirtiest = 0, !.gcb = IF ok(d) # {} THEN Min(ok(d)) ELSE d.oldest]
        prioritised(d) == IF aggressive \/ d.prio = {} THEN d ELSE grab(known(d, full(d)))
        weigh(d, b) ==
            IF /\ Dirty(d, b) /\ yaffs_block_ok_for_gc(d, b)
               /\ d.dirtiest = 0 \/ PagesInUse(d, b) < d.using
            THEN [d EXCEPT !.gcfinder = b, !.dirtiest = b, !.using = PagesInUse(d, b)]
            ELSE [d EXCEPT !.gcfinder = b]
        look(d, i) == LET b == (d.gcfinder % NBlocks) + 1 IN
            IF d.dirtiest # 0 /\ d.using <= 2 THEN d
            ELSE weigh(IF Dirty(d, b) THEN known(d, {b}) ELSE d, b)
        select(d) == IF d.using > (IF aggressive THEN NPages ELSE 4) THEN d ELSE [d EXCEPT !.gcb = d.dirtiest]
        search(d) == IF d.gcb # 0 THEN d
                     ELSE select(FoldLeft(look, d, [i \in 1 .. (IF aggressive THEN NBlocks ELSE NBlocks \div 16 + 1) |-> i]))
        done(d) == IF d.gcb = 0 THEN d
                   ELSE [d EXCEPT !.gcpos = 0, !.dirtiest = 0, !.using = 0, !.skip = Max({@ - 1, 0})]
    IN  done(search(prioritised(d0)))

MutantGcTry(d0) ==
    LET aggressive == d0.erased < Reserved - 1
        find(d) == IF d.gcb = 0 THEN yaffs_find_gc_block(d, aggressive) ELSE d
        collect(d) == IF d.gcb = 0 THEN d
                      ELSE Do(d, <<"yaffs_gc_block", d.gcb,
                                   IF aggressive THEN NPages ELSE Min({5, NPages})>>)
    IN  IF ~aggressive /\ ~d0.bg /\ d0.erased * NPages > d0.free \div 4 THEN d0
        ELSE collect(find(IF d0.gcb = 0 /\ ~aggressive THEN yaffs2_find_refresh_block(d0) ELSE d0))

\* Collection is aggressive when erased blocks run short.  Otherwise it waits
\* until less than a quarter of what is free is erased, unless it runs in the
\* background (gc_skip, which is asked for a half, then never counts).
GcTry(d0) ==
    LET aggressive == d0.erased < Reserved + 1
        find(d) == IF d.gcb = 0 THEN yaffs_find_gc_block(d, aggressive) ELSE d
        collect(d) == IF d.gcb = 0 THEN d
                      ELSE Do(d, <<"yaffs_gc_block", d.gcb,
                                   IF aggressive THEN NPages ELSE Min({5, NPages})>>)
    IN  IF ~aggressive /\ ~d0.bg /\ d0.erased * NPages > d0.free \div 4 THEN d0
        ELSE collect(find(IF d0.gcb = 0 /\ ~aggressive THEN yaffs2_find_refresh_block(d0) ELSE d0))

yaffs_check_gc(d) ==
    LET more(e) == IF e.erased < Reserved /\ e.gcb > 0 THEN Do(e, <<"GcTry">>) ELSE e
    IN  IF d.gcoff THEN d ELSE more(Do(d, <<"GcTry">>))

-----------------------------------------------------------------------------
(* Files *)

\* The two bytes of a chunk, as the cache, the flash or a hole has them.
Content(d, o, c) ==
    LET f == d.obj[o]
    IN  IF f.cache[c] # <<>> THEN f.cache[c]
        ELSE IF f.map[c] > 0 THEN d.flash.page[f.map[c]].v
        ELSE [i \in 1 .. Unit |-> 0]

yaffs_rd_data_obj(d, o, c) ==
    IF d.obj[o].map[c] > 0 THEN d.flash.page[d.obj[o].map[c]].v ELSE [i \in 1 .. Unit |-> 0]

ByteAt(d, o, pos) ==
    IF d.obj[o].dir = "none" \/ pos >= d.obj[o].size THEN 0
    ELSE Content(d, o, ChunkAt(pos))[(pos % Unit) + 1]

MutantWrDataObj(d0, o, c, v, n, reserve) ==
    LET replace(w, prev) ==
            IF w.ret < 0 THEN w
            ELSE [Do([w EXCEPT !.obj[o].map[c] = w.ret], <<"yaffs_chunk_del", prev>>) EXCEPT !.ret = w.ret]
        write(d) == replace(Do(d, <<"yaffs_write_new_chunk", Data(o, c, v, n), reserve>>), d0.obj[o].map[c])
    IN  write(Do(d0, <<"yaffs_check_gc">>))

yaffs_wr_data_obj(d0, o, c, v, n, reserve) ==
    LET replace(w, prev) ==
            IF w.ret < 0 THEN w
            ELSE [Do([w EXCEPT !.obj[o].map[c] = w.ret], <<"yaffs_chunk_del", prev>>) EXCEPT !.ret = w.ret]
        write(d) == replace(Do(d, <<"yaffs_write_new_chunk", Data(o, c, v, n), reserve>>), d.obj[o].map[c])
    IN  write(Do(d0, <<"yaffs_check_gc">>))

yaffs_obj_cache_dirty(d, o) == \E c \in 1 .. NChunks : d.obj[o].cache[c] # <<>>

Gone(dir) == dir \in {"deleted", "unlinked"}

\* A new object header: what is in memory of the object, made durable.
yaffs_update_oh(d0, o, shrink, shadows) ==
    LET page(f) == Header(o, f.dir, f.name, IF Gone(f.dir) THEN 0 ELSE f.size, shrink, shadows)
        clean(e, new) ==
            [e EXCEPT !.obj[o].dirty = @ /\ yaffs_obj_cache_dirty(e, o), !.ret = new,
                      !.shrink = IF shrink THEN @ \cup {BlockOf(new)} ELSE @]
        replace(w, prev) ==
            IF w.ret < 0 THEN w
            ELSE clean(Do([w EXCEPT !.obj[o].hdr = w.ret], <<"yaffs_chunk_del", prev>>), w.ret)
        write(d) == replace(Do(d, <<"yaffs_write_new_chunk", page(d.obj[o]), d.obj[o].hdr > 0>>),
                            d.obj[o].hdr)
    IN  write(Do(d0, <<"yaffs_check_gc">>))

CacheBytes(d, o, c) == Min({Unit, d.obj[o].size - (c - 1) * Unit})

\* The dirty chunks of a file in order, until one cannot be written; that one
\* is dropped all the same.
yaffs_flush_file_cache(d, o) ==
    LET step(e, c) ==
            IF e.ret <= 0 \/ e.obj[o].cache[c] = <<>> THEN e
            ELSE [Do(e, <<"yaffs_wr_data_obj", o, c, e.obj[o].cache[c], CacheBytes(e, o, c), TRUE>>) EXCEPT
                     !.obj[o].cache[c] = <<>>]
    IN  FoldLeft(step, [d EXCEPT !.ret = 1], [c \in 1 .. NChunks |-> c])

yaffs_flush_file(d, o) ==
    IF ~d.obj[o].dirty THEN [d EXCEPT !.ret = 1]
    ELSE Do(Do(d, <<"yaffs_flush_file_cache", o>>), <<"yaffs_update_oh", o, FALSE, 0>>)

yaffs_invalidate_whole_cache(d, o) ==
    [d EXCEPT !.obj[o].cache = [c \in 1 .. NChunks |-> <<>>]]

\* Bytes into one chunk: a whole chunk goes to the flash, a part of one into
\* the cache, if there is room for it on the flash.
WriteChunk(d, o, pos, bytes) ==
    LET c == ChunkAt(pos)
        new == [i \in 1 .. Unit |->
                  LET k == (c - 1) * Unit + i - pos IN
                  IF k \in DOMAIN bytes THEN bytes[k] ELSE Content(d, o, c)[i]]
        cached == d.obj[o].cache[c] # <<>>
    IN  IF Len(bytes) = Unit
        THEN [Do(d, <<"yaffs_wr_data_obj", o, c, new, Unit, FALSE>>) EXCEPT !.obj[o].cache[c] = <<>>]
        ELSE IF cached \/ yaffs_check_alloc_available(d, 1)
        THEN [d EXCEPT !.obj[o].cache[c] = new, !.ret = 1]
        ELSE [d EXCEPT !.ret = -1]

\* The pieces of a write, one per chunk: <<position, bytes>>.
Pieces(pos, bytes) ==
    LET cs == ChunkAt(pos) .. ChunkAt(pos + Len(bytes) - 1)
        from(c) == Max({pos, (c - 1) * Unit})
        upto(c) == Min({pos + Len(bytes), c * Unit})
    IN  [i \in 1 .. Cardinality(cs) |->
            LET c == Min(cs) + i - 1 IN <<from(c), SubSeq(bytes, from(c) - pos + 1, upto(c) - pos)>>]

\* Returns the bytes written; the size grows in memory only.
yaffs_do_file_wr(d, o, pos, bytes) ==
    LET count(w, n) == IF w.ret < 0 THEN w ELSE [w EXCEPT !.done = @ + n]
        step(e, p) == IF e.ret < 0 THEN e ELSE count(WriteChunk(e, o, p[1], p[2]), Len(p[2]))
        end(e) == [e EXCEPT !.obj[o].size = Max({@, pos + e.done}), !.obj[o].dirty = TRUE,
                            !.ret = e.done]
    IN  end(FoldLeft(step, [d EXCEPT !.ret = 1, !.done = 0], Pieces(pos, bytes)))

\* Deleted from the last chunk backwards.
yaffs_prune_chunks(d, o, size) ==
    LET doomed == {c \in 1 .. NChunks : (c - 1) * Unit >= size /\ d.obj[o].map[c] > 0}
        step(e, c) == Do([e EXCEPT !.obj[o].map[c] = 0], <<"yaffs_chunk_del", e.obj[o].map[c]>>)
    IN  FoldLeft(step, d, SetToSortSeq(doomed, >))

yaffs_resize_file_down(d, o, size) ==
    LET c == size \div Unit + 1
        v(p) == [i \in 1 .. Unit |-> IF i <= size % Unit THEN yaffs_rd_data_obj(p, o, c)[i] ELSE 0]
        last(p) == IF size % Unit = 0 THEN p
                   ELSE Do(p, <<"yaffs_wr_data_obj", o, c, v(p), size % Unit, TRUE>>)
    IN  [last(yaffs_prune_chunks(d, o, size)) EXCEPT !.obj[o].size = size]

\* Writing or growing past the end: a small hole is filled with zeros, before a
\* large one a shrink header with the old size hides what was there earlier.
yaffs2_handle_hole(d, o, size) ==
    LET old == d.obj[o].size
        zeros == [i \in 1 .. size - old |-> 0]
        small == size - old < SmallHole * Unit /\ yaffs_check_alloc_available(d, SmallHole + 1)
        hide(e) == IF Gone(e.obj[o].dir) THEN e ELSE Do(e, <<"yaffs_update_oh", o, TRUE, 0>>)
        filled(e) == IF e.ret = size - old THEN e ELSE Do(e, <<"yaffs_resize_file_down", o, old>>)
        done(e) == IF e.obj[o].size = size THEN e ELSE hide(e)
    IN  IF size <= old THEN d
        ELSE done(IF small THEN filled(Do(d, <<"yaffs_do_file_wr", o, old, zeros>>)) ELSE d)

yaffs_wr_file(d, o, pos, bytes) ==
    Do(Do(d, <<"yaffs2_handle_hole", o, pos>>), <<"yaffs_do_file_wr", o, pos, bytes>>)

yaffs_resize_file(d0, o, size) ==
    LET header(e) == IF e.obj[o].shadowed \/ Gone(e.obj[o].dir) THEN [e EXCEPT !.ret = 1]
                     ELSE [Do(e, <<"yaffs_update_oh", o, FALSE, 0>>) EXCEPT !.ret = 1]
        resize(d) ==
            IF size = d.obj[o].size THEN [d EXCEPT !.ret = 1]
            ELSE header(IF size > d.obj[o].size
                        THEN [Do(d, <<"yaffs2_handle_hole", o, size>>) EXCEPT !.obj[o].size = size]
                        ELSE Do(d, <<"yaffs_resize_file_down", o, size>>))
    IN  resize(Do(yaffs_invalidate_whole_cache(Do(d0, <<"yaffs_flush_file_cache", o>>), o),
                  <<"yaffs_check_gc">>))

-----------------------------------------------------------------------------
(* Names *)

Lookup(d, name) == {o \in Ids : d.obj[o].dir = "root" /\ d.obj[o].name = name}

\* A deletion is a shrink: its header must outlive what it deletes.
yaffs_change_obj_name(d, o, dir, name, shadows) ==
    Do([d EXCEPT !.obj[o].dir = dir, !.obj[o].name = name, !.obj[o].dirty = TRUE],
       <<"yaffs_update_oh", o, dir = "deleted", shadows>>)

yaffs_generic_obj_del(d0, o) ==
    LET mark(d) == IF d.obj[o].dir = "deleted" THEN d
                   ELSE Do(d, <<"yaffs_change_obj_name", o, "deleted", 0, 0>>)
        free(e) == [Do(e, <<"yaffs_chunk_del", e.obj[o].hdr>>) EXCEPT !.obj[o] = NoFile, !.ret = 1]
    IN  free(mark(yaffs_invalidate_whole_cache(d0, o)))

\* With YAFFS2 the file is cut to nothing first, so that the branch with soft
\* deletion is not taken.
yaffs_del_file(d, o) == Do(Do(d, <<"yaffs_resize_file", o, 0>>), <<"yaffs_generic_obj_del", o>>)

\* An object whose inode is in use is moved to the unlinked directory.
yaffs_unlink_worker(d, o, held) ==
    IF held THEN Do(d, <<"yaffs_change_obj_name", o, "unlinked", 0, 0>>) ELSE Do(d, <<"yaffs_del_file", o>>)

MutantRenameObj(d, o, name, held) ==
    LET old == Lookup(d, name) \ {o}
        b == Do(d, <<"yaffs_unlink_worker", CHOOSE x \in old : TRUE, held>>)
    IN  Do(IF old = {} THEN d ELSE b, <<"yaffs_change_obj_name", o, "root", name, 0>>)

\* The header of the renamed object shadows the object it replaces, until that
\* one has a deletion header of its own.
yaffs_rename_obj(d, o, name, held) ==
    LET old == Lookup(d, name) \ {o}
        t == CHOOSE x \in old : TRUE
        shadow(e) == Do(e, <<"yaffs_change_obj_name", o, "root", name, t>>)
        unlink(e) == Do([e EXCEPT !.obj[t].shadowed = TRUE], <<"yaffs_unlink_worker", t, held>>)
    IN  Do(IF old = {} THEN d
            ELSE [unlink(shadow([d EXCEPT !.gcoff = TRUE])) EXCEPT !.gcoff = FALSE],
            <<"yaffs_change_obj_name", o, "root", name, 0>>)

yaffs_create_obj(d, o, name) ==
    LET done(w) == IF w.ret >= 0 THEN w ELSE [Do(w, <<"yaffs_del_file", o>>) EXCEPT !.ret = -1]
        new == [NoFile EXCEPT !.dir = "root", !.name = name, !.dirty = TRUE]
    IN  done(Do([d EXCEPT !.obj[o] = new], <<"yaffs_update_oh", o, FALSE, 0>>))

-----------------------------------------------------------------------------
(* Mounting *)

\* Memory before the scan.
yaffs_init_blocks(flash, faults) ==
    [flash |-> flash, faults |-> faults, cuts |-> <<>>, st |-> [b \in Blocks |-> "UNKNOWN"],
     seq |-> [b \in Blocks |-> 0], shrink |-> {}, retire |-> {}, prio |-> {}, unchecked |-> Blocks,
     inuse |-> {}, alloc |-> 0, page |-> 0, finder |-> 1, free |-> 0, erased |-> 0, gcb |-> 0,
     gcpos |-> 0, gcfinder |-> 0, dirtiest |-> 0, using |-> 0, skip |-> 0, bg |-> FALSE, gcoff |-> FALSE, oldest |-> 0, obj |-> [o \in Ids |-> NoFile],
     out |-> FALSE, ret |-> 1, done |-> 0,
     shrinkTo |-> [o \in Ids |-> Bytes], valid |-> {}, found |-> FALSE]

\* A block is bad, unused, or has the sequence number of its first page.
yaffs_query_init_block_state(flash, b) ==
    IF b \in flash.bad \/ flash.page[b * NPages].k = "bad" THEN "DEAD"
    ELSE IF flash.page[b * NPages].k \in {"ff", "blank"} THEN "EMPTY"
    ELSE "NEEDS_SCAN"

\* Another object's header says that o was replaced by it.
yaffs_handle_shadowed_obj(d, o) ==
    IF o = 0 THEN d
    ELSE IF d.obj[o].dir # "none" \/ o \in d.valid THEN d
    ELSE [d EXCEPT !.obj[o] = [NoFile EXCEPT !.dir = "unlinked", !.shadowed = TRUE],
                   !.shrinkTo[o] = 0, !.valid = @ \cup {o}]

\* A data chunk found by the scan, newest first: the first one found is the
\* file's, unless a newer header has cut the file before it.
ScanData(d0, c, p) ==
    LET o == p.obj
        endpos == (p.c - 1) * Unit + p.n
        put(d) == IF d.obj[o].map[p.c] > 0 THEN Do(d, <<"yaffs_chunk_del", c>>)
                  ELSE [d EXCEPT !.obj[o].map[p.c] = c]
        scan(d) ==
            IF (p.c - 1) * Unit >= d.shrinkTo[o] THEN Do(d, <<"yaffs_chunk_del", c>>)
            ELSE [put(d) EXCEPT !.obj[o].size = IF o \in d.valid THEN @ ELSE Max({@, endpos})]
    IN  scan([d0 EXCEPT !.found = TRUE, !.inuse = @ \cup {c},
                        !.obj[o].dir = IF @ = "none" THEN "hanging" ELSE @])

\* A header: the first one found is the object's.  An older one may still say
\* that the file was cut or deleted at that time.
ScanHeader(d0, c, p) ==
    LET o == p.obj
        b == BlockOf(c)
        cut == p.shrink \/ Gone(p.dir)
        size == IF Gone(p.dir) THEN 0 ELSE p.size
        older(d) == [d EXCEPT !.shrinkTo[o] = IF cut THEN Min({@, size}) ELSE @,
                              !.shrink = IF cut THEN @ \cup {b} ELSE @]
        first(d) == [d EXCEPT !.valid = @ \cup {o}, !.obj[o].dir = p.dir, !.obj[o].name = p.name,
                              !.obj[o].hdr = c, !.obj[o].size = Max({@, p.size}),
                              !.shrinkTo[o] = Min({@, p.size}),
                              !.shrink = IF p.shrink THEN @ \cup {b} ELSE @]
        scan(d) == IF o \in d.valid THEN Do(older(d), <<"yaffs_chunk_del", c>>)
                   ELSE yaffs_handle_shadowed_obj(first(d), p.shadows)
    IN  scan([d0 EXCEPT !.found = TRUE, !.inuse = @ \cup {c}])

yaffs2_scan_chunk(d, c) ==
    LET p == d.flash.page[c]
        b == BlockOf(c)
        free == [d EXCEPT !.free = @ + 1]
    IN  IF d.st[b] \notin {"NEEDS_SCAN", "ALLOCATING"} THEN d
        ELSE IF p.k \in {"ff", "blank"} /\ ~d.found
        THEN IF c = b * NPages THEN [free EXCEPT !.st[b] = "EMPTY", !.erased = @ + 1]
             ELSE IF d.seq[b] = Max({d.seq[x] : x \in Blocks})
             THEN [free EXCEPT !.st[b] = "ALLOCATING", !.alloc = b, !.page = c - b * NPages, !.finder = b]
             ELSE free
        ELSE IF p.k \notin {"data", "hdr"} THEN free
        ELSE IF p.k = "data" THEN ScanData(d, c, p)
        ELSE ScanHeader(d, c, p)

\* A summary that can be read is in use, and not scanned.
yaffs_summary_read(d, b) ==
    IF d.flash.page[SummaryOf(b)].k = "sum" THEN [d EXCEPT !.inuse = @ \cup {SummaryOf(b)}] ELSE d

\* All chunks of a block from the last to the first; then the block is full, and
\* erased if nothing in it counts.
ScanBlock(d0, b) ==
    LET full(d) == IF d.st[b] = "NEEDS_SCAN" THEN [d EXCEPT !.st[b] = "FULL"] ELSE d
        erase(e) == IF PagesInUse(e, b) = 0 /\ b \notin e.shrink /\ e.st[b] = "FULL"
                    THEN Do(e, <<"yaffs_block_became_dirty", b>>) ELSE e
        scan(d) == FoldLeft(yaffs2_scan_chunk, d, SetToSortSeq(PagesOf(b) \ d.inuse, >))
    IN  erase(full(scan(yaffs_summary_read([d0 EXCEPT !.found = FALSE], b))))

\* From the newest block to the oldest.  A block with a number out of range is
\* left alone.
yaffs2_scan_backwards(d0) ==
    LET st == [b \in Blocks |-> yaffs_query_init_block_state(d0.flash, b)]
        in(state) == {b \in Blocks : st[b] = state}
        index(d) == {b \in in("NEEDS_SCAN") : d.seq[b] > 0}
        scan(d) == FoldLeft(ScanBlock, d, SetToSortSeq(index(d), LAMBDA a, b : d.seq[a] > d.seq[b]))
    IN  yaffs_skip_rest_of_block(scan(
            [d0 EXCEPT !.st = st, !.erased = Cardinality(in("EMPTY")),
                       !.free = Cardinality(in("EMPTY")) * NPages,
                       !.seq = [b \in Blocks |-> IF st[b] = "NEEDS_SCAN" THEN Max({0, d0.flash.seq[b]}) ELSE 0]]))

\* What was unlinked or being deleted goes now.
yaffs_strip_deleted_objs(d) ==
    LET in(dir) == SetToSortSeq({o \in Ids : d.obj[o].dir = dir}, <)
    IN  FoldLeft(LAMBDA e, o : Do(e, <<"yaffs_del_file", o>>), d, in("unlinked") \o in("deleted"))

\* Objects of which only data was found are not rooted: they go to lost+found,
\* which is emptied.
yaffs_fix_hanging_objs(d) ==
    [d EXCEPT !.obj = [o \in Ids |->
        IF d.obj[o].dir = "hanging" THEN [d.obj[o] EXCEPT !.dir = "lost"] ELSE d.obj[o]]]

yaffs_empty_l_n_f(d) ==
    FoldLeft(LAMBDA e, o : Do(e, <<"yaffs_unlink_worker", o, FALSE>>), d,
             SetToSortSeq({o \in Ids : d.obj[o].dir = "lost"}, <))

Do(d, f) ==
    CASE f[1] = "yaffs_block_became_dirty" -> yaffs_block_became_dirty(d, f[2])
      [] f[1] = "yaffs_chunk_del" -> yaffs_chunk_del(d, f[2])
      [] f[1] = "yaffs_write_new_chunk" -> yaffs_write_new_chunk(d, f[2], f[3])
      [] f[1] = "yaffs_gc_process_chunk" -> yaffs_gc_process_chunk(d, f[2])
      [] f[1] = "yaffs_gc_block" -> yaffs_gc_block(d, f[2], f[3])
      [] f[1] = "GcTry" -> GcTry(d)
      [] f[1] = "yaffs_check_gc" -> yaffs_check_gc(d)
      [] f[1] = "yaffs_wr_data_obj" -> yaffs_wr_data_obj(d, f[2], f[3], f[4], f[5], f[6])
      [] f[1] = "yaffs_update_oh" -> yaffs_update_oh(d, f[2], f[3], f[4])
      [] f[1] = "yaffs_flush_file_cache" -> yaffs_flush_file_cache(d, f[2])
      [] f[1] = "yaffs_flush_file" -> yaffs_flush_file(d, f[2])
      [] f[1] = "yaffs_do_file_wr" -> yaffs_do_file_wr(d, f[2], f[3], f[4])
      [] f[1] = "yaffs_wr_file" -> yaffs_wr_file(d, f[2], f[3], f[4])
      [] f[1] = "yaffs_resize_file_down" -> yaffs_resize_file_down(d, f[2], f[3])
      [] f[1] = "yaffs2_handle_hole" -> yaffs2_handle_hole(d, f[2], f[3])
      [] f[1] = "yaffs_resize_file" -> yaffs_resize_file(d, f[2], f[3])
      [] f[1] = "yaffs_change_obj_name" -> yaffs_change_obj_name(d, f[2], f[3], f[4], f[5])
      [] f[1] = "yaffs_generic_obj_del" -> yaffs_generic_obj_del(d, f[2])
      [] f[1] = "yaffs_del_file" -> yaffs_del_file(d, f[2])
      [] f[1] = "yaffs_unlink_worker" -> yaffs_unlink_worker(d, f[2], f[3])
      [] f[1] = "yaffs_rename_obj" -> yaffs_rename_obj(d, f[2], f[3], f[4])
      [] f[1] = "yaffs_create_obj" -> yaffs_create_obj(d, f[2], f[3])
      [] f[1] = "yaffs2_scan_backwards" -> yaffs2_scan_backwards(d)
      [] f[1] = "yaffs_strip_deleted_objs" -> yaffs_strip_deleted_objs(d)

yaffs_guts_initialise(flash, faults) ==
    LET scanned == Do(yaffs_init_blocks(flash, faults), <<"yaffs2_scan_backwards">>)
        rooted == yaffs_fix_hanging_objs(Do(scanned, <<"yaffs_strip_deleted_objs">>))
    IN  [yaffs_empty_l_n_f(rooted) EXCEPT
            !.valid = {}, !.found = FALSE, !.shrinkTo = [o \in Ids |-> Bytes]]

-----------------------------------------------------------------------------
(* The calls of yaffs_vfs.c, and power failures *)

Mounted == dev.st[1] # "UNKNOWN"

\* Sequence numbers grow without end; only their order counts.
Renumber(d) ==
    LET nums == ({d.seq[b] : b \in Blocks} \cup {d.flash.seq[b] : b \in Blocks}) \ {0, -1}
        rank(n) == IF n <= 0 THEN n ELSE Cardinality({x \in nums : x <= n})
    IN  [d EXCEPT !.seq = [b \in Blocks |-> rank(d.seq[b])],
                  !.flash.seq = [b \in Blocks |-> rank(d.flash.seq[b])]]

AtRest(d) == Renumber([d EXCEPT !.cuts = <<>>, !.bg = FALSE, !.ret = 1, !.done = 0])

Off(flash) == Renumber(yaffs_init_blocks(flash, dev.faults))

\* Which object each name stands for; -1 where there is more than one.
Binding(d) ==
    [n \in Names |-> LET found == Lookup(d, n) IN
        IF found = {} THEN 0 ELSE IF Cardinality(found) = 1 THEN CHOOSE o \in found : TRUE ELSE -1]

Seen(d) == [o \in Ids |-> [p \in 0 .. Bytes - 1 |-> {ByteAt(d, o, p)}]]

Join(a, b) ==
    [bind |-> a.bind \cup b.bind,
     byte |-> [o \in Ids |-> [p \in 0 .. Bytes - 1 |-> a.byte[o][p] \cup b.byte[o][p]]],
     kept |-> [o \in Ids |-> Min({a.kept[o], b.kept[o]})]]

\* What may be found once the file system has been mounted is what was found.
Known == IF used.fresh THEN [may EXCEPT !.bind = {Binding(dev)}, !.byte = Seen(dev)] ELSE may

\* A call from the device d leaves `new' and promises `then', or power fails in
\* it and either may be found, or what the promise replaces.
Call(new, then) ==
    /\ Mounted /\ used.calls < MaxCalls
    /\ \/ /\ dev' = AtRest(new) /\ may' = then
          /\ used' = [used EXCEPT !.calls = @ + 1, !.fresh = FALSE]
       \/ /\ used.off < MaxOff
          /\ \E i \in DOMAIN new.cuts : dev' = Off(new.cuts[i])
          /\ may' = Join(Known, then)
          /\ used' = [calls |-> used.calls + 1, off |-> used.off + 1, fresh |-> FALSE]

Ready == [dev EXCEPT !.cuts = <<dev.flash>>]

InRoot(o) == dev.obj[o].dir = "root"

WithBinding(d, ok) == IF ok THEN [Known EXCEPT !.bind = {Binding(d)}]
                      ELSE [Known EXCEPT !.bind = @ \cup {Binding(d)}]
WithBytes(d, o, ok) == IF ok THEN [Known EXCEPT !.byte[o] = Seen(d)[o]]
                       ELSE Join(Known, [Known EXCEPT !.byte[o] = Seen(d)[o]])

Create(o, name) ==
    LET to(new) == Call(new, [WithBinding(new, TRUE) EXCEPT !.byte[o] = Seen(new)[o], !.kept[o] = Bytes])
    IN  /\ dev.obj[o].dir = "none" /\ Lookup(dev, name) = {}
        /\ to(Do(Ready, <<"yaffs_create_obj", o, name>>))

Write(o, pos, bytes) ==
    LET to(new) == Call(new, WithBytes(new, o, FALSE))
    IN  InRoot(o) /\ to(Do(Ready, <<"yaffs_wr_file", o, pos, bytes>>))

Flush(o) ==
    LET to(new) == Call(new, WithBytes(new, o, new.ret >= 0))
    IN  InRoot(o) /\ dev.obj[o].dirty /\ to(Do(Ready, <<"yaffs_flush_file", o>>))

Resize(o, size) ==
    LET to(new) == Call(new, [WithBytes(new, o, new.ret >= 0) EXCEPT !.kept[o] = Min({@, size})])
    IN  /\ InRoot(o) /\ size # dev.obj[o].size
        /\ to(Do(Ready, <<"yaffs_resize_file", o, size>>))

\* Deleting cuts the file first: power may fail when it is empty but still there.
\* A file without an inode has been closed, and yaffs_file_flush() wrote it out.
Unlink(o, held) ==
    LET to(new) == Call(new, [WithBinding(new, new.ret >= 0) EXCEPT !.byte[o] = Seen(new)[o]])
    IN  /\ InRoot(o) /\ (held \/ ~dev.obj[o].dirty)
        /\ to(Do(Ready, <<"yaffs_unlink_worker", o, held>>))

\* The last user of an unlinked file lets go of its inode.
yaffs_evict_inode(o) ==
    dev.obj[o].dir = "unlinked" /\ Call(Do(Ready, <<"yaffs_del_file", o>>), Known)

Rename(o, name, held) ==
    LET to(new) == Call(new, WithBinding(new, new.ret >= 0))
    IN  /\ InRoot(o) /\ name # dev.obj[o].name
        /\ \A x \in Lookup(dev, name) : held \/ ~dev.obj[x].dirty
        /\ to(Do(Ready, <<"yaffs_rename_obj", o, name, held>>))

yaffs_bg_gc == Call(Do([Ready EXCEPT !.bg = TRUE], <<"yaffs_check_gc">>), Known)

\* Between two calls.
PowerFail ==
    /\ Mounted /\ used.off < MaxOff
    /\ dev' = Off(dev.flash) /\ may' = Known
    /\ used' = [used EXCEPT !.off = @ + 1, !.fresh = FALSE]

Mount ==
    LET to(new) ==
            \/ dev' = AtRest(new) /\ used' = [used EXCEPT !.fresh = TRUE]
            \/ /\ used.off < MaxOff
               /\ \E i \in DOMAIN new.cuts : dev' = Off(new.cuts[i])
               /\ used' = [used EXCEPT !.off = @ + 1]
    IN  ~Mounted /\ UNCHANGED may /\ to(yaffs_guts_initialise(dev.flash, dev.faults))

\* An erased chip is mounted, and the files of Setup are written to it.
Init ==
    LET chip == [page |-> [c \in Chunks |-> Erased], seq |-> [b \in Blocks |-> 0], bad |-> {}]
        write(d, o, bytes) == FoldLeft(LAMBDA e, b : Do(e, <<"yaffs_wr_file", o, 0, b>>), d, bytes)
        create(d, f) == Do(write(Do(d, <<"yaffs_create_obj", f[1], f[2]>>), f[1], f[3]),
                           <<"yaffs_flush_file", f[1]>>)
    IN  /\ \E f \in Faults :
              dev = AtRest(FoldLeft(create, yaffs_guts_initialise(chip, f), Setup))
        /\ may = [bind |-> {Binding(dev)}, byte |-> Seen(dev), kept |-> [o \in Ids |-> Bytes]]
        /\ used = [calls |-> 0, off |-> 0, fresh |-> FALSE]

Next ==
    \/ \E o \in Ids :
          \/ \E n \in Names : Create(o, n)
          \/ \E w \in Writes : Write(o, w[1], w[2])
          \/ Flush(o)
          \/ \E s \in Sizes : Resize(o, s)
          \/ \E held \in BOOLEAN : Unlink(o, held)
          \/ yaffs_evict_inode(o)
          \/ \E n \in Names, held \in BOOLEAN : Rename(o, n, held)
    \/ yaffs_bg_gc
    \/ PowerFail
    \/ Mount

Spec == Init /\ [][Next]_vars

-----------------------------------------------------------------------------
(* Properties *)

\* The types of the state in memory: no block is left half collected or half
\* scanned (but one whose number was out of range), no object half deleted.
YaffsTypeOK ==
    /\ dev.inuse \subseteq Chunks
    /\ dev.alloc \in 0 .. NBlocks /\ dev.gcb \in 0 .. NBlocks
    /\ \A b \in Blocks :
          \/ dev.st[b] \in {"UNKNOWN", "EMPTY", "ALLOCATING", "FULL", "DEAD"}
          \/ dev.st[b] = "NEEDS_SCAN" /\ dev.flash.seq[b] = -1
    /\ \A o \in Ids : dev.obj[o].dir \in {"none", "root", "unlinked"}

\* The counters n_free_chunks and n_erased_blocks, which every allocation and
\* deletion adjusts, are what counting the blocks gives
\* (yaffs_verify_free_chunks()).
FreeCountExact ==
    Mounted => /\ dev.free = yaffs_count_free_chunks(dev)
               /\ dev.erased = Cardinality({b \in Blocks : dev.st[b] = "EMPTY"})

\* Apart from the summaries of blocks, the chunks in use are exactly those some
\* object points to: none is lost, none belongs to two.
EveryChunkOwned ==
    LET owned(o) == ({dev.obj[o].hdr} \cup {dev.obj[o].map[c] : c \in 1 .. NChunks}) \ {0}
    IN  Mounted => /\ dev.inuse \ {SummaryOf(b) : b \in Blocks} = UNION {owned(o) : o \in Ids}
                   /\ \A o, x \in Ids : o # x => owned(o) \cap owned(x) = {}

\* The reserved blocks are enough: on a chip without faults nothing that may use
\* them ever finds no erased block, not even the mount after a power failure,
\* unless that failure has left a block with a number out of range, which the
\* scan leaves out for good.
ReserveEnough ==
    /\ dev.faults.program \cup dev.faults.erase = {}
    /\ \A b \in Blocks : dev.st[b] # "NEEDS_SCAN"
    => ~dev.out

\* At whatever state of the flash power fails once, in a call or between two, the
\* mount finds every name where it was before or after that call, and each byte
\* as it was last made durable, or written since.  A deleted file does not come
\* back, neither do its bytes in a new file of its number.  (A second failure, in
\* that mount: see NameOnce.  Bytes behind a truncation: see TruncationLasts.)
Survives ==
    Mounted => /\ Binding(dev) \in may.bind
               /\ \A n \in Names : \A o \in Lookup(dev, n) : \A p \in 0 .. may.kept[o] - 1 :
                     ByteAt(dev, o, p) \in may.byte[o][p]

\* A name stands for one file, even when power fails again in the mount that
\* should complete a rename.
NameOnce == Mounted => \A n \in Names : Cardinality(Lookup(dev, n)) <= 1

\* The same for bytes a truncation has discarded: they do not come back when the
\* file grows again.
TruncationLasts ==
    Mounted => \A n \in Names : \A o \in Lookup(dev, n) : \A p \in 0 .. Bytes - 1 :
                  ByteAt(dev, o, p) \in may.byte[o][p]
=============================================================================
