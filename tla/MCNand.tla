-------------------------------- MODULE MCNand --------------------------------
(***************************************************************************)
(* The flash memory for TLC.  A behaviour is either one of a chip of two   *)
(* blocks of two pages (Nand), or the writing and reading of the tags of   *)
(* one chunk (Ecc), while the other half stands still.                     *)
(***************************************************************************)
EXTENDS Nand

CONSTANTS Tags, Types, MaxFlips

VARIABLES half, tags, pt, flips, got

E == INSTANCE Ecc

\* What yaffs_packed_tags2 has room for, and what an object header's tags hold.
\* Sequence numbers count the blocks allocated since the chip was formatted
\* and stay far below those with nearly all bits set, which are taken for
\* an erased chunk.
ASSUME TagsAssumption ==
    /\ MaxFlips \in 0 .. 2
    /\ \A n \in DOMAIN Types : Types[n] \subseteq 0 .. 3
    /\ \A m, n \in DOMAIN Types : Types[m] = Types[n] => m = n
    /\ \A t \in Tags :
         /\ t \in [seq_number : SUBSET (0 .. 28), obj_id : SUBSET (0 .. 27),
                   chunk_id : SUBSET (0 .. 30), n_bytes : SUBSET (0 .. 31),
                   extra : [available : BOOLEAN, parent_id : SUBSET (0 .. 27),
                            is_shrink : BOOLEAN, shadows : BOOLEAN,
                            obj_type : DOMAIN Types \cup {"UNKNOWN"},
                            info : SUBSET (0 .. 31)]]
         /\ E!yaffs_check_tags_extra_packable(t) =>
              /\ t.n_bytes = {} /\ t.extra.obj_type \in DOMAIN Types
              /\ t.extra.obj_type \in {"FILE", "HARDLINK"} \/ t.extra.info = {}

evars == <<tags, pt, flips, got>>

-----------------------------------------------------------------------------
Def(size, at) == [size |-> size, at |-> at]

\* "-", "1,-", "2@2" and a table with a definition that does not fit, sizes in
\* pages: 1 is rounded up to a block.
MCPartTables == {<<Def(Rest, Following)>>, <<Def(1, Following), Def(Rest, Following)>>,
                 <<Def(2, 2)>>, <<Def(4, Following), Def(Rest, Following)>>}

MCFactoryBad == {{}, {0}, {NBlocks - 1}}

MCTypes == [FILE |-> {0}, SYMLINK |-> {1}, DIRECTORY |-> {0, 1}, HARDLINK |-> {2}]

\* The tags of a chunk of data, and of the headers of a file, of a file too
\* large for its size to be in the tags, of a hard link and of a directory.
Chunk == [seq_number |-> {0, 12}, obj_id |-> {1, 8}, chunk_id |-> {0, 9}, n_bytes |-> {11},
          extra |-> [available |-> FALSE, parent_id |-> {}, is_shrink |-> FALSE,
                     shadows |-> FALSE, obj_type |-> "UNKNOWN", info |-> {}]]
HeaderOf(type, info, shrink, shadows) ==
    [Chunk EXCEPT !.chunk_id = {}, !.n_bytes = {},
                  !.extra = [available |-> TRUE, parent_id |-> {0, 8}, is_shrink |-> shrink,
                             shadows |-> shadows, obj_type |-> type, info |-> info]]
MCTags == {Chunk, HeaderOf("FILE", {3, 30}, TRUE, FALSE), HeaderOf("FILE", {31}, FALSE, FALSE),
           HeaderOf("HARDLINK", {2, 8}, FALSE, FALSE), HeaderOf("DIRECTORY", {}, FALSE, TRUE)}

-----------------------------------------------------------------------------
FlashInit ==
    /\ half \in {"chip", "tags"}
    /\ Init /\ E!Init
    /\ half = "tags" => table = <<Def(Rest, Following)>> /\ marked = {}

FlashNext ==
    \/ half = "chip" /\ Next /\ UNCHANGED <<half, evars>>
    \/ half = "tags" /\ E!Next /\ UNCHANGED <<half, vars>>

FlashSpec == FlashInit /\ [][FlashNext]_<<half, vars, evars>>

\* The tags of a chunk are read as they were written in spite of one flipped
\* cell, and two are noticed.
TagsSurvive == E!TagsSurvive
=============================================================================
