--------------------------------- MODULE Ecc ---------------------------------
(***************************************************************************)
(* The tags that YAFFS writes into the spare area of a chunk, their packed *)
(* form and the error correcting code kept with them (yaffs_packedtags2.c, *)
(* yaffs_ecc.c), on a chip whose cells flip.                               *)
(*                                                                         *)
(* A number, or a piece of memory, is the set of the positions of its      *)
(* bits that are 1: bit b of byte i has the position 8 * i + b.            *)
(***************************************************************************)
EXTENDS Integers, FiniteSets, Sequences

CONSTANTS
    Tags,       \* the struct yaffs_ext_tags that are written
    Types,      \* the values of extra_obj_type: [name -> bits]
    MaxFlips    \* bound: cells that flip

VARIABLES
    tags,    \* the tags that are written; Nothing: the chunk stays erased
    pt,      \* struct yaffs_packed_tags2 on the flash: [t, col, line, prime]
    flips,   \* the cells that have flipped
    got      \* what was read

vars == <<tags, pt, flips, got>>

Word == 0 .. 31
Nothing == [none |-> "erased"]
Unread == [none |-> "unread"]

Odd(S) == Cardinality(S) % 2 = 1
Flip(S, b) == IF b \in S THEN S \ {b} ELSE S \cup {b}
Xor(S, T) == (S \ T) \cup (T \ S)
\* The numbers are those of bits and of bytes of the tags, below 16.
HasBit(n, b) == \/ b = 0 /\ n % 2 = 1
                \/ b = 1 /\ (n \div 2) % 2 = 1
                \/ b = 2 /\ (n \div 4) % 2 = 1
                \/ b = 3 /\ (n \div 8) % 2 = 1

\* The columns of a bit number: 2a if its bit a is 0, 2a + 1 if it is 1.
InColumn(c, b) == HasBit(b, c \div 2) <=> c % 2 = 1

-----------------------------------------------------------------------------
(* Packing *)

\* The words of struct yaffs_packed_tags2_tags_only.
SEQ_NUMBER == 0
OBJ_ID == 1
CHUNK_ID == 2
N_BYTES == 3
TagBytes == 16
AllOnes == 0 .. 8 * TagBytes - 1

In(w, bits) == {32 * w + b : b \in bits}
WordOf(t, w) == {b \in Word : 32 * w + b \in t}

HEADER_INFO == 31
SHRINK == 30
SHADOWS == 29
TypeField == 28 .. 31

\* A file of 2^31 bytes or more does not fit.
yaffs_check_tags_extra_packable(t) ==
    /\ t.chunk_id = {} /\ t.extra.available
    /\ t.extra.obj_type = "FILE" => t.extra.info \subseteq 0 .. 30

\* With the extra information of a header, chunk_id holds the parent.
yaffs_pack_tags2_tags_only(t) ==
    In(SEQ_NUMBER, t.seq_number) \cup
    IF yaffs_check_tags_extra_packable(t)
    THEN In(OBJ_ID, (t.obj_id \ TypeField) \cup {28 + b : b \in Types[t.extra.obj_type]})
         \cup In(CHUNK_ID, {HEADER_INFO} \cup t.extra.parent_id
                   \cup (IF t.extra.is_shrink THEN {SHRINK} ELSE {})
                   \cup (IF t.extra.shadows THEN {SHADOWS} ELSE {}))
         \cup In(N_BYTES, IF t.extra.obj_type \in {"FILE", "HARDLINK"} THEN t.extra.info ELSE {})
    ELSE In(OBJ_ID, t.obj_id) \cup In(CHUNK_ID, t.chunk_id) \cup In(N_BYTES, t.n_bytes)

NoExtra == [available |-> FALSE, parent_id |-> {}, is_shrink |-> FALSE,
            shadows |-> FALSE, obj_type |-> "UNKNOWN", info |-> {}]

\* The object type that four bits stand for, one YAFFS knows or none.
TypeOf(bits) ==
    IF \E n \in DOMAIN Types : Types[n] = bits
    THEN CHOOSE n \in DOMAIN Types : Types[n] = bits ELSE "UNKNOWN"

yaffs_unpack_tags2_tags_only(t) ==
    LET id == WordOf(t, CHUNK_ID)
        obj == WordOf(t, OBJ_ID)
        plain == [seq_number |-> WordOf(t, SEQ_NUMBER), obj_id |-> obj, chunk_id |-> id,
                  n_bytes |-> WordOf(t, N_BYTES), extra |-> NoExtra]
    IN  IF WordOf(t, SEQ_NUMBER) = Word THEN Nothing
        ELSE IF HEADER_INFO \notin id THEN plain
        ELSE [plain EXCEPT
                !.chunk_id = {}, !.n_bytes = {}, !.obj_id = obj \ TypeField,
                !.extra = [available |-> TRUE, parent_id |-> id \ TypeField,
                           is_shrink |-> SHRINK \in id, shadows |-> SHADOWS \in id,
                           obj_type |-> TypeOf({b - 28 : b \in obj \cap TypeField}),
                           info |-> WordOf(t, N_BYTES)]]

-----------------------------------------------------------------------------
(* The code of the tags *)

\* For each byte with an odd number of ones the number of the byte goes into
\* line_parity, its complement into line_parity_prime.
yaffs_ecc_calc_other(t) ==
    LET odd == {i \in 0 .. TagBytes - 1 : Odd({p \in t : p \div 8 = i})}
    IN  [col |-> {c \in 0 .. 5 : Odd({p \in t : InColumn(c, p % 8)})},
         line |-> {b \in Word : Odd({i \in odd : HasBit(i, b)})},
         prime |-> {b \in Word : Odd({i \in odd : ~HasBit(i, b)})}]

Number(bits) == (IF 0 \in bits THEN 1 ELSE 0) + (IF 1 \in bits THEN 2 ELSE 0)
                + (IF 2 \in bits THEN 4 ELSE 0) + (IF 3 \in bits THEN 8 ELSE 0)

\* A mutant of Beyond: any byte number is taken for one of the tags.
MutantBeyond(line) == FALSE

\* delta_line >= n_bytes
Beyond(line) == ~(line \subseteq 0 .. 3)

\* What it returns, and the tags as it leaves them.
yaffs_ecc_correct_other(t, read, test) ==
    LET col == Xor(read.col, test.col)
        line == Xor(read.line, test.line)
        prime == Xor(read.prime, test.prime)
        one == line = Word \ prime /\ \A a \in 0 .. 2 : (2 * a \in col) # (2 * a + 1 \in col)
        bit == {a \in 0 .. 2 : 2 * a + 1 \in col}
    IN  CASE col \cup line \cup prime = {} -> [ret |-> 0, t |-> t]
          [] one /\ Beyond(line) -> [ret |-> -1, t |-> t]
          [] one /\ ~Beyond(line) -> [ret |-> 1, t |-> Flip(t, 8 * Number(line) + Number(bit))]
          [] OTHER ->
               IF Cardinality(col) + Cardinality(line) + Cardinality(prime) = 1
               THEN [ret |-> 1, t |-> t] ELSE [ret |-> -1, t |-> t]

EccResult(ret) == CASE ret = 0 -> "NO_ERROR" [] ret = 1 -> "FIXED" [] ret = -1 -> "UNFIXED"

\* A chunk whose sequence number is all ones is erased: nothing is checked.
yaffs_unpack_tags2(p) ==
    IF WordOf(p.t, SEQ_NUMBER) = Word
    THEN [tags |-> yaffs_unpack_tags2_tags_only(p.t), result |-> "NO_ERROR"]
    ELSE LET c == yaffs_ecc_correct_other(p.t, p, yaffs_ecc_calc_other(p.t))
         IN  [tags |-> yaffs_unpack_tags2_tags_only(c.t), result |-> EccResult(c.ret)]

Packed(t) ==
    LET raw == yaffs_pack_tags2_tags_only(t)
        ecc == yaffs_ecc_calc_other(raw)
    IN  [t |-> raw, col |-> ecc.col, line |-> ecc.line, prime |-> ecc.prime]

ErasedTags == [t |-> AllOnes, col |-> 0 .. 7, line |-> Word, prime |-> Word]

-----------------------------------------------------------------------------
Init == tags = Nothing /\ pt = ErasedTags /\ flips = {} /\ got = Unread

\* nandmtd2_write_chunk_tags(), on an erased chunk.
WriteTags ==
    /\ tags = Nothing /\ flips = {} /\ got = Unread
    /\ tags' \in Tags /\ pt' = Packed(tags')
    /\ UNCHANGED <<flips, got>>

\* The cells of the tags and of their code.
Cells == ({"t"} \X AllOnes) \cup ({"col"} \X (0 .. 7)) \cup ({"line", "prime"} \X Word)

\* A cell flips.
FlipBit ==
    /\ Cardinality(flips) < MaxFlips /\ got = Unread
    /\ \E c \in Cells \ flips :
         /\ pt' = [pt EXCEPT ![c[1]] = Flip(@, c[2])]
         /\ flips' = flips \cup {c}
    /\ UNCHANGED <<tags, got>>

\* nandmtd2_read_chunk_tags()
ReadTags ==
    /\ got = Unread
    /\ got' = yaffs_unpack_tags2(pt)
    /\ UNCHANGED <<tags, pt, flips>>

Next == WriteTags \/ FlipBit \/ ReadTags

Spec == Init /\ [][Next]_vars

-----------------------------------------------------------------------------
(* Properties *)

\* The tags that packing keeps: the extra information of a large file is lost.
Kept(t) == IF yaffs_check_tags_extra_packable(t) THEN t ELSE [t EXCEPT !.extra = NoExtra]

\* The tags of a chunk are read as they were written, after one flipped bit
\* anywhere in tags or code too, and after two at least the error is known; an
\* erased chunk is not taken for one with sound tags.
TagsSurvive ==
    got # Unread =>
      \/ got.result = "UNFIXED" /\ Cardinality(flips) > 1
      \/ tags = Nothing /\ (got.tags = Nothing \/ got.result = "UNFIXED")
      \/ tags # Nothing /\ got.tags = Kept(tags)
         /\ got.result = IF flips = {} THEN "NO_ERROR" ELSE "FIXED"
=============================================================================
