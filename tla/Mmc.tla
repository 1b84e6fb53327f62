-------------------------------- MODULE Mmc --------------------------------
(***************************************************************************)
(* SD cards as disks (mmc.c, mmc_ops.c, drive.c, block.c): a card is       *)
(* detected when its host controller is registered, the partitions of its  *)
(* master boot record become block devices, and file systems read sectors  *)
(* of them with submit_bio().  One action is one command to the card.  The *)
(* card is external: it follows the states of the SD specification.        *)
(***************************************************************************)
EXTENDS Integers, Sequences

CONSTANTS
    SECT,       \* bytes of a sector (MMC_BLK_SIZE, 512)
    WORD,       \* size_t and int wrap here (2^32)
    Capacity,   \* sectors of a high capacity card
    MMC_CMD_RETRIES,
    Starts,     \* first sectors of partitions
    Sects,      \* sectors of a device that are read
    MaxLost     \* bound: commands or answers lost

VARIABLES
    sd,         \* external: the card
    resp,       \* host->resp, by what it holds
    mmc_card,   \* host->card: the address and the CSD taken from answers
    step,       \* the command mmc_sd_detect_card() sends next, or how it ended
    tries,      \* i of mmc_send_app_op_cond()
    hcs,        \* its argument says that the host knows high capacity cards
    bdevs,      \* the bases of the partitions registered, in bytes
    bio,        \* the last sector read: which one was asked for, which one the card gave,
                \* whether all of it came into the buffer, and the flags
    lost,       \* history: commands or answers lost
    scanned     \* history: the whole boot record could be read

vars == <<sd, resp, mmc_card, step, tries, hcs, bdevs, bio, lost, scanned>>

Empty == -1     \* an entry of the boot record of size 0
None == -1      \* no sector

\* Kinds of cards: SD 1.x does not know CMD8, an MMC neither CMD8 nor CMD55.
Kinds == {"none", "mmc", "v1", "v2", "hc"}

\* Two of the four entries of a boot record: where the partitions begin.
Tables == [1 .. 2 -> Starts \cup {Empty}]

\* A card with its boot record and how often it is still busy when asked.  If
\* the board was started again without power-down it is still selected.
Cards == {c \in [kind : Kinds, state : {"idle", "tran"}, app : {FALSE}, named : BOOLEAN,
                 busy : 0 .. MMC_CMD_RETRIES, slow : BOOLEAN, table : Tables] :
            /\ c.slow = (c.busy >= MMC_CMD_RETRIES)
            /\ c.kind \in {"none", "mmc"} \/ ~c.named => \A i \in 1 .. 2 : c.table[i] = Empty}

Init ==
    /\ sd \in Cards
    /\ resp = "zero" /\ mmc_card = [rca |-> "zero", csd |-> "zero"]
    /\ step = "go_idle" /\ tries = 0 /\ hcs = FALSE
    /\ bdevs = <<>> /\ bio = [want |-> None, got |-> None, whole |-> FALSE, flags |-> 0]
    /\ lost = 0 /\ scanned = FALSE

-----------------------------------------------------------------------------
(* The card: what it answers to a command, or nothing *)

Answer(to, answer) == {[sd |-> to, resp |-> answer]}
Silent == {}

\* CMD55 and the commands with an address are for the card whose address it is.
Reacts(cmd) ==
    LET c == [sd EXCEPT !.app = FALSE]
        mine == mmc_card.rca = "rca"
    IN  CASE sd.kind = "none" -> Silent
          [] cmd = "if_cond" /\ sd.kind \in {"v2", "hc"} /\ sd.state = "idle" -> Answer(c, "ifcond")
          [] /\ cmd = "app_cmd" /\ sd.kind # "mmc"
             /\ sd.state = "idle" \/ (mine /\ sd.state = "tran")
               -> Answer([c EXCEPT !.app = TRUE], "status")
          [] cmd = "op_cond" /\ sd.app /\ sd.state = "idle" ->
               IF sd.busy > 0 \/ (sd.kind = "hc" /\ ~hcs)
               THEN Answer([c EXCEPT !.busy = IF @ > 0 THEN @ - 1 ELSE 0], "ocr")
               ELSE Answer([c EXCEPT !.state = "ready"], "ocr_ready")
          [] cmd = "cid" /\ sd.state = "ready" -> Answer([c EXCEPT !.state = "ident"], "cid")
          [] cmd = "rca" /\ sd.state = "ident" -> Answer([c EXCEPT !.state = "stby"], "rca")
          [] cmd = "csd" /\ sd.state = "stby" /\ mine ->
               Answer(c, IF sd.kind = "hc" THEN "csd2" ELSE "csd1")
          [] cmd = "select" /\ sd.state = "stby" /\ mine -> Answer([c EXCEPT !.state = "tran"], "status")
          [] cmd = "width" /\ sd.state = "tran" /\ sd.app -> Answer(c, "status")
          [] cmd = "read" /\ sd.state = "tran" -> Answer(c, "status")
          [] OTHER -> Silent

\* send_cmd() of a host: 0 and the answer, or a time-out that leaves the old
\* answer in resp[]; the card may have obeyed all the same.
send_cmd(cmd) ==
    {[ret |-> 0, sd |-> a.sd, resp |-> a.resp, lost |-> lost] : a \in Reacts(cmd)}
    \cup (IF Reacts(cmd) = Silent
          THEN {[ret |-> -1, sd |-> [sd EXCEPT !.app = FALSE], resp |-> resp, lost |-> lost]}
          ELSE IF lost < MaxLost
          THEN {[ret |-> -1, sd |-> s, resp |-> resp, lost |-> lost + 1] :
                  s \in {sd} \cup {a.sd : a \in Reacts(cmd)}}
          ELSE {})

Sent(r) == sd' = r.sd /\ resp' = r.resp /\ lost' = r.lost

-----------------------------------------------------------------------------
(* mmc_sd_detect_card() *)

Goto(s) == step' = s

\* CMD0 has no answer: whether the card has heard it or not, it does not fail.
mmc_go_idle ==
    /\ step = "go_idle" /\ Goto("if_cond")
    /\ \/ sd' = [sd EXCEPT !.state = "idle"] /\ UNCHANGED lost
       \/ lost < MaxLost /\ lost' = lost + 1 /\ UNCHANGED sd
    /\ UNCHANGED <<resp, mmc_card, tries, hcs, bdevs, bio, scanned>>

\* A card that does not answer is of the first version.
mmc_send_if_cond ==
    /\ step = "if_cond" /\ Goto("app_cmd")
    /\ \E r \in send_cmd("if_cond") : Sent(r) /\ hcs' = (r.ret = 0)
    /\ UNCHANGED <<mmc_card, tries, bdevs, bio, scanned>>

\* What mmc_app_cmd() returns is not looked at here.
mmc_app_cmd ==
    /\ step = "app_cmd" /\ Goto("op_cond")
    /\ \E r \in send_cmd("app_cmd") : Sent(r)
    /\ UNCHANGED <<mmc_card, tries, hcs, bdevs, bio, scanned>>

\* resp[0] is looked at whether there was an answer or not.
mmc_send_app_op_cond ==
    /\ step = "op_cond"
    /\ \E r \in send_cmd("op_cond") :
         /\ Sent(r)
         /\ IF r.resp = "ocr_ready"
            THEN Goto(IF r.ret = 0 THEN "cid" ELSE "failed") /\ UNCHANGED tries
            ELSE /\ tries' = tries + 1
                 /\ Goto(IF tries + 1 < MMC_CMD_RETRIES THEN "app_cmd" ELSE "failed")
    /\ UNCHANGED <<mmc_card, hcs, bdevs, bio, scanned>>

\* mmc_decode_cid() wants a name.
mmc_all_send_cid ==
    /\ step = "cid"
    /\ \E r \in send_cmd("cid") :
         Sent(r) /\ Goto(IF r.ret = 0 /\ sd.named THEN "rca" ELSE "failed")
    /\ UNCHANGED <<mmc_card, tries, hcs, bdevs, bio, scanned>>

\* The address and the CSD are taken from resp[] even after a time-out.
mmc_set_relative_addr ==
    /\ step = "rca"
    /\ \E r \in send_cmd("rca") :
         /\ Sent(r) /\ mmc_card' = [mmc_card EXCEPT !.rca = r.resp]
         /\ Goto(IF r.ret = 0 THEN "csd" ELSE "failed")
    /\ UNCHANGED <<tries, hcs, bdevs, bio, scanned>>

\* Mutant of mmc_send_csd(): a time-out is not reported.
mutant_mmc_send_csd ==
    /\ step = "csd"
    /\ \E r \in send_cmd("csd") : Sent(r) /\ mmc_card' = [mmc_card EXCEPT !.csd = r.resp]
    /\ Goto("select")
    /\ UNCHANGED <<tries, hcs, bdevs, bio, scanned>>

mmc_send_csd ==
    /\ step = "csd"
    /\ \E r \in send_cmd("csd") :
         /\ Sent(r) /\ mmc_card' = [mmc_card EXCEPT !.csd = r.resp]
         /\ Goto(IF r.ret = 0 THEN "select" ELSE "failed")
    /\ UNCHANGED <<tries, hcs, bdevs, bio, scanned>>

mmc_select_card ==
    /\ step = "select"
    /\ \E r \in send_cmd("select") : Sent(r) /\ Goto(IF r.ret = 0 THEN "width_app" ELSE "failed")
    /\ UNCHANGED <<mmc_card, tries, hcs, bdevs, bio, scanned>>

\* CMD55, and then ACMD6.
mmc_switch_width ==
    /\ \/ /\ step = "width_app"
          /\ \E r \in send_cmd("app_cmd") : Sent(r) /\ Goto(IF r.ret = 0 THEN "width" ELSE "failed")
       \/ /\ step = "width"
          /\ \E r \in send_cmd("width") : Sent(r) /\ Goto(IF r.ret = 0 THEN "register" ELSE "failed")
    /\ UNCHANGED <<mmc_card, tries, hcs, bdevs, bio, scanned>>

-----------------------------------------------------------------------------
(* Sectors *)

\* A size_t passed as an int.
AsInt(n) == LET w == n % WORD IN IF w < WORD \div 2 THEN w ELSE w - WORD

\* The argument of the read command: bytes, or sectors if the CSD is one of
\* version 2; the shift is that of a signed number.
mmc_read_blk(start) ==
    (IF mmc_card.csd = "csd2" THEN start \div SECT ELSE start) % WORD

\* host->read_data() after it: that of the S3C24x0 stops when it finds the FIFO
\* empty, before the end of the sector or behind it, and reports no error.  (Where
\* the one of another host fails, the read fails as after a lost command.)
read_data == BOOLEAN

\* The sector a card reads: it takes sectors or bytes as its kind is.
CardSector(arg) ==
    LET s == IF sd.kind = "hc" THEN arg ELSE arg \div SECT
    IN  IF s < Capacity THEN s ELSE None

\* get_block() of the card (device 0) or of a partition.
get_block(dev, start) ==
    mmc_read_blk(IF dev = 0 THEN AsInt(start) ELSE AsInt(bdevs[dev] + AsInt(start)))

\* The entries up to the first empty one, as byte offsets of 32 bits.
msdos_part_scan(table) ==
    LET used == {i \in DOMAIN table : \A j \in 1 .. i : table[j] # Empty}
    IN  [i \in used |-> (table[i] * SECT) % WORD]

\* disk_drive_register() does not look at what get_block() returns: after a
\* failure, or a sector cut short, the table is what was on the stack.  zalloc() may fail at any
\* partition.
disk_drive_register ==
    /\ step = "register" /\ Goto("registered")
    /\ \E r \in send_cmd("read"), whole \in read_data :
         /\ Sent(r)
         /\ scanned' = (r.ret = 0 /\ whole)
         /\ \E table \in IF r.ret = 0 /\ whole THEN {sd.table} ELSE Tables :
              \E n \in 0 .. Len(msdos_part_scan(table)) :
                bdevs' = SubSeq(msdos_part_scan(table), 1, n)
    /\ UNCHANGED <<mmc_card, tries, hcs, bio>>

\* submit_bio() for one sector; a sector the card does not have is an error
\* bit in the answer, which only some of the hosts notice.
submit_bio(dev, sect) ==
    /\ step = "registered"
    /\ LET got == CardSector(get_block(dev, sect * SECT))
       IN  \E r \in send_cmd("read"), whole \in read_data, f \in {0, 1} :
             /\ Sent(r)
             /\ f = 1 => r.ret # 0 \/ got = None
             /\ f = 0 => r.ret = 0
             /\ bio' = [want |-> sect + (IF dev = 0 THEN 0 ELSE sd.table[dev]),
                        got |-> IF r.ret = 0 THEN got ELSE None, whole |-> whole, flags |-> f]
    /\ UNCHANGED <<mmc_card, step, tries, hcs, bdevs, scanned>>

Next ==
    \/ mmc_go_idle \/ mmc_send_if_cond \/ mmc_app_cmd \/ mmc_send_app_op_cond
    \/ mmc_all_send_cid \/ mmc_set_relative_addr \/ mmc_send_csd \/ mmc_select_card
    \/ mmc_switch_width \/ disk_drive_register
    \/ \E dev \in 0 .. Len(bdevs), sect \in Sects : submit_bio(dev, sect)

Spec == Init /\ [][Next]_vars

-----------------------------------------------------------------------------
(* Properties *)

\* Sectors that the card has, below 2 GiB on a card addressed by sectors, below
\* 4 GiB on others.
InReach(sect) ==
    sect < Capacity /\ sect * SECT < IF sd.kind = "hc" THEN WORD \div 2 ELSE WORD

\* A card is given up only if it is none, has no name, was busy too long or
\* a command was lost; and once it is registered each sector that was read
\* without an error, from the card or from a partition, is the one asked for,
\* if the boot record and that sector came as a whole and the sector is within
\* reach of an int.
CardUsable ==
    /\ step = "failed" =>
         \/ sd.kind \in {"none", "mmc"} \/ ~sd.named \/ sd.slow \/ lost > 0
    /\ bio.want # None /\ bio.flags = 0 /\ bio.whole /\ scanned /\ InReach(bio.want)
         => bio.got = bio.want
=============================================================================
