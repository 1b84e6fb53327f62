# A TLA+ development of witos

witos (g-bios) is a boot loader for ARM boards: it sets up memory and
interrupts, offers a shell on the serial line, and loads kernels and images from
flash, disks, MMC cards, the network and the serial line.  It has one thread of
control, the *main line*, and interrupt handlers (`CONFIG_IRQ_SUPPORT`, set by
every defconfig) that may run between any two of its steps outside
`lock_irq_psr()`.  There are no tests; what the code is meant to do is in the
code, its assertions and the help texts of `command/`.

This directory holds TLA+ models of parts of it, TLC configurations that check
them on small instances, and TLAPS proofs for every instance.
`PROJECT.json` lists components, runs, mutants, the correspondence of definitions
to source lines (`map`), findings, hazards and theorems.

## 1. Inventory

| Component | State | Operations | Interacts with | What is hard | What makes it correct |
|---|---|---|---|---|---|
| heap, `mm/heap/malloc.c` | header words in the arena, `g_free_region_list` | `heap_init`, `malloc`, `free` | everything; called by main line and handlers, under the lock | long sequences of splits and merges; remainders; full heap | blocks disjoint and large enough, list exact, everything merged |
| stream sockets, `lib/net/socket.c`, `driver/net/core/net.c` | `g_sock_fds[]`, `struct socket` (state, numbers, receive queue), port counter | `socket`, `bind`, `connect`, `send`, `recv`, `sk_close`, `tcp_layer_deliver` | device handler or `ndev_poll()`, ARP, heap | handler between steps of a call; lost, repeated, crossing segments; time-outs | stream intact, numbers agree, close ends and releases, no `BUG()` |
| interrupts, `core/irq.c`, `arch/arm/*/*_irq.c` | `irq_pin_set[]`: handlers, flow of each line; pending and mask registers | `irq_register_isr`, `irq_handle*`, mask, ack, unmask | all devices | an edge between read and acknowledgement; pins that share a line | every event is served |
| datagram and raw sockets; IP, ICMP, ARP; `dhclient`, `ping` | receive queues, `g_host_list`, our address | `sendto`, `recvfrom`, `*_search_socket`, `arp_recv_packet`, `gethostaddr` | heap, devices | uninitialised fields; late, lost, foreign answers; sockets left open | the address set was leased to this run and no claim was overlooked; commands end |
| Kermit, Ymodem, `lib/uart` | sequence number, last type, load address | `kermit_load`, `ymodem_load` | UART, files | lost, cut and damaged packets, wrap of the number | the file received is the file sent; the transfer ends |
| NAND, `nand_core.c`, `nand_bbt.c`, `flash_core.c` | cells and spare areas, table of bad blocks, shared buffer, partitions | register and scan, read, write, erase, mark bad | YAFFS2 | power failure, failing operations, factory-bad blocks | bad blocks stay bad, good ones good, partitions apart |
| YAFFS2, `fs/yaffs2` | chunks on flash, block states and counters, objects, cache | write, resize, flush, rename, unlink, garbage collection, mount scan | NAND | power failure in any call, collection inside calls, full flash, bit flips | counters exact, names and durable bytes survive |
| virtual file system, ramfs, devfs | dentry tree, mounts, current directory, descriptors | `mkdir`, `mount`, `chdir`, `getcwd`, `open`, `readdir`, `close` | file systems | `..` across mounts, names made twice | a path names one directory, listings complete |
| ext2, ext4 readers | position in a file | `read` as `cat` and `boot` call it | block devices | indirect blocks, reads inside a block | what is loaded is the file |
| SD cards, block devices, disk partitions | card address and CSD, list of devices | detection, boot record, `submit_bio` | host drivers, ext readers | time-outs in the middle of the sequence, width of addresses | a card is found; a sector read is the one asked for |
| shell, `shell/shell.c` | line, cursor, ring of commands | a key, completion, history | terminal, commands | limits of buffers, editing of shown history | screen and line agree, history kept |
| TFTP; FTP; timer; configuration; SPI; flash files; display; board support; C library; commands | — | — | — | — | not modelled: section 8 |

## 2. Modules

| Module | What it is |
|---|---|
| `Heap`, `Allocator`, `MCHeap` | `malloc.c` word by word; what it promises; instance and refinement mapping |
| `HeapProofs` | TLAPS proofs of the invariants of `Heap`, and that it implements `Allocator` |
| `TcpSocket`, `MCTcpSocket`, `TcpProofs` | one stream socket, the delivery of segments, a peer and the link; proofs |
| `Irq`, `MCTcpIrq` | interrupt dispatch; instance of `TcpSocket` and `Irq` |
| `Net`, `MCNet`, `NetProofs` | datagram and raw sockets, DHCP client, ping, ARP, a LAN; proofs |
| `Kermit`, `Ymodem`, `MCLoaders`, `KermitProofs`, `YmodemProofs` | the serial loaders, their senders and the line; proofs |
| `Nand`, `Ecc`, `MCNand`, `NandProofs` | chip, bad block table and partitions; the tags of a chunk with their code; proofs |
| `Yaffs`, `MCYaffs` | the log-structured file system over a flash that fails and loses power |
| `Vfs`, `Ext`, `Mmc`, `Shell`, `MCFiles` | directory tree; block maps and read loops; SD cards and partitions; command line |
| `VfsProofs`, `FilesProofs` | proofs about the tree; about read loops, cards and command line |

`MCTcpIrq`, `MCLoaders`, `MCNand` and `MCFiles` hold several modules: the
initial state chooses which of them a behaviour is about, the others stand still.

Operators whose comment calls them a mutant are changed forms of the definition
after them, the way a slip in the code would change it; no specification uses them.
`PROJECT.json` pairs each property of each passing run with a mutant that TLC
shows to violate it.

### Heap

`curr_size` and `pre_size` are functions from header addresses to the two words
of a header, tag bits included; addresses and sizes are byte values, and
`LIST_NODE_ALIGN` wraps at `SizeMod` (2^32).  A header that is merged away leaves
the domain, since its words are payload from then on.  `HeapInit` is
`__heap_init()`; `Malloc` has the search (`FirstFit`) and both of its ends
(`TakeWhole`, `Split`); `MallocFail` is the return of NULL; `Free` merges with
the successor and then with the predecessor, and does not move a merged
predecessor in the list.  A call is one step because the code holds
`lock_irq_psr()` for all of it.  `held` is the caller's side: pointers not yet
given back, with the size asked for.  `free()` is called with such a pointer
only.

`SizesAssumption` excludes `malloc(0)` and sizes within 8 bytes of 2^32: they
round to a region of no bytes, whose list node, once freed, would overwrite the
next header.

### TcpSocket

The main line is cut into steps where the code unlocks, waits or reads
`sock->state` again: `SendCheck`, `Send`, `SendCount`; `Close`, `SendFin`, the
waits, `CloseTail`, `CloseNull`; `Connect`, the wait, `ConnectFail`.  `Deliver` is
`tcp_layer_deliver()` for the oldest segment under way; in a build with interrupts
(`irq`, chosen from `Builds`) it may come between any two steps, without them only
where the main line polls (`CanReceive`).  Its disjuncts are the cases of the `switch`.  `BUG()` sets `fault`
and nothing moves after it, as in the code.  A segment for a socket that is freed
but still in `g_sock_fds[]` sets `fault` to `"freed"`.

`ip_send_syn` and `ArpReply`: `connect()` sends its SYN with interrupts locked, and
`ip_send_packet()` waits for the ARP reply inside; with interrupts the reply cannot
arrive then, so that the first `connect()` to a host that is not in `g_host_list`
fails, and a second one finds the address.

The peer is not part of the repository: a TCP that accepts or refuses the SYN,
sends data and FINs (with and without data, with and without ACK or PSH), takes
segments in sequence and repeats what is not acknowledged.  The link keeps the
order of segments and may lose some (`MaxLost`).

Abstracted: one connection at a time, each socket with a port of its own; a data
segment is one unit and a `recv()` buffer holds a segment (the code advertises a
window of 457 bytes, its callers pass 511 or more); sequence numbers do not reach
their 32-bit wrap; header bytes and checksums.  Callers connect a new socket or
one whose `connect()` failed.

### Kermit

`Receive` takes one packet and ends in one of the four ways of the loop: wrong
number, bad checksum, accepted, error exit.  `LoopEnd` is the test of `type` that
`continue` also reaches, with the initial `type` of `KERM_TYPE_BREAK`.  `real_seq` is
moved on before the checksum is looked at, as in the code.  The sender follows
the Kermit rule that a NACK for the next packet acknowledges the present one.
Bytes, quoting and the packet buffer are left out.

### Ymodem

`Receive` takes one block and ends in one of the ways of the loop of
`ymodem_load()`: a repeated or unexpected number (NAK, and `uart_clear_buff()` throws
away what follows), an accepted block, the two EOTs, giving up.  The CRC is read
and not compared, and a block whose bytes time out is stored short.  A block is
a unit, `Cut` is the loss of a part of it.

### Irq

A device's event sets its pin; the CPU takes the steps of the handler one by one:
which line asks (`Asking`), the flow of that line (`irq_handle_level`,
`vectorirq_handle_level`, `irq_handle_edge` or the chained
`s3c24x0_parse_ext_irq`), and in it mask, acknowledge, the routines, unmask, in the
order of `irq.c`.  `ExtAckRead` and `s3c24x0_ext_ack` are the read and the write-back
of EINTPEND, between which a pin may change.  `swept` marks an edge that the
acknowledgement of another pin has cleared.  Assumption on the hardware: a group
line (EINT_4TO7, EINT_8TO23) is latched while a pin of the group is pending.

### Net

`Sockets` is `socket()`: fields it does not set (`closes`, from the state that
`sk_close()` tests, and `timed`, from `obstruct_flags`) are chosen freely.  `Arrives` goes
down `netif_rx()`; `First` and the three `*_search_socket` functions choose the first
socket that fits.  `dhclient` is cut at its `recvfrom()` calls (`RecvNothing` is a
time-out or Ctrl-C, which is looked at before the queue), the probe of the address at
its looks at the queue: `InUse` is a look that finds an answer, `NotInUse` the third one
that finds none, and `SetIp`, ten seconds later, sets the address without looking again.
Packets may come between any two of these steps.  The probe's socket is closed with
`close()` instead of `sk_close()` and stays.  External: a DHCP server that
acknowledges or refuses, hosts that answer or not, other clients (`Noise`).

History, which no guard reads: `leased` is the acknowledgements the server has given, with
the run they were given to; `cmd.late`, a request of an earlier run or its answer was still
under way when this run began; `cmd.answered`, a host claimed the address after the
probe was sent and before its last look; `cmd.blind`, such a claim does not get to the
probe's socket (the host is in the cache, or an older socket of the same kind takes it).

### Nand and Ecc

A page is data, tags and marker; `Over` is what programming does to a cell that
is not erased.  `nand_register` builds the table of bad blocks from the markers,
`Mount` is the scan of YAFFS over a partition, and the calls are those that YAFFS
makes: read, write and check of chunk and tags, erase, mark.  `nand_mark_blk_bad`
sets the bit in memory, `nand_do_write_oob` the marker later (`power = "marking"`
between them).  A write-protected chip is left out: the first page write to it ends in
`BUG()`.  An ECC layout is assumed (boards that use NAND_ECC_NONE, the
default, have none).  `Ecc` has the four words of `yaffs_packed_tags2` and their code as
sets of bit numbers, packing, correction and unpacking included.

### Yaffs

The state in memory (`dev`) and the flash.  A call is a composition of operators from
device to device, each the translation of one function (allocation, writing a
chunk with its verification, summaries of blocks, deletion, garbage collection,
headers, cache), and the sequence of flash states it passes through is kept, so that
power may fail at any of them; the mount scans what is there, deletes what was unlinked
and empties `lost+found`.  `may` is the caller's view: which bindings of names and which
bytes a mount may find.  Faults are pages that cannot be programmed and blocks that
cannot be erased or marked bad; such a block is erased instead and its first page given
the number that the scan takes for a mark.  A file that is deleted or renamed is in use
or has been flushed, as after `close()`.

The last chunk of a block is its summary, written as soon as the chunk before it is: a
full block always has a chunk in use that no object owns, until `yaffs_summary_gc()` lets it
go.  The collector chooses as the code does: nothing while it may rest, the oldest block
once in `RefreshPeriod` collections and never in an aggressive one, otherwise the
dirtiest block from the finder on.  A first page whose writing or erasing was cut short
has tags that cannot be relied on: its block keeps its number, gets another, or one out
of range, with which the scan leaves it out.  `Geometry` is the check of
`yaffs_guts_initialise()`; only chips that pass it are considered.

Left out: what 20 searches in vain for a block to collect lead to, and a page that fails
right before the summary (the summary is then written with its tags): `YaffsAssumption`
excludes chips with such pages.

### Vfs

`path_walk` is a function from a tree and a path to the set of its outcomes: more than
one, because `do_lookup()` reads an uninitialised `path` for a leading `..`.  A fault (a
NULL or list-head dereference) ends a behaviour.  `cd` to a name that does not
exist succeeds in ramfs, whose lookup does nothing; the negative dentry it leaves
is part of the tree.  `Init` is what `populate_rootfs()` makes.

### Ext

The block map as operators over a disk whose block numbers are
distinct, `ext2_read` and `ext4_read` with their arithmetic on offsets, and the loops of
`cat` (reads smaller than a block) and `boot` (whole blocks).  Of an extent header the
magic number and the depth count: without the first `ext4_read()` fails (`ReadFails`), with a
tree below it the block numbers are not set at all and anything is read (`Junk`).

### Mmc

One action per command of `mmc_sd_detect_card()`; `send_cmd` gives every outcome of a
command: an answer, or a time-out that leaves the old answer in `resp[]`, with or
without effect on the card.  The card is external and follows the SD states; it may
be of any kind, busy for a while, or still selected from before a restart.  If the
boot record cannot be read the partition table is what was on the stack.
Addresses wrap at `WORD` and are signed where the code passes them as `int`.
`read_data` may stop early, at the first empty FIFO, and the sector passes for read all
the same (`bio.whole` tells).

### Shell

One action per key.  `screen` is the terminal in insert mode, changed by what the
code prints.  `flaw` records that the code has left its limits: `"full"`, a letter
accepted beyond the limit that `print_input()` announces (it tests the cursor);
`"cut"`, Up with no older command has put a 0 into the line; `"overrun"`, an access
outside of a buffer (typing on or ending a full line, Tab on an empty line or within
leading spaces), which ends the behaviour.  `strncmp` is the one of `lib/std/string.c`, in
which a count of 0 compares the whole strings.

## 3. Runs

| Run | Configuration | Shows |
|---|---|---|
| `heap` | `MCHeap.cfg` | all invariants, and `KeepsPromise`: `Heap` implements `Allocator` |
| `tcp` | `MCTcp.cfg` | nothing lost, with and without interrupts: no `BUG()`, stream and numbers right, close releases; interrupts of three boards are served |
| `tcp_lossy` | `MCTcpLossy.cfg` | a lost segment and early time-outs, with and without interrupts: orderly close |
| `tcp_lost_ack` | `MCTcpLostAck.cfg` | violation: a lost acknowledgement leads to `BUG()` |
| `net` | `MCNet.cfg` | `dhclient` sets only addresses acknowledged to it and not claimed before its last look, and ends |
| `loaders` | `MCLoaders.cfg` | files arrive whole and in order, transfers end |
| `nand` | `MCNand.cfg` | bad and good blocks keep their state over failures and restarts; tags survive flipped bits |
| `nand_partition` | `MCNandPart.cfg` | violation: YAFFS on one partition changes the next |
| `yaffs` | `MCYaffs.cfg` | counters, ownership and reserve; names and bytes after one power failure |
| `yaffs_truncate` | `MCYaffsTruncate.cfg` | violation: truncated bytes come back |
| `yaffs_shadow` | `MCYaffsShadow.cfg` | violation: two files of one name |
| `files` | `MCFiles.cfg` | directory tree, file loading, SD cards, command line |

Only the heap run checks deadlock.  In the others a program that makes no more
calls, a machine stopped by `BUG()` or by a fault, a finished transfer and a bound that
is used up are proper ends.

### What the properties say

*Heap.* `BoundaryTags`: neighbours agree on sizes and tags, and the two ends read as
used.  `FreeListExact`: the list is the free regions, once each.  `ListNodeFits`: a
free region can hold its node.  `FullyMerged`: no two free neighbours.
`BlocksFit`: used regions are the caller's blocks, each with the room asked for.
`NothingHeldNothingLost`: when all is given back, one region is left.
`KeepsPromise`: blocks never overlap, and NULL is returned only if no gap exceeds
the request by more than the rounding and header overhead.

*TcpSocket.* `NoBug`; `StreamInOrder`: what `recv()` returned and
what is queued is the peer's data from its beginning; `FinAckedMeansSeen`: a FIN is
acknowledged only by a socket that has noted it; `NumbersAgree`: at rest both ends
agree on both numbers; `ReleasedAfterBothFins`; `CloseReleases` (liveness).

*Irq.* `Served` (liveness): every event reaches the routine of its device, unless its
edge was swept.

*Net.* `NetTypeOK`: the running command has a socket of its own; `AddressSafe`: when
`dhclient` goes to set an address, the server has acknowledged it to this very run (or to an
earlier one whose packets were still under way when this one began: `late`), and no
host had claimed it before the last look, unless the claim could not be seen (`blind`).
What is claimed in the ten seconds after that look is not heeded by the code and not part of the
property.  `DhcpEnds` (liveness), with its one exception.

*Kermit, Ymodem.* `SenderNotAhead`: the sender never goes past data the receiver lacks;
`SizeMeansWhole`: success is returned only for the whole file; `TransferEnds`
(liveness): these three unless a packet was damaged; `OrderKept`: as long as fewer
packets were damaged than there are numbers less one (each damaged packet is skipped,
and after a whole round of numbers the next one passes for another).
`YmodemStored`: the blocks stored are those of the file, in order, and the size
returned is right unless a block was cut; `YmodemEnds` (liveness), unless an ACK or the
`C` after it is lost: then sender and receiver repeat themselves for ever.

*Nand, Ecc.* `MarksLast`, `GoodStaysGood`: what a restart reads from the markers;
`TagsSurvive`: one flipped cell is corrected, two are noticed or harmless, an erased
chunk is never taken for sound tags.

*Yaffs.* `YaffsTypeOK`; `FreeCountExact`; `EveryChunkOwned`: apart from summaries the chunks
in use are those of the objects; `ReserveEnough`: no collection finds the
flash without an erased block, on a chip without faults and with all its blocks;
`Survives`: the mount after a power failure finds each name as before or after the
interrupted call and each byte as it was made durable or as it was written since.  It is
about one failure: a second one in the mount breaks it (`NameOnce`, section 5).

*Vfs.* `VfsTypeOK`: tree and mounts are well formed; `CwdRoundTrip`: the path that
`getcwd()` gives leads back; `ListingComplete`; `NamesStable` (action property): what a
name leads to never changes.

*Ext.* `FileLoaded`: memory holds the file when the loop ends, for files within the
blocks that the map gets right.  *Mmc.* `CardUsable`: a card is given up only for a
reason, and a sector read is the one asked for below 2 GiB (4 GiB on a card
addressed by bytes), if it came as a whole.  *Shell.* `ScreenShowsLine`; `HistoryKept`.

The type invariants of `TcpSocket`, `Kermit` and `Nand` hold in the same
instances; they are not among the properties of the runs.

### Bounds

*Heap*: an arena of 1092 bytes and one a byte too short; sizes 105, 229 and 472,
chosen so that blocks fit each other's holes, requests fail, and remainders of 12
bytes (not split) and larger ones (split) occur; up to 5 blocks at a time.
Larger instances add regions of the same kinds; the proofs cover all of them.
*TcpSocket*: two sockets in turn (a late segment for an old port), three
`connect()` calls (one lost to ARP, one retried, one for the second socket), one
`send()`, two data segments of the peer: enough for data before, with and after a
FIN, and for both ends closing first or at once.
*Irq*: pins 7, 8 and 9, two of which share a group line, and four events: an edge
at each place of the handling of another.
*Net*: three sockets, one of them left over from before, two runs of a command,
one lost packet, one refusal, two foreign packets.
*Kermit, Ymodem*: 4 numbers for transfers of up to 9 packets or 5 blocks, so that the
number wraps; three losses, two early repeats, one damaged packet, one cut block.
*Nand*: two blocks of two pages with four partition tables, two failing
operations, two power failures (a second failure interrupts the recovery from the
first).  *Ecc*: five kinds of tags, two flips among the 200 cells of tags and code.
*Yaffs*: seven blocks of three chunks (one of them the summary) with three reserved, a
chip that `yaffs_guts_initialise()` accepts; two files of two chunks, so
that nearly every call collects; three calls, one power failure at any flash state
(two lead to the finding `NameOnce`, on six blocks with two reserved); a chip in order, one
with a bad first page in a block that cannot be marked, one with a block that cannot be
erased and another without a summary.  `yaffs_truncate` has one file and four calls.
*Vfs*: six dentries, four mounts, paths of two units, two names, one descriptor.
*Ext*: blocks of 4 bytes, two direct blocks and two numbers per indirect block, so
that files of up to 52 bytes reach the triple indirect blocks.
*Mmc*: sectors of 2 bytes and words of 32, so that partitions lie below, across and
above both limits; three tries for a busy card; two lost commands.
*Shell*: a buffer of four characters, a ring of four, three lines, nine keys, of which
two print: a letter and the space.  The ring does not come round with three lines; the
theorem `HistoryIsKept` is for any number.

### Fairness

`CloseReleases` assumes weak fairness of the steps inside a call (the processor
runs), of delivery (the device is served: by interrupts, or by the polling loop
the call is in), of the peer's reception and retransmission, and that a peer
whose other side has closed closes its own.  No fairness is assumed for the calls
a program makes.  With `Late = FALSE` the 10 s waits outlast an exchange that is
under way (`Quiet`); `Late = TRUE` drops this assumption.  `Served` assumes that the
processor goes on with the handler it is in and takes the interrupts that ask.
`DhcpEnds` assumes that the client's loop runs, packets under way arrive or are lost,
and server and hosts answer; a wait that has a time-out comes to its end.
`TransferEnds` and `YmodemEnds` assume that the receiver reads the line (its loop does
nothing else) and that the sender's timer runs; losses are finite by `MaxLost`.

## 4. Proofs

All theorems are `Spec => []P` for every value of the constants that the named
assumptions allow; TLC evaluates the assumptions in the runs.  In each module the
invariant that is proved inductive is a conjunction of named parts, and there is one
lemma per action (or per kind of step) that keeps it.

What a recursive function computes (`path_walk`, the loop of `getcwd()`, the folds that
join the parts of a read) is proved without the induction theorems of the library,
whose operator parameter no installed prover can instantiate: the set of the numbers for
which the claim fails has a least element (`LeastNat`, from `WFMin` and the
well-foundedness of `<`), and the step before it gives the contradiction.

### Heap: `HeapProofs`

`HeapProofs` proves each invariant of the heap run for every arena, set of sizes and
number of blocks: `TypeCorrect`, `TagsAgree`, `FreeListIsExact`, `ListNodesFit`,
`MergesFully`, `BlocksAlwaysFit`, `NothingIsLost`.  Assumptions: `SizesAssumption` and
`BoundsAssumption` of `Heap`.

None of these is inductive by itself: `free()` needs the tags to find neighbours,
the list to unlink them, and the fit of blocks to know that a header is one.
The inductive invariant `IInv` (theorem `Invariance`) says that

- the headers are word-aligned and *tile* the arena: from `first` on each header
  is the successor of another, each region ends at the next header, whose
  `pre_size` repeats its size and tag, and the last is the sentinel `tail`
  (`Layout`, `Chained`, `Tiled`);
- the list holds exactly the free headers, each once (`Lists`);
- free regions have no free neighbours (`Merged`);
- used headers and the caller's blocks correspond, and a region is as large as its
  block and at most 19 bytes larger: 7 of rounding, 12 of a remainder that is too
  small to be split off (`Owned`).

The lemmas treat the three things that happen to a tiling: a word changes its
tag, a region is split, two neighbours are merged (`MergeTiled`); `free()` is
proved in two halves (`HalfFreed` is the state between them).

The module also proves the refinement `HeapKeepsPromise == Spec => KeepsPromise`, step
by step.  The step that says something is a failing `malloc()`: a gap in front of which
a block ends, or the arena begins, reaches at most 19 bytes into the block's region;
behind it lies one free region (`Merged`), then a used header or the sentinel; so a
gap of the request and 42 bytes has a free region of the rounded request in it
(`GapInRegion`, `RefusalJust`), and `FreeListIsExact` puts that region on the list.

### Stream socket: `TcpProofs`

For both builds, late and lost segments, and every number of ports, calls and
segments: `TcpTypeCorrect`, `TcpReleased` (`ReleasedAfterBothFins`), `TcpFinSeen`
(`FinAckedMeansSeen`).  `TcpInv` relates the state of the socket to what
both ends have done (`SockLife`), to the place of the main line (`PcLife`), the peer's
numbers to the segments under way in both directions (`PeerLife`, `DownLife`:
one FIN at most goes up, nothing but a FIN by itself goes beyond the
peer's data, no SYN follows a FIN), and an acknowledgement of the FIN to a state that
has seen it (`Seen`).  Segments of earlier ports are still under way, so that every part
is about the segments of the current port only (`Of`), and a new port has none
(`Ports`, `OfNew`).  The state is read again after each unlock: `PcLife` says what
is still true of it.

`TcpNoBug`, `TcpStream` and `TcpNumbers` (`NoBug`, `StreamInOrder`, `NumbersAgree`) assume
`MaxLost = 0` and `Late = FALSE`: without the first a lost acknowledgement leads to
`BUG()` and a lost segment to a hole (sections 5 and 6), without the second `connect()`
gives up while the answer to its SYN is under way.  These are the conditions of the run
`tcp`; the theorems are for every number of ports, calls and segments.
`tcp_layer_deliver()` looks at no sequence number, so that all rests on what can be
on the link: `FlowInv` says that the segments under way to the socket carry, in order
and once each, the numbers from `ack_num` up to what the peer has sent (`DownFlow`), and
those to the peer the numbers from what it has taken up to `seq_num` (`UpFlow`; `Numbered` is
the common form).  The one number that may be missing is that of a FIN which went with
data: the socket drops it, and the peer's timer sends it alone.  The timer can send
nothing else, because with nothing under way all that was taken is acknowledged
(`UpAcks`).  `Opening` covers `connect()` called again after it has given up: the peer
then listens, or has closed and has everything acknowledged.  `Stream` counts what
`recv()` has returned and what is queued up to `ack_num`.

### Loaders: `KermitProofs`, `YmodemProofs`

`KermitTypes`; `KermitOrder` (`OrderKept`, with damage); `KermitSenderNotAhead` and
`KermitSizeMeansWhole` (without damage), for every length of file, every modulus of the
numbers and any number of losses, timeouts and repeats.  The invariants are about
all packets and answers on the line at once.  For the order (`Frontier`): with `p` the
position of the last good packet the receiver has taken and `c` the damaged ones since,
the receiver expects the number of `p + c + 1`, the sender and everything on the line
are at `p` or later, and what is stored is increasing and not beyond `p`.  For the
sender (`Sync`): with `e` the packet the receiver waits for, the sender and the packets
on the line are at `e - 1` or `e`, and an answer which the sender would take as an
acknowledgement is one.
`YmodemStoresFile` (`YmodemStored`) uses the same kind of invariant (`YInv`) with the two
phases of the protocol, before and after the header block, apart.  Assumptions:
those of `Kermit`, and `YmodemAssumption` of `MCLoaders`: a modulus of 2 or more.

### NAND: `NandProofs`

`NandTypes`, `NandMarksLast`, `NandGoodStaysGood`, for chips of every size, any number
of failing operations and power failures.  `FlashInv`: what a mounted file system
still works with carries no marker on any page and the marker byte of the
shared `oob_buf` is clear, so that the writes and erasures which copy that buffer to the
spare area change no marker (`Markers`); the table of a running system agrees with the
markers of the pages that the scan reads (`Known`).  Assumptions: `NandAssumption`, and
`PartAssumption`, that the bases which the partition tables give are natural
numbers: they are computed by a fold over the table; TLC evaluates it for the tables
of the run.

`TagsAreSafe` (`TagsSurvive`) is about the tags of a chunk, for every set of tags and every
one or two of the 200 cells.  `EccInv`: the cells are those that were written but for the
ones that have flipped (`Flipped`).  The rest is what the code does to one flipped cell or
two.  The syndrome, the difference of the code read and the code of the words read, is
the sum of what the flipped cells leave in it (`SyndromeFlip`); a cell of the words leaves
one of each pair of line parities and all three of its column, a cell of the code one bit
(`CodeOfFlip`), so that one flip is told from two wherever they are (`FixT`, `FixCode`, `TwoT`,
`TAndCode`, `TwoCode`).  Assumption `TagsAssumption` of `MCNand`: at most two flips (the code
claims no more), fields that fit their bits, as YAFFS makes them, and sequence numbers
below 2^29: a number with nearly all bits set is, after one flip or two, that of an erased
chunk.  YAFFS counts from 0x1000 on, one for each block it begins, and no flash lasts that
long; the code itself stops only at 0xefffff00.

### Network: `NetProofs`

`NetTypes` and `NetAddressSafe`, for every number of sockets, hosts, lost packets,
refusals and foreign packets.  `NetInv`: a running command's socket is open, of its
type, and its own (`OwnSockets`); an acknowledgement is one that the server gave to the
run it names, and an ARP reply is from a host of the network (`Honest`, `Messages`); during
a probe that can see an answer no older socket takes it, an answer that was given is in
the queue of the probe's socket, and until then the address's user is not in the cache
(`Probing`); behind the last look a claim that came in time was one that nobody could see
(`Looked`).  `RunInv` is proved on top of it: unless the run began with old packets under way,
every request and acknowledgement under way or in the client's queue is of this run
(`Fresh`), and so is the acknowledgement that a probe rests on (`Acknowledged`).

### Virtual file system: `VfsProofs`

`TreeIsLinked` (`VfsTypeOK`), `NamesAreStable`, `ListingIsComplete`, `CwdLeadsBack`
(`CwdRoundTrip`), for every set of names, every volume and any number of dentries, mounts
and descriptors; `VfsAssumption` says that the names `dev` and `data` of `populate_rootfs()`
exist and the bounds leave room for what it makes.  `VfsInv` has two parts.

- `Tree`: a dentry is the root of its mount or younger than its parent, which lists it
  once, the children in the order of their age (`Linked`); a mount hangs on a dentry that
  is older than its root (`Hung`); what somebody's parent, a mount point or the current
  directory is can be found again by its name or its mount (`Walked`); `i_size` counts the
  children with an inode (`Sized`).
- `FdsOK`: what a descriptor has listed is the beginning of its directory's list, and all
  of it has an inode (`Listing`).

Every operation only adds at the ends of the lists (`Grows`): that gives `NamesStable` and
keeps `Listing`.  A listing that has shown `i_size` entries has shown all of them because
it shows no entry twice and the sets have the same cardinality.  `getcwd()` climbs to older
dentries only and therefore ends at the root; `CwdInv` says of its loop that each name
on the stack is found in the directory before it, or in the one that a mount there
covers, and `path_walk()` of the printed path undoes the steps one by one (`BackStep`).

### Files, cards and command line: `FilesProofs`

`FileIsLoaded` (`FileLoaded`), for every size of block, number of direct blocks and of
numbers per block, and every file size.  Assumptions: `ExtAssumption` (sizes are positive)
and `ChunksAligned`: a read is a whole number of blocks (8 KiB in `boot`) or divides a block
(512 in `cat`); without the latter a read that begins within a block and crosses its
end gets bytes that are not the file's.  The lemmas:

- a joined sequence has at each place what the part there has (`FlattenMade`);
- each layer of the block map goes on where the one before it has stopped, and
  together they give block `start + i - 1` as the i-th, up to `MapLimit` (`FillsNext`,
  `IndexMaps`, `BlocksMapped`); of the triply indirect blocks only the first index block
  is right, and no more is claimed;
- an aligned read begins at a block or stays within one (`InOneBlock`), which is when
  the arithmetic of `ext2_read()` on first and last blocks is right (`Read2Parts`, `ReadFacts`).

`ExtInv`: the position is the number of bytes in memory, before the end of the file it is
a multiple of the read (`Whole`), what is in memory is the file (`Content`), and a loop ends
only at its end.

`CardIsUsable` (`CardUsable`), with `CardAssumption`: sizes are positive.  `CardInv`: a card in
order that has lost no command is in the state which the next command of the sequence
needs, and the tries used and those it will still be busy for are together fewer than
`MMC_CMD_RETRIES` (`Expected`); what is known of the CSD is
right (`CsdKnown`); the bases of the partitions are those of the boot record (`Bases`); and
a sector within reach is the one asked for through the wrap of the address (`BioTrue`).

`ScreenIsLine` (`ScreenShowsLine`) and `HistoryIsKept` (`HistoryKept`), with `ShellAssumption`:
buffer and ring are not empty, no letter is a NUL.  `ShellInv` adds to the two that a line
without a flaw has no NUL in it and leaves the last cell free (`Tidy`), and that from the
entry shown to the slot of the next command every slot is filled (`Filled`): the Down key
tests only one of them.

TLC has checked `VfsInv` and `ExtInv` in the instance of the run `files`.

### Only model-checked

- liveness (`CloseReleases`, `Served`, `TransferEnds`, `YmodemEnds`, `DhcpEnds`): out of the
  prover's reach;
- the invariants of `Yaffs` (`FreeCountExact`, `EveryChunkOwned`, `ReserveEnough`, `Survives`): its
  calls are written with RECURSIVE operators (collection inside allocation inside
  collection), of which the prover can say nothing.

## 5. Findings

- `tcp_lost_ack`: `BUG()` at `net.c:260` asserts that a SYN|ACK arrives only in
  `TCPS_SYN_SENT`.  If the acknowledgement of the first one is lost the peer repeats
  it, and the loader stops for ever.  `net.c:283` is the same for a repeated FIN.
- `nand_partition`: a partition has the size of the chip (`flash_core.c:267`), and YAFFS
  counts its blocks from it.
- `yaffs_truncate`: `yaffs_resize_file()` does not mark the header of a truncated file as
  a shrink (`yaffs_guts.c:3786`), against the comment above it.  If the file grows again in
  the cache and a header with the new size is written first (by a rename, or by a garbage
  collection that copies it), cut bytes come back after a power failure.
- `yaffs_shadow`: the mount completes a rename over another file with garbage
  collection enabled (`yaffs_guts.c:4174`), which `yaffs_rename_obj()` says must not be.

## 6. Behaviour seen on the way

Not claims of the repository, and therefore not runs; the properties say where they
except it:

- with interrupts, which every defconfig sets, a segment can reach a socket between
  `free(sock)` and `g_sock_fds[fd] = NULL` (`socket.c:241-243`), even if nothing is lost: TLC
  reaches `fault = "freed"`, and no property is stated about it;
- data is accepted whatever its sequence number (`net.c:309-312`), so that a lost
  segment leaves an acknowledged hole;
- `connect()` misses a connection that the peer has closed again within 100 ms,
  and marks it closed (`socket.c:462-465`);
- a damaged Kermit packet is counted before its checksum is tested
  (`kermit.c:115`, 180), so that its data is skipped; a damaged number in the first
  packet ends the transfer with size 0 as success; a load into a file keeps its
  descriptor (`kermit.c:230`);
- a lost ACK makes `ymodem_load()` and its sender repeat themselves (`ymodem.c:152`);
- `s3c24x0_ext_ack()` clears pins it does not handle (`s3c24x0_irq.c:85`): their edges
  are lost, and a group line may stay asserted with no pin to handle;
- `dhclient` leaks its probe socket (`dhclient.c:176`), waits for ever for a lost answer
  if `obstruct_flags` happens to be clear, misses a conflict with a host already in
  the ARP cache (`net.c:597`), waits ten seconds after its last look and sets the address
  whatever has come meanwhile (`dhclient.c:165`, 340), takes a late ACK of an earlier
  run for its own (the transaction id never changes, line 258), and sends its request as
  BOOTREPLY;
- `..` at the beginning of a path reads an uninitialised variable (`open.c:100`);
- the ext2 map is wrong behind the first index block of the triple indirect ones
  (`ext2.c:182`), ext4 uses the first extent only and may return more than the file
  holds, and its loop overruns the buffer when reads are smaller than a block;
- on an SDHC card sectors at 2 GiB and above are not those asked for (`drive.c:60`,
  `mmc.c:48`); a boot record that cannot be read gives random partitions (`drive.c:34`),
  and so does one that `s3c2440_read_data()` cuts short (`s3c24x_mmc.c:65-82`), which counts
  as success;
- the line editor accepts a letter too many in the middle of a line (`shell.c:239`),
  Up without an older command cuts the line (`shell.c:258`), and Tab on an empty line
  writes past its table (`shell.c:172`); `strncmp()` with a count of 0 compares everything
  (`string.c:67`);
- YAFFS: with two reserved blocks of six and files that nearly fill the rest, the reserve
  can run out, since the three headers of a rename are written without a collection in
  between (`yaffs_guts.c:4095`); a first page torn so that its number is out of range
  costs the block for good (`yaffs_yaffs2.c:1437`); a page that fails right before the
  summary still has its tags written there (`yaffs_nand.c:78`); and `yaffs_resize_file()`
  ignores whether its header could be written (`yaffs_guts.c:3788`);
- `nand_correct_data()` returns before it corrects anything (`nand_ecc.c`).

## 7. Plan

1. Proofs: the counters of `Yaffs`, which need its calls rewritten without RECURSIVE.
2. Ownership of packet buffers on every path of `net.c`.
3. YAFFS directories and links; the reply parser of `ftp.c`.

## 8. Not modelled

- TFTP: `tftp_download()` and `tftp_upload()` leave `local_addr.sin_family` 0 and `bind()`
  refuses every family but `AF_INET` (`socket.c:298-317`), so the loops behind it cannot
  run; modelling them would say something of code that no execution reaches.
- Flash files (`flash_open()` leaves its device NULL), bad block tables on flash (no
  driver sets NAND_USE_FLASH_BBT), most of `yaffs_vfs.c` and all of `command/disk.c`
  (`#if 0`), SDIO, erasing and writing of cards (no caller), setting of configuration
  attributes (functions that return 0): dead at this commit.
- Timer: one comparison of ticks.  SPI core, device lists: no state to speak of.
- Register-level drivers of boards, chips and controllers; display, fonts, JPEG; the C
  library; the build system with its copy of kconfig: hardware access, data, formatting
  or tools on the host, with no state that these properties could be about.  They are
  most of the repository's lines.
- In the modelled parts: bytes and checksums of headers, failures of `malloc()` except
  where a module names them, and the exceptions that `PROJECT.json` lists for each
  component.
