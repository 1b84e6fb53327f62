------------------------------ MODULE MCFiles ------------------------------
(***************************************************************************)
(* The shell and the files for TLC.  A behaviour is either one of the      *)
(* directory tree (Vfs, with the two names of populate_rootfs(): on the    *)
(* ext4 volume "dev" is a directory and "data" a file), or the reading of  *)
(* one file from an ext volume (Ext), or the detection of an SD card and   *)
(* the reading of its sectors (Mmc), or the typing of command lines        *)
(* (Shell), while the other parts stand still.                             *)
(***************************************************************************)
EXTENDS Vfs

CONSTANTS BlockSize, NDir, PerBlock, Chunks, MaxSize

\* The reads of cat are parts of a block, those of boot are whole blocks.
ASSUME ChunksAligned ==
    \A c \in Chunks : c % BlockSize = 0 \/ BlockSize % c = 0

\* A block holds bytes and block numbers, a loop asks for some bytes.
ASSUME ExtAssumption ==
    /\ BlockSize \in Nat \ {0} /\ NDir \in Nat /\ PerBlock \in Nat \ {0}
    /\ Chunks \subseteq Nat \ {0} /\ MaxSize \in Nat

VARIABLES part, file, chunk, f_pos, mem, stop

E == INSTANCE Ext

CONSTANTS MAX_ARG_LEN, APP_HIST_DEPTH, Letters, BuiltIn, Exe, MaxLines, MaxKeys

\* The buffer and the ring are not empty; no letter and no name has a NUL in it.
ASSUME ShellAssumption ==
    /\ MAX_ARG_LEN \in Nat \ {0} /\ APP_HIST_DEPTH \in Nat \ {0}
    /\ Letters \subseteq Nat \ {0}
    /\ \A n \in BuiltIn \cup Exe : n \in Seq(Nat \ {0})
    /\ IsFiniteSet(BuiltIn) /\ IsFiniteSet(Exe)

VARIABLES buf, cur_pos, cur_max, stack, hist, hst_pos, screen, flaw, log, keys

S == INSTANCE Shell

CONSTANTS SECT, WORD, Capacity, MMC_CMD_RETRIES, Starts, Sects, MaxLost

\* Sectors and wrapping numbers have a size, a boot record holds sector numbers.
ASSUME CardAssumption ==
    /\ SECT \in Nat \ {0} /\ WORD \in Nat \ {0} /\ Capacity \in Nat
    /\ MMC_CMD_RETRIES \in Nat \ {0} /\ MaxLost \in Nat
    /\ Starts \subseteq Nat /\ Sects \subseteq Nat

VARIABLES sd, resp, mmc_card, step, tries, hcs, bdevs, bio, lost, scanned

M == INSTANCE Mmc

evars == <<file, chunk, f_pos, mem, stop>>
svars == <<buf, cur_pos, cur_max, stack, hist, hst_pos, screen, flaw, log, keys>>
mvars == <<sd, resp, mmc_card, step, tries, hcs, bdevs, bio, lost, scanned>>
allvars == <<part, vars, evars, svars, mvars>>

MCNames == {"dev", "data"}
MCVolume == [dev |-> "dir", data |-> "file"]

\* Letters are numbers from 2, of which one is typed, and spaces (1): two names have
\* the first letter in common.
MCBuiltIn == {<<2, 2>>}
MCExe == {<<2, 3>>, <<3>>}

FilesInit ==
    /\ part \in {"tree", "file", "card", "shell"}
    /\ Init /\ E!Init /\ S!Init /\ M!Init
    /\ part # "file" => file.fs = "ext2" /\ file.size = 0 /\ chunk = BlockSize
    /\ part # "card" => sd.kind = "none" /\ sd.state = "idle" /\ sd.named /\ sd.busy = 0
    /\ part # "tree" => Len(fs.mounts) = MaxMounts - 1

FilesNext ==
    \/ part = "tree" /\ Next /\ UNCHANGED <<part, evars, svars, mvars>>
    \/ part = "file" /\ E!Next /\ UNCHANGED <<part, vars, svars, mvars>>
    \/ part = "shell" /\ S!Next /\ UNCHANGED <<part, vars, evars, mvars>>
    \/ part = "card" /\ M!Next /\ UNCHANGED <<part, vars, evars, svars>>

FilesSpec == FilesInit /\ [][FilesNext]_allvars

\* The loops of cat and boot read the file, the whole file and, on ext2,
\* nothing but the file.
FileLoaded == E!FileLoaded

\* An SD card is found unless it is none, and a sector read from it or from
\* one of its partitions is the one asked for.
CardUsable == M!CardUsable

\* What the terminal shows is the line that Enter would execute.
ScreenShowsLine == S!ScreenShowsLine

\* The Up key finds the lines that were executed last.
HistoryKept == S!HistoryKept
=============================================================================
