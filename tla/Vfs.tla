-------------------------------- MODULE Vfs --------------------------------
(***************************************************************************)
(* The virtual file system (fs/core), with ramfs, devfs and the names of   *)
(* an ext4 volume under it: path walks, the dentry tree that they grow,    *)
(* mounts, the current directory, descriptors and directory listings.      *)
(*                                                                         *)
(* `fs' holds g_fs, the dentries and g_mount_list; every operation of the  *)
(* code is an operator on such a record.  A walk has a set of outcomes,    *)
(* because do_lookup() reads `next' before path_walk() has set it.  A read *)
(* through a null or stray pointer ends the behaviour in fs.fault.         *)
(***************************************************************************)
EXTENDS Integers, Sequences, FiniteSets, SequencesExt

CONSTANTS
    Names,        \* names of directory entries, without "." and ".."
    Volume,       \* the root directory of the ext4 volume: [Names -> inode]
    MaxUnits,     \* bound: components of a path
    MaxDentries,  \* bound: dentries ever allocated
    MaxMounts,    \* bound: mounts, those of populate_rootfs() included
    MAX_FDS       \* size of fd_array

Inodes == {"none", "dir", "file"}     \* "none": d_inode is NULL
Types  == {"ramfs", "devfs", "ext4"}

ASSUME VfsAssumption ==
    /\ {"dev", "data"} \subseteq Names /\ {".", ".."} \cap Names = {}
    /\ Volume \in [Names -> Inodes]
    /\ MaxUnits \in Nat \ {0} /\ MAX_FDS \in Nat \ {0}
    /\ MaxDentries >= 5 /\ MaxMounts >= 3

VARIABLES
    fs,    \* the dentries, the mounts, the current directory and the fault
    fds    \* fd_array: descriptor -> struct file

vars == <<fs, fds>>

NULL == 0      \* no dentry, no mount
Root == 1      \* g_fs.root: the first dentry, in the first mount
ListHead == -1     \* the list head of d_subdirs, as a place in the list
Closed == [dentry |-> NULL, pos |-> 0, iter |-> ListHead, listed |-> <<>>]

Units == Names \cup {".", ".."}
Paths == [abs : BOOLEAN, units : UNION {[1..n -> Units] : n \in 0..MaxUnits}]

-----------------------------------------------------------------------------
(* Dentries *)

\* What the file system of a dentry calls itself.
Type(s, d) == s.mounts[s.dentries[d].sb].type

\* __d_alloc(): a dentry of super block sb (named by its mount).
NewDentry(n, parent, sb, ino) ==
    [name |-> n, parent |-> parent, sb |-> sb, ino |-> ino,
     i_size |-> 0, subs |-> <<>>]

\* A mutant of d_alloc: linked at the head.
d_alloc_head(s, parent, n, ino) ==
    [s EXCEPT !.dentries =
        Append([@ EXCEPT ![parent].subs = <<Len(s.dentries) + 1>> \o @],
               NewDentry(n, parent, s.dentries[parent].sb, ino))]

\* d_alloc() (and the inode that the caller gives it): linked at the tail of
\* its parent, whether or not the parent has that name already.
d_alloc(s, parent, n, ino) ==
    LET linked == [s.dentries EXCEPT ![parent].subs = Append(@, Len(s.dentries) + 1)]
    IN  [s EXCEPT !.dentries =
            Append(linked, NewDentry(n, parent, s.dentries[parent].sb, ino))]

\* d_lookup(): the first child of that name, or NULL.
d_lookup(s, parent, n) ==
    LET subs == s.dentries[parent].subs
        i == SelectInSeq(subs, LAMBDA d : s.dentries[d].name = n)
    IN  IF i = 0 THEN NULL ELSE subs[i]

\* lookup_mnt(): the oldest mount on a dentry, or NULL.
lookup_mnt(s, d) == SelectInSeq(s.mounts, LAMBDA m : m.point = d)

\* The lookup operations: the inode they give to a dentry that d_alloc() made,
\* or "enoent", when dput() unlinks the dentry.  ramfs_lookup() succeeds for
\* every name and sets no inode; nothing is ever in g_devfs_list after
\* boot; the volume has entries in its root directory only.
FsLookup(s, dir, n) ==
    CASE Type(s, dir) = "ramfs" -> "none"
      [] Type(s, dir) = "devfs" -> "enoent"
      [] Type(s, dir) = "ext4"  ->
            IF s.dentries[dir].parent = dir /\ Volume[n] # "none"
            THEN Volume[n] ELSE "enoent"

-----------------------------------------------------------------------------
(* path_walk(): w is the file system, struct nameidata (at), the error and *)
(* whether `next' is still uninitialised.                                  *)

Failed(w, e) == {[w EXCEPT !.ret = e]}
Reached(w, at) == {[w EXCEPT !.at = at, !.first = FALSE]}

follow_up(s, at) ==
    [dentry |-> s.mounts[at.mnt].point, mnt |-> s.mounts[at.mnt].parent]

\* __follow_mount(): one step down, never two.
FollowMount(s, at) ==
    LET m == lookup_mnt(s, at.dentry)
    IN  IF m = NULL THEN at ELSE [dentry |-> s.mounts[m].root, mnt |-> m]

\* ".." of do_lookup(): whether it leaves the mount is decided by `next',
\* which nobody has written before the first component (its stray pointers
\* may also fault).
DotDotMounts(w) ==
    IF w.first THEN BOOLEAN
    ELSE {/\ w.at.dentry = w.fs.mounts[w.at.mnt].root
          /\ w.fs.mounts[w.at.mnt].parent # NULL}

\* A mutant of DotDot: the new mount of follow_up() is not taken over.
DotDot_mnt(w) ==
    (IF w.first THEN Failed(w, "fault") ELSE {}) \cup
    UNION {LET at == IF up THEN follow_up(w.fs, w.at) ELSE w.at
           IN  IF at.dentry = NULL THEN Failed(w, "fault")
               ELSE Reached(w, [dentry |-> w.fs.dentries[at.dentry].parent,
                                mnt |-> w.at.mnt]) : up \in DotDotMounts(w)}

DotDot(w) ==
    (IF w.first THEN Failed(w, "fault") ELSE {}) \cup
    UNION {LET at == IF up THEN follow_up(w.fs, w.at) ELSE w.at
           IN  IF at.dentry = NULL THEN Failed(w, "fault")
               ELSE Reached(w, [dentry |-> w.fs.dentries[at.dentry].parent,
                                mnt |-> at.mnt]) : up \in DotDotMounts(w)}

\* A name of do_lookup(): among the children, or else asked of the file system.
Name(w, n) ==
    LET d == d_lookup(w.fs, w.at.dentry, n)
        ino == FsLookup(w.fs, w.at.dentry, n)
    IN  IF d # NULL
        THEN Reached(w, FollowMount(w.fs, [dentry |-> d, mnt |-> w.at.mnt]))
        ELSE IF ino = "enoent" THEN Failed(w, "enoent")
        ELSE IF Len(w.fs.dentries) = MaxDentries THEN {}
        ELSE Reached([w EXCEPT !.fs = d_alloc(w.fs, w.at.dentry, n, ino)],
                     [dentry |-> Len(w.fs.dentries) + 1, mnt |-> w.at.mnt])

\* One component: cannot_lookup(), then do_lookup().
Component(w, u) ==
    LET ino == w.fs.dentries[w.at.dentry].ino
    IN  CASE w.ret # "ok"   -> {w}
          [] w.ret = "ok" /\ ino = "none" -> Failed(w, "fault")
          [] w.ret = "ok" /\ ino = "file" -> Failed(w, "enotdir")
          [] w.ret = "ok" /\ ino = "dir"  ->
                CASE u = "."  -> Reached(w, w.at)
                  [] u = ".." -> DotDot(w)
                  [] u \in Names -> Name(w, u)

Start(s, p) ==
    [fs |-> s, ret |-> "ok", first |-> TRUE,
     at |-> IF p.abs THEN [dentry |-> Root, mnt |-> 1] ELSE s.pwd]

path_walk(s, p) ==
    LET walk[i \in 0..Len(p.units)] ==
          IF i = 0 THEN {Start(s, p)}
          ELSE UNION {Component(w, p.units[i]) : w \in walk[i - 1]}
    IN  walk[Len(p.units)]

\* What is left when a walk failed: the dentries it made, or a fault.
AfterFailure(w) ==
    IF w.ret = "fault" THEN [w.fs EXCEPT !.fault = "null"] ELSE w.fs

-----------------------------------------------------------------------------
(* Operations on the tree *)

\* A mutant of sys_mkdir: ramfs_mkdir() does not count the new directory.
sys_mkdir_uncounted(s, n) ==
    LET dir == s.pwd.dentry
    IN  IF s.dentries[dir].ino = "none" THEN [s EXCEPT !.fault = "null"]
        ELSE IF Type(s, dir) # "ramfs" THEN s
        ELSE d_alloc(s, dir, n, "dir")

\* sys_mkdir(): always in the current directory.  Only ramfs has a mkdir; of
\* the others' failure nothing remains.
sys_mkdir(s, n) ==
    LET dir == s.pwd.dentry
    IN  IF s.dentries[dir].ino = "none" THEN [s EXCEPT !.fault = "null"]
        ELSE IF Type(s, dir) # "ramfs" THEN s
        ELSE [d_alloc(s, dir, n, "dir") EXCEPT !.dentries[dir].i_size = @ + 1]

\* A mutant of add_mount: every mount hangs below the root mount.
add_mount_root(s, at, type) ==
    LET root == Len(s.dentries) + 1
    IN  [s EXCEPT
          !.dentries = Append(@, NewDentry("/", root, Len(s.mounts) + 1, "dir")),
          !.mounts = Append(@, [point |-> at.dentry, root |-> root, type |-> type,
                                parent |-> IF at.mnt = NULL THEN NULL ELSE 1])]

\* do_mount() and add_mount(): a new super block with its root dentry.
add_mount(s, at, type) ==
    LET root == Len(s.dentries) + 1
    IN  [s EXCEPT
          !.dentries = Append(@, NewDentry("/", root, Len(s.mounts) + 1, "dir")),
          !.mounts = Append(@, [point |-> at.dentry, parent |-> at.mnt,
                                root |-> root, type |-> type])]

\* sys_mount(): a bad type or device leaves only what the walk made.
sys_mount(s, p, type, ok) ==
    {IF w.ret # "ok" THEN AfterFailure(w)
     ELSE IF ok THEN add_mount(w.fs, w.at, type) ELSE w.fs
        : w \in path_walk(s, p)}

sys_chdir(s, p) ==
    {IF w.ret = "ok" THEN [w.fs EXCEPT !.pwd = w.at] ELSE AfterFailure(w)
        : w \in path_walk(s, p)}

\* One turn of the loop of sys_getcwd().
CwdStep(s, c) ==
    IF c.at.dentry = Root THEN c
    ELSE IF c.at.dentry = s.mounts[c.at.mnt].root
    THEN [c EXCEPT !.at = follow_up(s, @)]
    ELSE [at |-> [c.at EXCEPT !.dentry = s.dentries[@].parent],
          stack |-> <<c.at.dentry>> \o c.stack]

\* sys_getcwd(): where its loop ends, and the dentries whose names it prints.
sys_getcwd(s) ==
    LET loop[i \in 0..Len(s.dentries)] ==
          IF i = 0 THEN [at |-> s.pwd, stack |-> <<>>] ELSE CwdStep(s, loop[i - 1])
    IN  loop[Len(s.dentries)]

-----------------------------------------------------------------------------
(* Boot *)

\* mount_root().
mount_root ==
    add_mount([dentries |-> <<>>, mounts |-> <<>>, fault |-> "none",
               pwd |-> [dentry |-> Root, mnt |-> 1]],
              [dentry |-> NULL, mnt |-> NULL], "ramfs")

Fstab(n) == [abs |-> TRUE, units |-> <<n>>]

\* populate_rootfs(): /dev always, /data when the card is there.
populate_rootfs ==
    UNION {UNION {sys_mount(sys_mkdir(s, "data"), Fstab("data"), "ext4", card) : card \in BOOLEAN}
             : s \in sys_mount(sys_mkdir(mount_root, "dev"), Fstab("dev"), "devfs", TRUE)}

Init ==
    /\ fs \in populate_rootfs
    /\ fds = [i \in 0..(MAX_FDS - 1) |-> Closed]

-----------------------------------------------------------------------------
(* The calls of a command or an application *)

Running == fs.fault = "none"

Mkdir(n) ==
    /\ Running /\ Len(fs.dentries) < MaxDentries
    /\ fs' = sys_mkdir(fs, n)
    /\ UNCHANGED fds

Mount(p, type, ok) ==
    /\ Running /\ Len(fs.mounts) < MaxMounts
    /\ ok \/ type = "ext4"
    /\ fs' \in sys_mount(fs, p, type, ok)
    /\ Len(fs'.dentries) <= MaxDentries
    /\ UNCHANGED fds

Chdir(p) ==
    /\ Running
    /\ fs' \in sys_chdir(fs, p)
    /\ UNCHANGED fds

\* get_unused_fd().
Unused == {i \in DOMAIN fds : fds[i] = Closed /\ \A j \in 0..(i - 1) : fds[j] # Closed}

\* ramfs_opendir() and devfs_opendir() remember the first child; an ext4
\* directory has no open.
First(s, d) == IF s.dentries[d].subs = <<>> \/ Type(s, d) = "ext4" THEN ListHead
               ELSE s.dentries[d].subs[1]

\* sys_open(): the descriptor is chosen before the walk.
Open(p) ==
    /\ Running
    /\ \E fd \in Unused, w \in path_walk(fs, p) :
         IF w.ret # "ok"
         THEN fs' = AfterFailure(w) /\ UNCHANGED fds
         ELSE IF w.fs.dentries[w.at.dentry].ino = "none"
         THEN fs' = [w.fs EXCEPT !.fault = "null"] /\ UNCHANGED fds
         ELSE /\ fs' = w.fs
              /\ fds' = [fds EXCEPT ![fd] =
                    [dentry |-> w.at.dentry, pos |-> 0, listed |-> <<>>,
                     iter |-> First(w.fs, w.at.dentry)]]

Close(fd) ==
    /\ Running /\ fds[fd] # Closed
    /\ fds' = [fds EXCEPT ![fd] = Closed]
    /\ UNCHANGED fs

\* iter->next in the list of children of a directory.
NextOf(d, c) ==
    LET subs == fs.dentries[d].subs
        i == SelectInSeq(subs, LAMBDA e : e = c)
    IN  IF i = Len(subs) THEN ListHead ELSE subs[i + 1]

\* sys_getdents() with ramfs_readdir() or devfs_readdir(): the entry under the
\* iterator, which stops at i_size entries and not at the list head.
Readdir(fd) ==
    LET f == fds[fd]
        d == f.dentry
    IN  /\ Running /\ f # Closed
        /\ fs.dentries[d].ino = "dir" /\ Type(fs, d) # "ext4"
        /\ f.pos < fs.dentries[d].i_size
        /\ IF f.iter = ListHead
           THEN fs' = [fs EXCEPT !.fault = "head"] /\ UNCHANGED fds
           ELSE IF fs.dentries[f.iter].ino = "none"
           THEN fs' = [fs EXCEPT !.fault = "null"] /\ UNCHANGED fds
           ELSE /\ fds' = [fds EXCEPT ![fd].listed = Append(@, f.iter),
                                      ![fd].iter = NextOf(d, f.iter),
                                      ![fd].pos = @ + 1]
                /\ UNCHANGED fs

Next ==
    \/ \E n \in Names : Mkdir(n)
    \/ \E p \in Paths :
         \/ Chdir(p) \/ Open(p)
         \/ \E type \in Types, ok \in BOOLEAN : Mount(p, type, ok)
    \/ \E fd \in DOMAIN fds : Close(fd) \/ Readdir(fd)

Spec == Init /\ [][Next]_vars

-----------------------------------------------------------------------------
(* Properties *)

\* Links are well formed: a dentry is a child of its parent or a root, every
\* mount but the first hangs on a dentry of its parent's mount, and the
\* current directory belongs to the mount it is remembered with.
VfsTypeOK ==
    /\ \A d \in DOMAIN fs.dentries :
         LET e == fs.dentries[d]
         IN  /\ e.ino \in Inodes /\ e.sb \in DOMAIN fs.mounts
             /\ e.parent \in DOMAIN fs.dentries
             /\ fs.dentries[e.parent].sb = e.sb
             /\ IF e.parent = d THEN fs.mounts[e.sb].root = d
                ELSE d \in ToSet(fs.dentries[e.parent].subs)
    /\ \A m \in 2..Len(fs.mounts) :
         /\ fs.mounts[m].parent \in 1..(m - 1)
         /\ fs.dentries[fs.mounts[m].point].sb = fs.mounts[m].parent
    /\ fs.dentries[fs.pwd.dentry].sb = fs.pwd.mnt
    /\ fs.fault \in {"none", "null", "head"}

\* A later mount hides a directory on the way to the current one.
Hidden(stack) ==
    \E i \in DOMAIN stack :
        LET m == lookup_mnt(fs, stack[i])
            below == IF i = Len(stack) THEN fs.pwd.dentry
                     ELSE fs.dentries[stack[i + 1]].parent
        IN  m # NULL /\ below # fs.mounts[m].root

\* The path that getcwd() prints leads back to the current directory, on the
\* right mount, after any sequence of cd, mkdir and mount: whatever ".."
\* did at a mount point, and also where the name was made twice.  (cd.c
\* compares its argument with that path, flash.c uses it as a device.)
CwdRoundTrip ==
    LET c == sys_getcwd(fs)
        back == [abs |-> TRUE,
                 units |-> [i \in DOMAIN c.stack |-> fs.dentries[c.stack[i]].name]]
    IN  /\ c.at.dentry = Root
        /\ Hidden(c.stack) \/ \A w \in path_walk(fs, back) :
                                    w.ret = "ok" /\ w.at = fs.pwd

\* A listing that ended without a fault has shown every directory of the
\* directory once, in the order of creation (that of the dentry numbers),
\* although readdir() trusts i_size and the list also holds names that only a
\* lookup has left there.
ListingComplete ==
    \A fd \in DOMAIN fds :
        LET f == fds[fd]
            subs == fs.dentries[f.dentry].subs
        IN  f # Closed /\ Type(fs, f.dentry) # "ext4" /\ fs.fault = "none"
              /\ f.pos = fs.dentries[f.dentry].i_size
            => /\ ToSet(f.listed) = {d \in ToSet(subs) : fs.dentries[d].ino # "none"}
               /\ \A i, j \in DOMAIN f.listed : i < j => f.listed[i] < f.listed[j]

\* What a name in a directory leads to never changes: neither a second mkdir of
\* the name, nor a second mount on the directory, nor any lookup replaces it,
\* although none of them looks for an older one.
NamesStable ==
    [][\A d \in DOMAIN fs.dentries :
         /\ \A n \in Names :
              LET e == d_lookup(fs, d, n)
              IN  e # NULL => d_lookup(fs', d, n) = e
         /\ LET m == lookup_mnt(fs, d)
            IN  m # NULL => lookup_mnt(fs', d) = m]_vars
=============================================================================
