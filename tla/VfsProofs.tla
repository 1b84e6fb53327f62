----------------------------- MODULE VfsProofs -----------------------------
(***************************************************************************)
(* Proofs about the virtual file system (Vfs), for every set of names,     *)
(* every volume and any number of dentries, mounts and descriptors: the    *)
(* tree stays well formed, what a name leads to never changes, the path of *)
(* getcwd() leads back, and a listing is complete.                         *)
(***************************************************************************)
EXTENDS Vfs, SequenceTheorems, FiniteSetTheorems, WellFoundedInduction, TLAPS

-----------------------------------------------------------------------------
(* Least elements, and the searches of d_lookup() and lookup_mnt() *)

LEMMA LeastNat ==
    ASSUME NEW T, T \subseteq Nat, T # {}
    PROVE  \E x \in T : \A y \in T : x <= y
<1>1. IsWellFoundedOn(OpToRel(<, Nat), Nat)
  BY NatLessThanWellFounded
<1>2. PICK x \in T : \A y \in T : ~(<<y, x>> \in OpToRel(<, Nat))
  BY <1>1, WFMin
<1>3. \A y \in T : ~(y < x)
  BY <1>2 DEF OpToRel
<1> QED BY <1>3

LEMMA MinFacts ==
    ASSUME NEW T, T \subseteq Nat, T # {}
    PROVE  Min(T) \in T /\ \A y \in T : Min(T) <= y
BY LeastNat DEF Min

LEMMA MountFacts ==
    ASSUME NEW s, Len(s.mounts) \in Nat, NEW d
    PROVE  \/ lookup_mnt(s, d) = 0 /\ \A i \in 1 .. Len(s.mounts) : s.mounts[i].point # d
           \/ /\ lookup_mnt(s, d) \in 1 .. Len(s.mounts) /\ s.mounts[lookup_mnt(s, d)].point = d
              /\ \A i \in 1 .. lookup_mnt(s, d) - 1 : s.mounts[i].point # d
<1> DEFINE T == {i \in 1 .. Len(s.mounts) : s.mounts[i].point = d}
<1>1. lookup_mnt(s, d) = IF T # {} THEN Min(T) ELSE 0
  BY DEF lookup_mnt, SelectInSeq
<1>2. CASE T = {}
  BY <1>1, <1>2
<1>3. CASE T # {}
  <2>1. T \subseteq Nat
    OBVIOUS
  <2>2. Min(T) \in T /\ \A y \in T : Min(T) <= y
    <3> HIDE DEF T
    <3> QED BY <1>3, <2>1, MinFacts
  <2>3. PICK z : z = Min(T)
    OBVIOUS
  <2>4. z \in 1 .. Len(s.mounts) /\ s.mounts[z].point = d /\ \A y \in T : z <= y
    BY <2>2, <2>3
  <2>5. \A i \in 1 .. z - 1 : s.mounts[i].point # d
    <3> TAKE i \in 1 .. z - 1
    <3>1. i \in 1 .. Len(s.mounts) /\ ~(z <= i)
      BY <2>4
    <3> QED BY <2>4, <3>1
  <2> QED BY <1>1, <1>3, <2>3, <2>4, <2>5
<1> QED BY <1>2, <1>3

LEMMA MountFound ==
    ASSUME NEW s, Len(s.mounts) \in Nat, NEW d, NEW m \in 1 .. Len(s.mounts), s.mounts[m].point = d,
           \A i \in 1 .. m - 1 : s.mounts[i].point # d
    PROVE  lookup_mnt(s, d) = m
<1>1. PICK z : z = lookup_mnt(s, d)
  OBVIOUS
<1>2. z \in 1 .. Len(s.mounts) /\ s.mounts[z].point = d /\ \A i \in 1 .. z - 1 : s.mounts[i].point # d
  BY <1>1, MountFacts
<1>3. ~(z < m) /\ ~(m < z)
  BY <1>2
<1> QED BY <1>1, <1>2, <1>3

\* The names of the children of a dentry, by their places in the list.
SubName(s, p, i) == s.dentries[s.dentries[p].subs[i]].name

LEMMA LookupFacts ==
    ASSUME NEW s, NEW p, Len(s.dentries[p].subs) \in Nat, NEW n,
           \A i \in 1 .. Len(s.dentries[p].subs) : s.dentries[p].subs[i] # 0
    PROVE  \/ d_lookup(s, p, n) = 0 /\ \A i \in 1 .. Len(s.dentries[p].subs) : SubName(s, p, i) # n
           \/ \E k \in 1 .. Len(s.dentries[p].subs) :
                /\ d_lookup(s, p, n) = s.dentries[p].subs[k] /\ d_lookup(s, p, n) # 0
                /\ SubName(s, p, k) = n
                /\ \A i \in 1 .. k - 1 : SubName(s, p, i) # n
<1> DEFINE subs == s.dentries[p].subs
           T == {i \in 1 .. Len(subs) : s.dentries[subs[i]].name = n}
<1>1. d_lookup(s, p, n) = LET k == IF T # {} THEN Min(T) ELSE 0 IN IF k = 0 THEN 0 ELSE subs[k]
  BY DEF d_lookup, SelectInSeq, NULL
<1>2. CASE T = {}
  BY <1>1, <1>2 DEF SubName
<1>3. CASE T # {}
  <2>1. T \subseteq Nat
    OBVIOUS
  <2>2. Min(T) \in T /\ \A y \in T : Min(T) <= y
    <3> HIDE DEF T
    <3> QED BY <1>3, <2>1, MinFacts
  <2>3. PICK z : z = Min(T)
    OBVIOUS
  <2>4. z \in 1 .. Len(subs) /\ SubName(s, p, z) = n /\ \A y \in T : z <= y
    BY <2>2, <2>3 DEF SubName
  <2>5. \A i \in 1 .. z - 1 : SubName(s, p, i) # n
    <3> TAKE i \in 1 .. z - 1
    <3>1. i \in 1 .. Len(subs) /\ ~(z <= i)
      BY <2>4
    <3> QED BY <2>4, <3>1 DEF SubName
  <2>6. d_lookup(s, p, n) = subs[z]
    <3>1. z # 0
      BY <2>4
    <3> HIDE DEF T, subs
    <3> QED BY <1>1, <1>3, <2>3, <3>1, Zenon
  <2> QED BY <2>4, <2>5, <2>6
<1> QED BY <1>2, <1>3

LEMMA LookupFound ==
    ASSUME NEW s, NEW p, Len(s.dentries[p].subs) \in Nat, NEW n,
           \A i \in 1 .. Len(s.dentries[p].subs) : s.dentries[p].subs[i] # 0,
           NEW k \in 1 .. Len(s.dentries[p].subs), SubName(s, p, k) = n,
           \A i \in 1 .. k - 1 : SubName(s, p, i) # n
    PROVE  d_lookup(s, p, n) = s.dentries[p].subs[k]
<1>1. PICK z \in 1 .. Len(s.dentries[p].subs) :
             d_lookup(s, p, n) = s.dentries[p].subs[z] /\ SubName(s, p, z) = n
               /\ \A i \in 1 .. z - 1 : SubName(s, p, i) # n
  BY LookupFacts
<1>2. ~(z < k) /\ ~(k < z)
  BY <1>1
<1>3. z = k
  BY <1>2
<1> QED BY <1>1, <1>3

-----------------------------------------------------------------------------
(* The tree *)

Dentries == [name : Names \cup {"/"}, parent : Nat, sb : Nat, ino : Inodes, i_size : Nat, subs : Seq(Nat)]
Mounts == [point : Nat, parent : Nat, root : Nat, type : Types]
Places == [dentry : Nat, mnt : Nat]
FsTypes ==
    [dentries : Seq(Dentries), mounts : Seq(Mounts), pwd : Places, fault : {"none", "null", "head"}]

\* A place is a dentry with the mount it belongs to.
At(s, at) ==
    at \in Places /\ at.dentry \in 1 .. Len(s.dentries) /\ s.dentries[at.dentry].sb = at.mnt

\* A dentry is the root of its mount or younger than its parent, which has it in
\* its list; the children are listed in the order of their age.
Linked(s, d) ==
    LET e == s.dentries[d]
    IN  /\ e.sb \in 1 .. Len(s.mounts) /\ e.parent \in 1 .. d
        /\ s.dentries[e.parent].sb = e.sb
        /\ e.parent = d => s.mounts[e.sb].root = d
        /\ e.parent # d => /\ e.name \in Names
                           /\ \E i \in 1 .. Len(s.dentries[e.parent].subs) : s.dentries[e.parent].subs[i] = d
        /\ \A i \in 1 .. Len(e.subs) : /\ e.subs[i] \in d + 1 .. Len(s.dentries)
                                       /\ s.dentries[e.subs[i]].parent = d
        /\ \A i, j \in 1 .. Len(e.subs) : i < j => e.subs[i] < e.subs[j]

\* A mount hangs on a dentry of an older mount and is younger than it.
Hung(s, m) ==
    LET x == s.mounts[m]
    IN  /\ x.root \in 1 .. Len(s.dentries) /\ s.dentries[x.root].sb = m
        /\ s.dentries[x.root].parent = x.root
        /\ m = 1 => x.point = 0 /\ x.parent = 0 /\ x.root = 1
        /\ m # 1 => /\ x.parent \in 1 .. m - 1 /\ x.point \in 1 .. x.root - 1
                    /\ s.dentries[x.point].sb = x.parent

FsOK(s) ==
    /\ s \in FsTypes /\ Len(s.mounts) >= 1
    /\ \A d \in 1 .. Len(s.dentries) : Linked(s, d)
    /\ \A m \in 1 .. Len(s.mounts) : Hung(s, m)
    /\ At(s, s.pwd)

\* A dentry that path_walk() can end at: the first of its name in a directory, or
\* the root of the oldest mount on a dentry that is not itself a root.
Found(s, d) ==
    LET e == s.dentries[d]
        point == s.mounts[e.sb].point
    IN  IF e.parent # d
        THEN d_lookup(s, e.parent, e.name) = d /\ s.dentries[e.parent].ino = "dir"
        ELSE d = Root \/ (s.dentries[point].parent # point /\ lookup_mnt(s, point) = e.sb)

\* Only such a dentry has children or a mount, or is the current directory.
Walked(s) ==
    /\ \A d \in 1 .. Len(s.dentries) : s.dentries[d].parent # d => Found(s, s.dentries[d].parent)
    /\ \A m \in 2 .. Len(s.mounts) : Found(s, s.mounts[m].point)
    /\ Found(s, s.pwd.dentry)

\* i_size counts the children that have an inode.
Entries(s, d) ==
    {i \in 1 .. Len(s.dentries[d].subs) : s.dentries[s.dentries[d].subs[i]].ino # "none"}
Sized(s) ==
    \A d \in 1 .. Len(s.dentries) :
      Type(s, d) # "ext4" => s.dentries[d].i_size = Cardinality(Entries(s, d))

Tree(s) == FsOK(s) /\ Walked(s) /\ Sized(s)

\* What an open descriptor has listed are the first children of its directory, all
\* of them with an inode, and it points to the next one or to the head of the list.
Listing(s, f) ==
    LET subs == s.dentries[f.dentry].subs
    IN  /\ f \in [dentry : Nat, pos : Nat, iter : Nat \cup {ListHead}, listed : Seq(Nat)]
        /\ f.dentry \in 1 .. Len(s.dentries)
        /\ Len(f.listed) = f.pos /\ f.pos <= Len(subs)
        /\ \A i \in 1 .. f.pos : f.listed[i] = subs[i] /\ s.dentries[subs[i]].ino # "none"
        /\ f.iter # ListHead => f.pos < Len(subs) /\ f.iter = subs[f.pos + 1]

FdsOK(s, t) == DOMAIN t = 0 .. MAX_FDS - 1 /\ \A fd \in DOMAIN t : t[fd] = Closed \/ Listing(s, t[fd])

VfsInv == Tree(fs) /\ FdsOK(fs, fds)

-----------------------------------------------------------------------------
(* Growth: an operation adds dentries, children and mounts, at the ends *)

\* What an old dentry keeps.
Kept(s, t, d) ==
    /\ t.dentries[d].name = s.dentries[d].name /\ t.dentries[d].parent = s.dentries[d].parent
    /\ t.dentries[d].sb = s.dentries[d].sb /\ t.dentries[d].ino = s.dentries[d].ino
    /\ Len(s.dentries[d].subs) <= Len(t.dentries[d].subs)
    /\ \A i \in 1 .. Len(s.dentries[d].subs) : t.dentries[d].subs[i] = s.dentries[d].subs[i]

Grows(s, t) ==
    /\ Len(s.dentries) <= Len(t.dentries) /\ Len(s.mounts) <= Len(t.mounts)
    /\ \A d \in 1 .. Len(s.dentries) : Kept(s, t, d)
    /\ \A m \in 1 .. Len(s.mounts) : t.mounts[m] = s.mounts[m]

LEMMA DentryTypes ==
    ASSUME NEW s, FsOK(s)
    PROVE  /\ Len(s.dentries) \in Nat /\ Len(s.mounts) \in Nat
           /\ \A d \in 1 .. Len(s.dentries) :
                /\ s.dentries[d] \in Dentries /\ Len(s.dentries[d].subs) \in Nat
                /\ s.dentries[d].sb \in Nat /\ s.dentries[d].parent \in Nat /\ s.dentries[d].ino \in Inodes
           /\ \A m \in 1 .. Len(s.mounts) : s.mounts[m] \in Mounts
<1>1. s.dentries \in Seq(Dentries) /\ s.mounts \in Seq(Mounts)
  BY DEF FsOK, FsTypes
<1>2. \A d \in 1 .. Len(s.dentries) : s.dentries[d] \in Dentries
  BY <1>1
<1>3. \A e \in Dentries : /\ Len(e.subs) \in Nat /\ e.sb \in Nat /\ e.parent \in Nat /\ e.ino \in Inodes
  BY DEF Dentries
<1> QED BY <1>1, <1>2, <1>3

LEMMA ChildFacts ==
    ASSUME NEW s, FsOK(s), NEW p \in 1 .. Len(s.dentries)
    PROVE  /\ Len(s.dentries[p].subs) \in Nat
           /\ \A i \in 1 .. Len(s.dentries[p].subs) :
                /\ s.dentries[p].subs[i] \in p + 1 .. Len(s.dentries)
                /\ s.dentries[p].subs[i] \in 1 .. Len(s.dentries)
                /\ s.dentries[p].subs[i] # 0
                /\ s.dentries[s.dentries[p].subs[i]].parent = p
<1>1. Linked(s, p) /\ Len(s.dentries) \in Nat /\ p \in Nat
  BY DentryTypes DEF FsOK
<1>2. \A i \in 1 .. Len(s.dentries[p].subs) : /\ s.dentries[p].subs[i] \in p + 1 .. Len(s.dentries)
                                              /\ s.dentries[s.dentries[p].subs[i]].parent = p
  BY <1>1 DEF Linked
<1>3. \A x \in p + 1 .. Len(s.dentries) : x # 0 /\ x \in 1 .. Len(s.dentries)
  BY <1>1
<1> QED BY <1>2, <1>3, DentryTypes

LEMMA GrowsReflexive ==
    ASSUME NEW s, FsOK(s)
    PROVE  Grows(s, s)
BY DentryTypes DEF Grows, Kept

LEMMA GrowsTransitive ==
    ASSUME NEW s, NEW t, NEW u, FsOK(s), FsOK(t), FsOK(u), Grows(s, t), Grows(t, u)
    PROVE  Grows(s, u)
<1>1. /\ Len(s.dentries) \in Nat /\ Len(t.dentries) \in Nat /\ Len(u.dentries) \in Nat
      /\ Len(s.mounts) \in Nat /\ Len(t.mounts) \in Nat /\ Len(u.mounts) \in Nat
  BY DentryTypes
<1>2. /\ Len(s.dentries) <= Len(t.dentries) /\ Len(t.dentries) <= Len(u.dentries)
      /\ Len(s.mounts) <= Len(t.mounts) /\ Len(t.mounts) <= Len(u.mounts)
  BY DEF Grows
<1>3. ASSUME NEW d \in 1 .. Len(s.dentries)
      PROVE  Kept(s, u, d)
  <2>1. d \in 1 .. Len(t.dentries) /\ d \in 1 .. Len(u.dentries)
    BY <1>1, <1>2
  <2>2. Kept(s, t, d) /\ Kept(t, u, d)
    BY <2>1 DEF Grows
  <2>3. /\ Len(s.dentries[d].subs) \in Nat /\ Len(t.dentries[d].subs) \in Nat
        /\ Len(u.dentries[d].subs) \in Nat
    BY <2>1, DentryTypes
  <2>4. \A i \in 1 .. Len(s.dentries[d].subs) : i \in 1 .. Len(t.dentries[d].subs)
    BY <2>2, <2>3 DEF Kept
  <2>5. \A i \in 1 .. Len(s.dentries[d].subs) : u.dentries[d].subs[i] = s.dentries[d].subs[i]
    BY <2>2, <2>4 DEF Kept
  <2>6. PICK a, b, c : /\ a = Len(s.dentries[d].subs) /\ b = Len(t.dentries[d].subs)
                       /\ c = Len(u.dentries[d].subs)
    OBVIOUS
  <2>7. a \in Nat /\ b \in Nat /\ c \in Nat /\ a <= b /\ b <= c
    BY <2>2, <2>3, <2>6, Zenon DEF Kept
  <2>8. a <= c
    BY <2>7
  <2> QED BY <2>2, <2>5, <2>6, <2>8, Zenon DEF Kept
<1>4. \A m \in 1 .. Len(s.mounts) : u.mounts[m] = s.mounts[m]
  <2>1. \A m \in 1 .. Len(s.mounts) : m \in 1 .. Len(t.mounts)
    BY <1>1, <1>2
  <2> QED BY <2>1 DEF Grows
<1>5. Len(s.dentries) <= Len(u.dentries) /\ Len(s.mounts) <= Len(u.mounts)
  BY <1>1, <1>2
<1> QED BY <1>3, <1>4, <1>5 DEF Grows

\* A name that is there leads to the same dentry afterwards.
LEMMA LookupStable ==
    ASSUME NEW s, NEW t, FsOK(s), FsOK(t), Grows(s, t), NEW p \in 1 .. Len(s.dentries), NEW n,
           d_lookup(s, p, n) # 0
    PROVE  d_lookup(t, p, n) = d_lookup(s, p, n)
<1>1. p \in 1 .. Len(t.dentries) /\ Kept(s, t, p)
  BY DentryTypes DEF Grows
<1>2. \A i \in 1 .. Len(s.dentries[p].subs) : /\ s.dentries[p].subs[i] # 0
                                              /\ s.dentries[p].subs[i] \in 1 .. Len(s.dentries)
  BY ChildFacts
<1>3. \A i \in 1 .. Len(t.dentries[p].subs) : t.dentries[p].subs[i] # 0
  BY <1>1, ChildFacts
<1>4. Len(s.dentries[p].subs) \in Nat /\ Len(t.dentries[p].subs) \in Nat
  BY <1>1, DentryTypes
<1>5. PICK k \in 1 .. Len(s.dentries[p].subs) :
             /\ d_lookup(s, p, n) = s.dentries[p].subs[k] /\ SubName(s, p, k) = n
             /\ \A i \in 1 .. k - 1 : SubName(s, p, i) # n
  BY <1>2, <1>4, LookupFacts
<1>6. \A i \in 1 .. Len(s.dentries[p].subs) : SubName(t, p, i) = SubName(s, p, i)
  <2> TAKE i \in 1 .. Len(s.dentries[p].subs)
  <2>1. t.dentries[p].subs[i] = s.dentries[p].subs[i]
    BY <1>1 DEF Kept
  <2>2. Kept(s, t, s.dentries[p].subs[i])
    BY <1>2 DEF Grows
  <2> QED BY <2>1, <2>2 DEF Kept, SubName
<1>7. k \in 1 .. Len(t.dentries[p].subs) /\ SubName(t, p, k) = n
  BY <1>1, <1>4, <1>5, <1>6 DEF Kept
<1>8. \A i \in 1 .. k - 1 : SubName(t, p, i) # n
  <2>1. \A i \in 1 .. k - 1 : i \in 1 .. Len(s.dentries[p].subs)
    BY <1>4
  <2> QED BY <2>1, <1>5, <1>6
<1>9. d_lookup(t, p, n) = t.dentries[p].subs[k]
  BY <1>3, <1>4, <1>7, <1>8, LookupFound
<1> QED BY <1>1, <1>5, <1>9 DEF Kept

LEMMA MountStable ==
    ASSUME NEW s, NEW t, FsOK(s), FsOK(t), Grows(s, t), NEW d, lookup_mnt(s, d) # 0
    PROVE  lookup_mnt(t, d) = lookup_mnt(s, d)
<1>1. Len(s.mounts) \in Nat /\ Len(t.mounts) \in Nat /\ Len(s.mounts) <= Len(t.mounts)
  BY DentryTypes DEF Grows
<1>2. PICK m : m = lookup_mnt(s, d)
  OBVIOUS
<1>3. /\ m \in 1 .. Len(s.mounts) /\ s.mounts[m].point = d
      /\ \A i \in 1 .. m - 1 : s.mounts[i].point # d
  BY <1>1, <1>2, MountFacts
<1>4. \A i \in 1 .. Len(s.mounts) : t.mounts[i] = s.mounts[i]
  BY DEF Grows
<1>5. \A i \in 1 .. m - 1 : i \in 1 .. Len(s.mounts)
  BY <1>1, <1>3
<1>6. m \in 1 .. Len(t.mounts) /\ t.mounts[m].point = d /\ \A i \in 1 .. m - 1 : t.mounts[i].point # d
  BY <1>1, <1>3, <1>4, <1>5
<1> QED BY <1>1, <1>2, <1>6, MountFound

LEMMA FoundStable ==
    ASSUME NEW s, NEW t, FsOK(s), FsOK(t), Grows(s, t), NEW d \in 1 .. Len(s.dentries), Found(s, d)
    PROVE  Found(t, d)
<1>1. Kept(s, t, d) /\ Linked(s, d) /\ Len(s.dentries) \in Nat /\ Len(s.mounts) \in Nat
  BY DentryTypes DEF Grows, FsOK
<1>2. CASE s.dentries[d].parent # d
  <2>1. PICK p : p = s.dentries[d].parent
    OBVIOUS
  <2>2. p \in 1 .. Len(s.dentries) /\ Kept(s, t, p)
    BY <1>1, <2>1 DEF Linked, Grows
  <2>3. d_lookup(s, p, s.dentries[d].name) = d /\ s.dentries[p].ino = "dir" /\ d # 0
    BY <1>1, <1>2, <2>1 DEF Found
  <2>4. d_lookup(t, p, s.dentries[d].name) = d
    BY <2>2, <2>3, LookupStable
  <2> QED BY <1>1, <1>2, <2>1, <2>2, <2>3, <2>4 DEF Found, Kept
<1>3. CASE s.dentries[d].parent = d /\ d = Root
  BY <1>1, <1>3 DEF Found, Kept
<1>4. CASE s.dentries[d].parent = d /\ d # Root
  <2>1. PICK m : m = s.dentries[d].sb
    OBVIOUS
  <2>2. PICK q : q = s.mounts[m].point
    OBVIOUS
  <2>3. m \in 1 .. Len(s.mounts) /\ Hung(s, m) /\ s.mounts[m].root = d
    BY <1>1, <1>4, <2>1 DEF Linked, FsOK
  <2>4. t.mounts[m].point = q /\ t.dentries[d].sb = m
    BY <1>1, <2>1, <2>2, <2>3 DEF Grows, Kept
  <2>5. m # 1
    BY <1>4, <2>3 DEF Hung, Root
  <2>6. q \in 1 .. Len(s.dentries)
    <3>1. q \in 1 .. d - 1
      BY <2>2, <2>3, <2>5 DEF Hung
    <3> QED BY <1>1, <3>1
  <2>7. s.dentries[q].parent # q /\ lookup_mnt(s, q) = m /\ m # 0
    BY <1>4, <2>1, <2>2, <2>3 DEF Found
  <2>8. lookup_mnt(t, q) = m /\ t.dentries[q].parent # q
    BY <2>6, <2>7, MountStable DEF Grows, Kept
  <2> QED BY <1>1, <1>4, <2>4, <2>8 DEF Found, Kept
<1> QED BY <1>2, <1>3, <1>4

-----------------------------------------------------------------------------
(* d_alloc(), with the count of ramfs_mkdir() or without it *)

\* t is s with a new dentry in p; k is what i_size gains: as a record, and field
\* by field for the old dentries, for p and for the new one.
AllocedAs(s, t, p, n, ino, k) ==
    /\ t \in FsTypes /\ t.mounts = s.mounts /\ t.pwd = s.pwd
    /\ Len(t.dentries) = Len(s.dentries) + 1
    /\ \A d \in 1 .. Len(s.dentries) : d # p => t.dentries[d] = s.dentries[d]
    /\ t.dentries[p] = [s.dentries[p] EXCEPT !.subs = Append(@, Len(s.dentries) + 1), !.i_size = @ + k]
    /\ t.dentries[Len(s.dentries) + 1] = NewDentry(n, p, s.dentries[p].sb, ino)

OldDentries(s, t, p) ==
    \A d \in 1 .. Len(s.dentries) :
       /\ t.dentries[d].name = s.dentries[d].name /\ t.dentries[d].parent = s.dentries[d].parent
       /\ t.dentries[d].sb = s.dentries[d].sb /\ t.dentries[d].ino = s.dentries[d].ino
       /\ d # p => t.dentries[d].subs = s.dentries[d].subs /\ t.dentries[d].i_size = s.dentries[d].i_size

ParentDentry(s, t, p, k) ==
    /\ Len(t.dentries[p].subs) = Len(s.dentries[p].subs) + 1
    /\ \A i \in 1 .. Len(s.dentries[p].subs) : t.dentries[p].subs[i] = s.dentries[p].subs[i]
    /\ t.dentries[p].subs[Len(s.dentries[p].subs) + 1] = Len(s.dentries) + 1
    /\ t.dentries[p].i_size = s.dentries[p].i_size + k

ChildDentry(s, t, p, n, ino) ==
    LET e == t.dentries[Len(s.dentries) + 1]
    IN  /\ e.name = n /\ e.parent = p /\ e.sb = s.dentries[p].sb /\ e.ino = ino
        /\ e.i_size = 0 /\ Len(e.subs) = 0

Alloced(s, t, p, n, ino, k) ==
    /\ t \in FsTypes /\ t.mounts = s.mounts /\ t.pwd = s.pwd
    /\ Len(t.dentries) = Len(s.dentries) + 1
    /\ OldDentries(s, t, p) /\ ParentDentry(s, t, p, k) /\ ChildDentry(s, t, p, n, ino)

LEMMA AllocIsAs ==
    ASSUME NEW s, FsOK(s), NEW p \in 1 .. Len(s.dentries), NEW n \in Names, NEW ino \in Inodes
    PROVE  /\ AllocedAs(s, d_alloc(s, p, n, ino), p, n, ino, 0)
           /\ AllocedAs(s, [d_alloc(s, p, n, ino) EXCEPT !.dentries[p].i_size = @ + 1], p, n, ino, 1)
<1>1. PICK q, L : q = s.dentries /\ L = Len(s.dentries)
  OBVIOUS
<1>2. /\ q \in Seq(Dentries) /\ L = Len(q) /\ L \in Nat /\ q[p] \in Dentries /\ p \in 1 .. L
  BY <1>1, DentryTypes DEF FsOK, FsTypes
<1>3. PICK new : new = NewDentry(n, p, q[p].sb, ino)
  OBVIOUS
<1>4. new \in Dentries
  BY <1>2, <1>3 DEF NewDentry, Dentries
<1>5. PICK e : e = [q[p] EXCEPT !.subs = Append(@, L + 1)]
  OBVIOUS
<1>6. e \in Dentries
  <2>1. q[p].subs \in Seq(Nat) /\ L + 1 \in Nat
    BY <1>2 DEF Dentries
  <2>2. Append(q[p].subs, L + 1) \in Seq(Nat)
    BY <2>1
  <2>3. PICK a : a = Append(q[p].subs, L + 1)
    OBVIOUS
  <2>4. e = [q[p] EXCEPT !.subs = a] /\ a \in Seq(Nat)
    BY <1>5, <2>2, <2>3
  <2> QED BY <1>2, <2>4 DEF Dentries
<1>7. PICK r : r = [q EXCEPT ![p] = e]
  OBVIOUS
<1>8. r \in Seq(Dentries) /\ Len(r) = L /\ r[p] = e /\ \A d \in 1 .. L : d # p => r[d] = q[d]
  BY <1>2, <1>6, <1>7
<1>9. PICK z : z = Append(r, new)
  OBVIOUS
<1>10. /\ z \in Seq(Dentries) /\ Len(z) = L + 1 /\ z[p] = e /\ z[L + 1] = new
       /\ \A d \in 1 .. L : d # p => z[d] = q[d]
  BY <1>2, <1>4, <1>8, <1>9, SMTT(40)
<1>11. PICK t : t = d_alloc(s, p, n, ino)
  OBVIOUS
<1>12. t = [s EXCEPT !.dentries = z]
  BY <1>1, <1>3, <1>5, <1>7, <1>9, <1>11 DEF d_alloc
<1>13. s \in FsTypes
  BY DEF FsOK
<1>14. /\ t \in FsTypes /\ t.dentries = z /\ t.mounts = s.mounts /\ t.pwd = s.pwd
  BY <1>10, <1>12, <1>13 DEF FsTypes
<1>15. AllocedAs(s, t, p, n, ino, 0)
  <2>1. q[p].i_size + 0 = q[p].i_size
    BY <1>2 DEF Dentries
  <2>2. PICK a : a = Append(q[p].subs, L + 1)
    OBVIOUS
  <2>3. e = [q[p] EXCEPT !.subs = a, !.i_size = q[p].i_size]
    BY <1>2, <1>5, <2>2 DEF Dentries
  <2>4. e = [q[p] EXCEPT !.subs = Append(@, L + 1), !.i_size = @ + 0]
    BY <2>1, <2>2, <2>3
  <2> QED BY <1>1, <1>3, <1>10, <1>14, <2>4 DEF AllocedAs
<1>16. PICK g : g = [e EXCEPT !.i_size = @ + 1]
  OBVIOUS
<1>17. g \in Dentries
  BY <1>6, <1>16, SMTT(40) DEF Dentries
<1>18. PICK y : y = [z EXCEPT ![p] = g]
  OBVIOUS
<1>19. /\ y \in Seq(Dentries) /\ Len(y) = L + 1 /\ y[p] = g /\ y[L + 1] = new
       /\ \A d \in 1 .. L : d # p => y[d] = q[d]
  BY <1>2, <1>10, <1>17, <1>18
<1>20. PICK u : u = [d_alloc(s, p, n, ino) EXCEPT !.dentries[p].i_size = @ + 1]
  OBVIOUS
<1>21. u = [t EXCEPT !.dentries = y]
  <2>1. z[p] = e
    BY <1>10
  <2>2. u = [t EXCEPT !.dentries = [t.dentries EXCEPT ![p] = [t.dentries[p] EXCEPT !.i_size = t.dentries[p].i_size + 1]]]
    BY <1>11, <1>20, <1>14 DEF FsTypes
  <2>3. g = [z[p] EXCEPT !.i_size = z[p].i_size + 1]
    BY <1>16, <2>1
  <2> QED BY <1>14, <1>18, <2>2, <2>3
<1>22. /\ u \in FsTypes /\ u.dentries = y /\ u.mounts = s.mounts /\ u.pwd = s.pwd
  BY <1>14, <1>19, <1>21 DEF FsTypes
<1>23. AllocedAs(s, u, p, n, ino, 1)
  <2>1. g = [q[p] EXCEPT !.subs = Append(@, L + 1), !.i_size = @ + 1]
    BY <1>2, <1>5, <1>16 DEF Dentries
  <2> QED BY <1>1, <1>3, <1>19, <1>22, <2>1 DEF AllocedAs
<1> QED BY <1>11, <1>15, <1>20, <1>23

\* The fields of the old dentries and of the new one.
LEMMA AllocFields ==
    ASSUME NEW s, NEW t, FsOK(s), NEW p \in 1 .. Len(s.dentries), NEW n \in Names, NEW ino \in Inodes,
           NEW k \in Nat, AllocedAs(s, t, p, n, ino, k)
    PROVE  Alloced(s, t, p, n, ino, k)
<1>1. PICK e : e = s.dentries[p]
  OBVIOUS
<1>2. PICK f : f = t.dentries[p]
  OBVIOUS
<1>3. e \in Dentries /\ Len(s.dentries) \in Nat
  BY <1>1, DentryTypes
<1>4. f = [e EXCEPT !.subs = Append(@, Len(s.dentries) + 1), !.i_size = @ + k]
  BY <1>1, <1>2 DEF AllocedAs
<1>5. /\ f.name = e.name /\ f.parent = e.parent /\ f.sb = e.sb /\ f.ino = e.ino /\ f.i_size = e.i_size + k
      /\ f.subs = Append(e.subs, Len(s.dentries) + 1) /\ e.subs \in Seq(Nat)
  BY <1>3, <1>4 DEF Dentries
<1>6. PICK l : l = Len(s.dentries) + 1
  OBVIOUS
<1>7. PICK q : q = e.subs
  OBVIOUS
<1>8. q \in Seq(Nat) /\ f.subs = Append(q, l)
  BY <1>5, <1>6, <1>7
<1>9. /\ Len(f.subs) = Len(q) + 1 /\ \A i \in 1 .. Len(q) : f.subs[i] = q[i]
      /\ f.subs[Len(q) + 1] = l
  BY <1>8
<1>10. \A d \in 1 .. Len(s.dentries) : d # p => t.dentries[d] = s.dentries[d]
  BY DEF AllocedAs
<1>11. PICK new : new = t.dentries[l]
  OBVIOUS
<1>12. new = NewDentry(n, p, s.dentries[p].sb, ino)
  BY <1>6, <1>11 DEF AllocedAs
<1>13. /\ new.name = n /\ new.parent = p /\ new.sb = s.dentries[p].sb /\ new.ino = ino
       /\ new.subs = <<>> /\ new.i_size = 0 /\ Len(new.subs) = 0
  BY <1>12 DEF NewDentry
<1>14. \A d \in 1 .. Len(s.dentries) :
                /\ t.dentries[d].name = s.dentries[d].name /\ t.dentries[d].parent = s.dentries[d].parent
                /\ t.dentries[d].sb = s.dentries[d].sb /\ t.dentries[d].ino = s.dentries[d].ino
                /\ d # p => t.dentries[d].subs = s.dentries[d].subs /\ t.dentries[d].i_size = s.dentries[d].i_size
  BY <1>1, <1>2, <1>5, <1>10, Zenon
<1>15. /\ Len(t.dentries[p].subs) = Len(s.dentries[p].subs) + 1
       /\ \A i \in 1 .. Len(s.dentries[p].subs) : t.dentries[p].subs[i] = s.dentries[p].subs[i]
       /\ t.dentries[p].subs[Len(s.dentries[p].subs) + 1] = l
       /\ t.dentries[p].i_size = s.dentries[p].i_size + k
  BY <1>1, <1>2, <1>5, <1>7, <1>9, Zenon
<1>16. OldDentries(s, t, p)
  BY <1>14, Zenon DEF OldDentries
<1>17. ParentDentry(s, t, p, k)
  BY <1>6, <1>15, Zenon DEF ParentDentry
<1>18. ChildDentry(s, t, p, n, ino)
  BY <1>6, <1>11, <1>13, Zenon DEF ChildDentry
<1>19. /\ t \in FsTypes /\ t.mounts = s.mounts /\ t.pwd = s.pwd
       /\ Len(t.dentries) = Len(s.dentries) + 1
  BY DEF AllocedAs
<1> QED BY <1>16, <1>17, <1>18, <1>19, Zenon DEF Alloced

LEMMA AllocIs ==
    ASSUME NEW s, FsOK(s), NEW p \in 1 .. Len(s.dentries), NEW n \in Names, NEW ino \in Inodes
    PROVE  /\ Alloced(s, d_alloc(s, p, n, ino), p, n, ino, 0)
           /\ Alloced(s, [d_alloc(s, p, n, ino) EXCEPT !.dentries[p].i_size = @ + 1], p, n, ino, 1)
<1>1. PICK t, u : /\ t = d_alloc(s, p, n, ino)
                  /\ u = [d_alloc(s, p, n, ino) EXCEPT !.dentries[p].i_size = @ + 1]
  OBVIOUS
<1>2. AllocedAs(s, t, p, n, ino, 0) /\ AllocedAs(s, u, p, n, ino, 1)
  BY <1>1, AllocIsAs
<1>3. Alloced(s, t, p, n, ino, 0) /\ Alloced(s, u, p, n, ino, 1)
  BY <1>2, AllocFields
<1> QED BY <1>1, <1>3

LEMMA AllocGrows ==
    ASSUME NEW s, NEW t, FsOK(s), NEW p \in 1 .. Len(s.dentries), NEW n \in Names, NEW ino \in Inodes,
           NEW k \in Nat, Alloced(s, t, p, n, ino, k)
    PROVE  Grows(s, t)
<1>1. Len(s.dentries) \in Nat /\ Len(s.mounts) \in Nat /\ Len(t.dentries) = Len(s.dentries) + 1 /\ t.mounts = s.mounts
  BY DentryTypes DEF Alloced
<1>2. ASSUME NEW d \in 1 .. Len(s.dentries)
      PROVE  Kept(s, t, d)
  <2>1. Len(s.dentries[d].subs) \in Nat
    BY DentryTypes
  <2>2. CASE d # p
    <3>1. t.dentries[d].subs = s.dentries[d].subs
      BY <2>2 DEF Alloced, OldDentries
    <3>2. Len(s.dentries[d].subs) <= Len(t.dentries[d].subs)
      BY <2>1, <3>1
    <3> QED BY <3>1, <3>2 DEF Kept, Alloced, OldDentries
  <2>3. CASE d = p
    <3>1. Len(t.dentries[d].subs) = Len(s.dentries[d].subs) + 1
      BY <2>3 DEF Alloced, ParentDentry
    <3>2. Len(s.dentries[d].subs) <= Len(t.dentries[d].subs)
      BY <2>1, <3>1
    <3> QED BY <2>3, <3>2 DEF Kept, Alloced, OldDentries, ParentDentry
  <2> QED BY <2>2, <2>3
<1> QED BY <1>1, <1>2 DEF Grows

LEMMA AllocLinked ==
    ASSUME NEW s, NEW t, FsOK(s), NEW p \in 1 .. Len(s.dentries), NEW n \in Names, NEW ino \in Inodes,
           NEW k \in Nat, Alloced(s, t, p, n, ino, k), NEW d \in 1 .. Len(t.dentries)
    PROVE  Linked(t, d)
<1> DEFINE N == Len(s.dentries)
<1>1. N \in Nat /\ Len(t.dentries) = N + 1 /\ t.mounts = s.mounts /\ p \in 1 .. N
  BY DentryTypes DEF Alloced
<1> HIDE DEF N
<1>2. CASE d = N + 1
  <2>1. Linked(s, p) /\ N + 1 # p
    BY <1>1 DEF FsOK, N
  <2>2. /\ t.dentries[d].name = n /\ t.dentries[d].parent = p /\ t.dentries[d].sb = s.dentries[p].sb
        /\ Len(t.dentries[d].subs) = 0 /\ t.dentries[p].sb = s.dentries[p].sb
    BY <1>2 DEF N, Alloced, OldDentries, ChildDentry
  <2>3. PICK l : l = Len(s.dentries[p].subs) + 1
    OBVIOUS
  <2>4. l \in Nat /\ l >= 1 /\ Len(t.dentries[p].subs) = l /\ t.dentries[p].subs[l] = d
    BY <1>2, <2>3, DentryTypes DEF N, Alloced, ParentDentry
  <2>5. \E i \in 1 .. Len(t.dentries[p].subs) : t.dentries[p].subs[i] = d
    <3>1. l \in 1 .. Len(t.dentries[p].subs)
      BY <2>4
    <3> QED BY <2>4, <3>1
  <2>6. s.dentries[p].sb \in 1 .. Len(t.mounts) /\ p \in 1 .. d
    BY <1>1, <1>2, <2>1 DEF Linked
  <2> QED BY <1>1, <1>2, <2>1, <2>2, <2>5, <2>6 DEF Linked
<1>3. CASE d \in 1 .. N
  <2>1. Linked(s, d) /\ Kept(s, t, d) /\ Grows(s, t)
    BY <1>3, AllocGrows DEF FsOK, Grows, N
  <2>2. PICK q : q = s.dentries[d].parent
    OBVIOUS
  <2>3. q \in 1 .. d /\ q \in 1 .. N /\ t.dentries[d].parent = q
    BY <1>1, <1>3, <2>1, <2>2 DEF Linked, Kept
  <2>4. Kept(s, t, q)
    BY <2>1, <2>3 DEF Grows, N
  <2>5. /\ t.dentries[d].sb \in 1 .. Len(t.mounts) /\ t.dentries[q].sb = t.dentries[d].sb
        /\ q = d => t.mounts[t.dentries[d].sb].root = d
    BY <1>1, <2>1, <2>2, <2>4 DEF Linked, Kept
  <2>6. ASSUME q # d
        PROVE  /\ t.dentries[d].name \in Names
               /\ \E i \in 1 .. Len(t.dentries[q].subs) : t.dentries[q].subs[i] = d
    <3>1. PICK i \in 1 .. Len(s.dentries[q].subs) : s.dentries[q].subs[i] = d
      BY <2>1, <2>2, <2>6 DEF Linked
    <3>2. s.dentries[d].name \in Names
      BY <2>1, <2>2, <2>6 DEF Linked
    <3>3. Len(s.dentries[q].subs) \in Nat /\ Len(t.dentries[q].subs) \in Nat
      <4>1. t.dentries \in Seq(Dentries) /\ q \in 1 .. Len(t.dentries)
        BY <1>1, <2>3 DEF Alloced, FsTypes
      <4>2. t.dentries[q] \in Dentries
        BY <4>1
      <4>3. t.dentries[q].subs \in Seq(Nat)
        BY <4>2 DEF Dentries
      <4>4. Len(s.dentries[q].subs) \in Nat
        BY <2>3, DentryTypes DEF N
      <4> QED BY <4>3, <4>4
    <3>4. i \in 1 .. Len(t.dentries[q].subs)
      <4>1. PICK a, b : a = Len(s.dentries[q].subs) /\ b = Len(t.dentries[q].subs)
        OBVIOUS
      <4>2. a \in Nat /\ b \in Nat /\ i \in 1 .. a /\ a <= b
        BY <2>4, <3>1, <3>3, <4>1, Zenon DEF Kept
      <4>3. i \in 1 .. b
        BY <4>2
      <4> QED BY <4>1, <4>3
    <3> QED BY <2>1, <2>4, <3>1, <3>2, <3>4 DEF Kept
  <2>7. \A i \in 1 .. Len(s.dentries[d].subs) : /\ s.dentries[d].subs[i] \in d + 1 .. N
                                                /\ t.dentries[s.dentries[d].subs[i]].parent = d
    <3> TAKE i \in 1 .. Len(s.dentries[d].subs)
    <3>1. s.dentries[d].subs[i] \in d + 1 .. N /\ s.dentries[d].subs[i] \in 1 .. N
          /\ s.dentries[s.dentries[d].subs[i]].parent = d
      BY <1>3, ChildFacts DEF N
    <3> QED BY <3>1 DEF N, Alloced, OldDentries
  <2>8. \A i, j \in 1 .. Len(s.dentries[d].subs) : i < j => s.dentries[d].subs[i] < s.dentries[d].subs[j]
    BY <2>1 DEF Linked
  <2>9. /\ \A i \in 1 .. Len(t.dentries[d].subs) : /\ t.dentries[d].subs[i] \in d + 1 .. N + 1
                                                   /\ t.dentries[t.dentries[d].subs[i]].parent = d
        /\ \A i, j \in 1 .. Len(t.dentries[d].subs) : i < j => t.dentries[d].subs[i] < t.dentries[d].subs[j]
    <3>1. CASE d # p
      <4>1. t.dentries[d].subs = s.dentries[d].subs
        BY <1>3, <3>1 DEF N, Alloced, OldDentries
      <4>2. \A x \in d + 1 .. N : x \in d + 1 .. N + 1
        BY <1>1, <1>3
      <4> QED BY <2>7, <2>8, <4>1, <4>2
    <3>2. CASE d = p
      <4>1. PICK l, a, b : l = Len(s.dentries[d].subs) /\ a = s.dentries[d].subs /\ b = t.dentries[d].subs
        OBVIOUS
      <4>2. l \in Nat /\ Len(b) = l + 1 /\ \A i \in 1 .. l : b[i] = a[i]
        BY <1>3, <3>2, <4>1, DentryTypes DEF N, Alloced, ParentDentry
      <4>3. b[l + 1] = N + 1 /\ t.dentries[N + 1].parent = d
        BY <3>2, <4>1 DEF N, Alloced, ParentDentry, ChildDentry
      <4>4. \A i \in 1 .. l : a[i] \in d + 1 .. N /\ t.dentries[a[i]].parent = d
        BY <2>7, <4>1
      <4>5. \A i, j \in 1 .. l : i < j => a[i] < a[j]
        BY <2>8, <4>1
      <4>6. \A i \in 1 .. l + 1 : i \in 1 .. l \/ i = l + 1
        BY <4>2
      <4>7. \A i \in 1 .. l + 1 : b[i] \in d + 1 .. N + 1 /\ t.dentries[b[i]].parent = d
        BY <1>1, <1>3, <4>2, <4>3, <4>4, <4>6, SMTT(40)
      <4>8. \A i, j \in 1 .. l + 1 : i < j => b[i] < b[j]
        <5> TAKE i, j \in 1 .. l + 1
        <5>1. HAVE i < j
        <5>2. i \in 1 .. l /\ a[i] \in d + 1 .. N
          BY <4>2, <4>4, <5>1
        <5>3. CASE j = l + 1
          BY <1>1, <1>3, <4>2, <4>3, <5>2, <5>3
        <5>4. CASE j \in 1 .. l
          BY <4>2, <4>5, <5>1, <5>2, <5>4
        <5> QED BY <4>6, <5>3, <5>4
      <4> QED BY <4>1, <4>2, <4>7, <4>8, Zenon
    <3> QED BY <3>1, <3>2
  <2> QED BY <1>1, <2>3, <2>5, <2>6, <2>9 DEF Linked
<1>4. d \in 1 .. N \/ d = N + 1
  BY <1>1
<1> QED BY <1>2, <1>3, <1>4

LEMMA AllocFs ==
    ASSUME NEW s, NEW t, FsOK(s), NEW p \in 1 .. Len(s.dentries), NEW n \in Names, NEW ino \in Inodes,
           NEW k \in Nat, Alloced(s, t, p, n, ino, k)
    PROVE  FsOK(t) /\ Grows(s, t)
<1>1. /\ Len(s.dentries) \in Nat /\ Len(t.dentries) = Len(s.dentries) + 1
      /\ t.mounts = s.mounts /\ t.pwd = s.pwd /\ t \in FsTypes
  BY DentryTypes DEF Alloced
<1>2. \A d \in 1 .. Len(t.dentries) : Linked(t, d)
  BY AllocLinked
<1>3. \A d \in 1 .. Len(s.dentries) : /\ d \in 1 .. Len(t.dentries) /\ t.dentries[d].sb = s.dentries[d].sb
                                      /\ t.dentries[d].parent = s.dentries[d].parent
  BY <1>1 DEF Alloced, OldDentries
<1>4. At(t, t.pwd)
  BY <1>1, <1>3 DEF FsOK, At
<1>5. ASSUME NEW m \in 1 .. Len(t.mounts)
      PROVE  Hung(t, m)
  <2>1. Hung(s, m) /\ s.mounts[m].root \in 1 .. Len(s.dentries)
    BY <1>1, <1>5 DEF FsOK, Hung
  <2>2. PICK x, r : x = s.mounts[m] /\ r = x.root
    OBVIOUS
  <2>3. ASSUME m # 1 PROVE x.point \in 1 .. Len(s.dentries)
    <3>1. x.point \in 1 .. r - 1 /\ r \in 1 .. Len(s.dentries)
      BY <2>1, <2>2, <2>3 DEF Hung
    <3> QED BY <1>1, <3>1
  <2> QED BY <1>1, <1>3, <2>1, <2>2, <2>3 DEF Hung
<1>6. Len(t.mounts) >= 1
  BY <1>1 DEF FsOK
<1> QED BY <1>1, <1>2, <1>4, <1>5, <1>6, AllocGrows DEF FsOK

LEMMA AllocSized ==
    ASSUME NEW s, NEW t, FsOK(s), Sized(s), NEW p \in 1 .. Len(s.dentries), NEW n \in Names, NEW ino \in Inodes,
           NEW k \in {0, 1}, Alloced(s, t, p, n, ino, k),
           Type(s, p) # "ext4" => (k = 1 <=> ino # "none")
    PROVE  Sized(t)
<1> DEFINE N == Len(s.dentries)
<1>1. N \in Nat /\ Len(t.dentries) = N + 1 /\ t.mounts = s.mounts /\ p \in 1 .. N
  BY DentryTypes DEF Alloced
<1> HIDE DEF N
<1> SUFFICES ASSUME NEW d \in 1 .. N + 1, Type(t, d) # "ext4"
             PROVE  t.dentries[d].i_size = Cardinality(Entries(t, d))
  BY <1>1 DEF Sized
<1>2. CASE d = N + 1
  <2>1. Len(t.dentries[d].subs) = 0 /\ t.dentries[d].i_size = 0
    BY <1>2 DEF N, Alloced, ChildDentry
  <2>2. Entries(t, d) = {}
    BY <2>1 DEF Entries
  <2> QED BY <2>1, <2>2, FS_EmptySet
<1>3. ASSUME d \in 1 .. N
      PROVE  /\ Type(s, d) # "ext4" /\ s.dentries[d].i_size = Cardinality(Entries(s, d))
             /\ Len(s.dentries[d].subs) \in Nat
             /\ \A i \in 1 .. Len(s.dentries[d].subs) :
                  t.dentries[s.dentries[d].subs[i]].ino = s.dentries[s.dentries[d].subs[i]].ino
  <2>1. t.dentries[d].sb = s.dentries[d].sb
    BY <1>3 DEF N, Alloced, OldDentries
  <2>2. Type(s, d) # "ext4"
    BY <1>1, <2>1 DEF Type
  <2>3. \A i \in 1 .. Len(s.dentries[d].subs) : s.dentries[d].subs[i] \in 1 .. N
    BY <1>3, ChildFacts DEF N
  <2>4. \A e \in 1 .. N : t.dentries[e].ino = s.dentries[e].ino
    BY DEF N, Alloced, OldDentries
  <2>5. s.dentries[d].i_size = Cardinality(Entries(s, d))
    BY <1>3, <2>2 DEF Sized, N
  <2>6. Len(s.dentries[d].subs) \in Nat
    BY <1>3, DentryTypes DEF N
  <2> QED BY <2>2, <2>3, <2>4, <2>5, <2>6
<1>4. CASE d \in 1 .. N /\ d # p
  <2>1. t.dentries[d].subs = s.dentries[d].subs /\ t.dentries[d].i_size = s.dentries[d].i_size
    BY <1>4 DEF N, Alloced, OldDentries
  <2>2. Entries(t, d) = Entries(s, d)
    BY <1>3, <1>4, <2>1 DEF Entries
  <2> QED BY <1>3, <1>4, <2>1, <2>2
<1>5. CASE d = p
  <2>1. PICK l, a, b : l = Len(s.dentries[d].subs) /\ a = s.dentries[d].subs /\ b = t.dentries[d].subs
    OBVIOUS
  <2>2. l \in Nat /\ d \in 1 .. N
    BY <1>1, <1>3, <1>5, <2>1
  <2>3. /\ Len(b) = l + 1 /\ \A i \in 1 .. l : b[i] = a[i]
        /\ b[l + 1] = N + 1 /\ t.dentries[d].i_size = s.dentries[d].i_size + k
    BY <1>5, <2>1 DEF N, Alloced, ParentDentry
  <2>4. t.dentries[N + 1].ino = ino
    BY DEF N, Alloced, ChildDentry
  <2>5. \A i \in 1 .. l : t.dentries[a[i]].ino = s.dentries[a[i]].ino
    BY <1>3, <2>1, <2>2
  <2>6. Type(s, d) # "ext4" /\ s.dentries[d].i_size = Cardinality(Entries(s, d))
    BY <1>3, <2>2
  <2>7. Entries(s, d) = {i \in 1 .. l : s.dentries[a[i]].ino # "none"}
    BY <2>1 DEF Entries
  <2>8. Entries(t, d) = {i \in 1 .. l + 1 : t.dentries[b[i]].ino # "none"}
    BY <2>1, <2>3 DEF Entries
  <2>9. 1 .. l + 1 = (1 .. l) \cup {l + 1} /\ l + 1 \notin 1 .. l
    BY <2>2
  <2>10. PICK X : X = Entries(s, d)
    OBVIOUS
  <2>11. IsFiniteSet(X) /\ l + 1 \notin X
    <3>1. IsFiniteSet(1 .. l) /\ X \subseteq 1 .. l
      BY <2>2, <2>7, <2>10, FS_Interval
    <3>2. IsFiniteSet(X)
      BY <3>1, FS_Subset
    <3> QED BY <2>9, <3>1, <3>2
  <2>12. CASE ino = "none"
    <3>1. Entries(t, d) = X
      BY <2>3, <2>4, <2>5, <2>7, <2>8, <2>9, <2>10, <2>12, SMTT(40)
    <3>2. k = 0
      BY <1>5, <2>6, <2>12
    <3>3. Cardinality(X) \in Nat
      BY <2>11, FS_CardinalityType
    <3> QED BY <2>3, <2>6, <2>10, <3>1, <3>2, <3>3
  <2>13. CASE ino # "none"
    <3>1. Entries(t, d) = X \cup {l + 1}
      BY <2>3, <2>4, <2>5, <2>7, <2>8, <2>9, <2>10, <2>13, SMTT(40)
    <3>2. k = 1
      BY <1>5, <2>6, <2>13
    <3>3. Cardinality(X \cup {l + 1}) = Cardinality(X) + 1
      BY <2>11, FS_AddElement
    <3> QED BY <2>3, <2>6, <2>10, <3>1, <3>2, <3>3
  <2> QED BY <2>12, <2>13
<1>6. d \in 1 .. N \/ d = N + 1
  BY <1>1
<1> QED BY <1>2, <1>4, <1>5, <1>6

LEMMA AllocTree ==
    ASSUME NEW s, NEW t, Tree(s), NEW p \in 1 .. Len(s.dentries), Found(s, p), NEW n \in Names,
           NEW ino \in Inodes, NEW k \in {0, 1}, Alloced(s, t, p, n, ino, k),
           Type(s, p) # "ext4" => (k = 1 <=> ino # "none")
    PROVE  Tree(t) /\ Grows(s, t)
<1>1. FsOK(s) /\ Walked(s) /\ Sized(s)
  BY DEF Tree
<1>2. FsOK(t) /\ Grows(s, t)
  BY <1>1, AllocFs
<1>3. Sized(t)
  BY <1>1, AllocSized
<1>4. \A d \in 1 .. Len(s.dentries) : Found(s, d) => Found(t, d)
  BY <1>1, <1>2, FoundStable
<1>5. /\ Len(t.dentries) = Len(s.dentries) + 1 /\ t.mounts = s.mounts /\ t.pwd = s.pwd
      /\ Len(s.dentries) \in Nat /\ Len(s.mounts) \in Nat
  BY <1>1, DentryTypes DEF Alloced
<1>6. ASSUME NEW d \in 1 .. Len(t.dentries), t.dentries[d].parent # d
      PROVE  Found(t, t.dentries[d].parent)
  <2>1. CASE d = Len(s.dentries) + 1
    <3>1. t.dentries[d].parent = p
      BY <2>1 DEF Alloced, ChildDentry
    <3> QED BY <1>4, <3>1
  <2>2. CASE d \in 1 .. Len(s.dentries)
    <3>1. t.dentries[d].parent = s.dentries[d].parent
      BY <2>2 DEF Alloced, OldDentries
    <3>2. Found(s, s.dentries[d].parent)
      BY <1>1, <1>6, <2>2, <3>1 DEF Walked
    <3>3. s.dentries[d].parent \in 1 .. Len(s.dentries)
      <4>1. Linked(s, d)
        BY <1>1, <2>2 DEF FsOK
      <4>2. s.dentries[d].parent \in 1 .. d
        BY <4>1 DEF Linked
      <4> QED BY <1>5, <2>2, <4>2
    <3> QED BY <1>4, <3>1, <3>2, <3>3
  <2> QED BY <1>5, <2>1, <2>2
<1>7. ASSUME NEW m \in 2 .. Len(t.mounts)
      PROVE  Found(t, t.mounts[m].point)
  <2>1. m \in 1 .. Len(s.mounts) /\ m # 1 /\ m \in 2 .. Len(s.mounts)
    BY <1>5
  <2>2. Hung(s, m) /\ Found(s, s.mounts[m].point)
    BY <1>1, <2>1 DEF FsOK, Walked
  <2>3. s.mounts[m].point \in 1 .. Len(s.dentries)
    <3>1. s.mounts[m].point \in 1 .. s.mounts[m].root - 1 /\ s.mounts[m].root \in 1 .. Len(s.dentries)
      BY <2>1, <2>2 DEF Hung
    <3> QED BY <1>5, <3>1, SMTT(40)
  <2> QED BY <1>4, <1>5, <2>2, <2>3
<1>8. Found(t, t.pwd.dentry)
  BY <1>1, <1>4, <1>5 DEF Walked, FsOK, At
<1> QED BY <1>2, <1>3, <1>6, <1>7, <1>8 DEF Tree, Walked

-----------------------------------------------------------------------------
(* add_mount() *)

NewRoot(e, root, sb) ==
    /\ e.name = "/" /\ e.parent = root /\ e.sb = sb /\ e.ino = "dir" /\ e.i_size = 0 /\ Len(e.subs) = 0

\* t is s with a new mount at a place.
Mounted(s, t, at, type) ==
    /\ t \in FsTypes /\ t.pwd = s.pwd
    /\ Len(t.dentries) = Len(s.dentries) + 1 /\ Len(t.mounts) = Len(s.mounts) + 1
    /\ \A d \in 1 .. Len(s.dentries) : t.dentries[d] = s.dentries[d]
    /\ \A m \in 1 .. Len(s.mounts) : t.mounts[m] = s.mounts[m]
    /\ NewRoot(t.dentries[Len(s.dentries) + 1], Len(s.dentries) + 1, Len(s.mounts) + 1)
    /\ t.mounts[Len(s.mounts) + 1] = [point |-> at.dentry, parent |-> at.mnt,
                                      root |-> Len(s.dentries) + 1, type |-> type]

LEMMA MountIs ==
    ASSUME NEW s \in FsTypes, NEW at \in Places, NEW type \in Types
    PROVE  Mounted(s, add_mount(s, at, type), at, type)
<1>1. PICK q, r, L, K : q = s.dentries /\ r = s.mounts /\ L = Len(s.dentries) + 1 /\ K = Len(s.mounts) + 1
  OBVIOUS
<1>2. q \in Seq(Dentries) /\ r \in Seq(Mounts) /\ L = Len(q) + 1 /\ K = Len(r) + 1
  BY <1>1 DEF FsTypes
<1>3. PICK new, x : /\ new = NewDentry("/", L, K, "dir")
                    /\ x = [point |-> at.dentry, parent |-> at.mnt, root |-> L, type |-> type]
  OBVIOUS
<1>4. L \in Nat /\ K \in Nat
  BY <1>2
<1>5. new \in Dentries /\ NewRoot(new, L, K)
  BY <1>3, <1>4 DEF NewDentry, Dentries, NewRoot, Inodes
<1>6. x \in Mounts
  BY <1>3, <1>4 DEF Places, Mounts
<1>7. PICK y, z : y = Append(q, new) /\ z = Append(r, x)
  OBVIOUS
<1>8. y \in Seq(Dentries) /\ Len(y) = L /\ y[L] = new /\ \A d \in 1 .. Len(q) : y[d] = q[d]
  BY <1>2, <1>5, <1>7
<1>9. z \in Seq(Mounts) /\ Len(z) = K /\ z[K] = x /\ \A m \in 1 .. Len(r) : z[m] = r[m]
  BY <1>2, <1>6, <1>7
<1>10. PICK t : t = add_mount(s, at, type)
  OBVIOUS
<1>11. t = [s EXCEPT !.dentries = y, !.mounts = z]
  BY <1>1, <1>3, <1>7, <1>10 DEF add_mount
<1>12. t \in FsTypes /\ t.dentries = y /\ t.mounts = z /\ t.pwd = s.pwd
  BY <1>8, <1>9, <1>11 DEF FsTypes
<1>13. Mounted(s, t, at, type)
  BY <1>1, <1>3, <1>5, <1>8, <1>9, <1>12 DEF Mounted
<1> QED BY <1>10, <1>13

LEMMA MountFs ==
    ASSUME NEW s, NEW t, FsOK(s), NEW at, At(s, at), NEW type \in Types, Mounted(s, t, at, type)
    PROVE  FsOK(t) /\ Grows(s, t)
<1>1. PICK N, M : N = Len(s.dentries) /\ M = Len(s.mounts)
  OBVIOUS
<1>2. /\ N \in Nat /\ M \in Nat /\ M >= 1 /\ Len(t.dentries) = N + 1 /\ Len(t.mounts) = M + 1
      /\ t \in FsTypes /\ t.pwd = s.pwd
  BY <1>1, DentryTypes DEF Mounted, FsOK
<1>3. (\A d \in 1 .. N : t.dentries[d] = s.dentries[d]) /\ \A m \in 1 .. M : t.mounts[m] = s.mounts[m]
  BY <1>1 DEF Mounted
<1>4. NewRoot(t.dentries[N + 1], N + 1, M + 1)
  BY <1>1 DEF Mounted
<1>5. /\ t.mounts[M + 1].point = at.dentry /\ t.mounts[M + 1].parent = at.mnt
      /\ t.mounts[M + 1].root = N + 1
  BY <1>1 DEF Mounted
<1>6. at.dentry \in 1 .. N /\ s.dentries[at.dentry].sb = at.mnt
  BY <1>1 DEF At
<1>7. ASSUME NEW d \in 1 .. N
      PROVE  Linked(t, d)
  <2>1. Linked(s, d) /\ t.dentries[d] = s.dentries[d]
    BY <1>1, <1>3 DEF FsOK
  <2>2. PICK e : e = s.dentries[d]
    OBVIOUS
  <2>3. e.sb \in 1 .. M /\ e.parent \in 1 .. d /\ e.parent \in 1 .. N
    BY <1>1, <1>2, <2>1, <2>2 DEF Linked
  <2>4. t.mounts[e.sb] = s.mounts[e.sb] /\ t.dentries[e.parent] = s.dentries[e.parent] /\ e.sb \in 1 .. M + 1
    BY <1>2, <1>3, <2>3, SMTT(40)
  <2>5. \A i \in 1 .. Len(e.subs) : /\ e.subs[i] \in d + 1 .. N + 1
                                    /\ t.dentries[e.subs[i]].parent = d
    <3> TAKE i \in 1 .. Len(e.subs)
    <3>1. e.subs[i] \in d + 1 .. N /\ e.subs[i] \in 1 .. N /\ s.dentries[e.subs[i]].parent = d
      BY <1>1, <2>2, ChildFacts
    <3> QED BY <1>2, <1>3, <3>1
  <2>6. /\ s.dentries[e.parent].sb = e.sb
        /\ e.parent = d => s.mounts[e.sb].root = d
        /\ e.parent # d => /\ e.name \in Names
                           /\ \E i \in 1 .. Len(s.dentries[e.parent].subs) : s.dentries[e.parent].subs[i] = d
        /\ \A i, j \in 1 .. Len(e.subs) : i < j => e.subs[i] < e.subs[j]
    BY <2>1, <2>2 DEF Linked
  <2> QED BY <1>2, <2>1, <2>2, <2>3, <2>4, <2>5, <2>6 DEF Linked
<1>8. Linked(t, N + 1)
  <2>1. M + 1 \in 1 .. Len(t.mounts) /\ N + 1 \in 1 .. N + 1
    BY <1>2
  <2>2. PICK e : e = t.dentries[N + 1]
    OBVIOUS
  <2>3. e.parent = N + 1 /\ e.sb = M + 1 /\ Len(e.subs) = 0
    BY <1>4, <2>2 DEF NewRoot
  <2> QED BY <1>5, <2>1, <2>2, <2>3 DEF Linked
<1>9. ASSUME NEW m \in 1 .. M
      PROVE  Hung(t, m)
  <2>1. Hung(s, m) /\ t.mounts[m] = s.mounts[m]
    BY <1>1, <1>3 DEF FsOK
  <2>2. PICK x, r : x = s.mounts[m] /\ r = x.root
    OBVIOUS
  <2>3. r \in 1 .. N
    BY <1>1, <2>1, <2>2 DEF Hung
  <2>4. ASSUME m # 1 PROVE x.point \in 1 .. N
    <3>1. x.point \in 1 .. r - 1
      BY <2>1, <2>2, <2>4 DEF Hung
    <3> QED BY <1>2, <2>3, <3>1
  <2>5. r \in 1 .. Len(t.dentries)
    BY <1>2, <2>3
  <2> QED BY <1>3, <2>1, <2>2, <2>3, <2>4, <2>5 DEF Hung
<1>10. Hung(t, M + 1)
  <2>1. PICK x : x = t.mounts[M + 1]
    OBVIOUS
  <2>2. x.point = at.dentry /\ x.parent = at.mnt /\ x.root = N + 1
    BY <1>5, <2>1
  <2>3. t.dentries[N + 1].sb = M + 1 /\ t.dentries[N + 1].parent = N + 1
    BY <1>4 DEF NewRoot
  <2>4. at.mnt \in 1 .. M
    <3>1. Linked(s, at.dentry)
      BY <1>1, <1>6 DEF FsOK
    <3> QED BY <1>1, <1>6, <3>1 DEF Linked
  <2>5. /\ M + 1 # 1 /\ N + 1 \in 1 .. Len(t.dentries) /\ at.mnt \in 1 .. M + 1 - 1
        /\ at.dentry \in 1 .. N + 1 - 1
    BY <1>2, <1>6, <2>4
  <2>6. t.dentries[at.dentry].sb = at.mnt
    BY <1>3, <1>6
  <2>7. PICK r, m : r = N + 1 /\ m = M + 1
    OBVIOUS
  <2>8. /\ x = t.mounts[m] /\ x.point = at.dentry /\ x.parent = at.mnt /\ x.root = r
        /\ t.dentries[r].sb = m /\ t.dentries[r].parent = r
    BY <2>1, <2>2, <2>3, <2>7, Zenon
  <2>9. m # 1 /\ r \in 1 .. Len(t.dentries) /\ at.mnt \in 1 .. m - 1 /\ at.dentry \in 1 .. r - 1
    <3>1. m - 1 = M /\ r - 1 = N /\ m # 1 /\ r \in 1 .. N + 1
      BY <1>2, <2>7
    <3> QED BY <1>2, <1>6, <2>4, <3>1, Zenon
  <2>10. Hung(t, m)
    BY <2>6, <2>8, <2>9, Zenon DEF Hung
  <2> QED BY <2>7, <2>10
<1>11. At(t, t.pwd)
  <2>1. At(s, s.pwd)
    BY DEF FsOK
  <2>2. s.pwd.dentry \in 1 .. N
    BY <1>1, <2>1 DEF At
  <2>3. s.pwd.dentry \in 1 .. Len(t.dentries)
    BY <1>2, <2>2
  <2> QED BY <1>2, <1>3, <2>1, <2>2, <2>3 DEF At
<1>12. FsOK(t)
  <2>1. \A d \in 1 .. N + 1 : d \in 1 .. N \/ d = N + 1
    BY <1>2
  <2>2. \A m \in 1 .. M + 1 : m \in 1 .. M \/ m = M + 1
    BY <1>2
  <2>3. \A d \in 1 .. Len(t.dentries) : Linked(t, d)
    BY <1>2, <1>7, <1>8, <2>1
  <2>4. \A m \in 1 .. Len(t.mounts) : Hung(t, m)
    BY <1>2, <1>9, <1>10, <2>2
  <2>5. Len(t.mounts) >= 1
    BY <1>2
  <2> QED BY <1>2, <1>11, <2>3, <2>4, <2>5 DEF FsOK
<1>13. Grows(s, t)
  <2>1. ASSUME NEW d \in 1 .. N PROVE Kept(s, t, d)
    <3>1. Len(s.dentries[d].subs) \in Nat /\ t.dentries[d] = s.dentries[d]
      BY <1>1, <1>3, DentryTypes
    <3>2. Len(s.dentries[d].subs) <= Len(s.dentries[d].subs)
      BY <3>1
    <3> QED BY <3>1, <3>2 DEF Kept
  <2> QED BY <1>1, <1>2, <1>3, <2>1 DEF Grows
<1> QED BY <1>12, <1>13

LEMMA MountTree ==
    ASSUME NEW s, NEW t, Tree(s), NEW at, At(s, at), Found(s, at.dentry), NEW type \in Types,
           Mounted(s, t, at, type)
    PROVE  Tree(t) /\ Grows(s, t)
<1>1. FsOK(s) /\ Walked(s) /\ Sized(s)
  BY DEF Tree
<1>2. FsOK(t) /\ Grows(s, t)
  BY <1>1, MountFs
<1>3. PICK N, M : N = Len(s.dentries) /\ M = Len(s.mounts)
  OBVIOUS
<1>4. /\ N \in Nat /\ M \in Nat /\ Len(t.dentries) = N + 1 /\ Len(t.mounts) = M + 1 /\ t.pwd = s.pwd
  BY <1>1, <1>3, DentryTypes DEF Mounted
<1>5. (\A d \in 1 .. N : t.dentries[d] = s.dentries[d]) /\ \A m \in 1 .. M : t.mounts[m] = s.mounts[m]
  BY <1>3 DEF Mounted
<1>6. NewRoot(t.dentries[N + 1], N + 1, M + 1)
  BY <1>3 DEF Mounted
<1>7. \A d \in 1 .. N : Found(s, d) => Found(t, d)
  BY <1>1, <1>2, <1>3, FoundStable
<1>8. \A d \in 1 .. N + 1 : d \in 1 .. N \/ d = N + 1
  BY <1>4
<1>9. Walked(t)
  <2>1. ASSUME NEW d \in 1 .. N + 1, t.dentries[d].parent # d
        PROVE  Found(t, t.dentries[d].parent)
    <3>1. d \in 1 .. N
      BY <1>6, <1>8, <2>1 DEF NewRoot
    <3>2. Linked(s, d) /\ t.dentries[d] = s.dentries[d]
      BY <1>1, <1>3, <1>5, <3>1 DEF FsOK
    <3>3. s.dentries[d].parent \in 1 .. d
      BY <3>2 DEF Linked
    <3>4. s.dentries[d].parent \in 1 .. N
      BY <1>4, <3>1, <3>3
    <3>5. Found(s, s.dentries[d].parent)
      BY <1>1, <1>3, <2>1, <3>1, <3>2 DEF Walked
    <3> QED BY <1>7, <3>2, <3>4, <3>5
  <2>2. ASSUME NEW m \in 2 .. M + 1
        PROVE  Found(t, t.mounts[m].point)
    <3>1. CASE m = M + 1
      <4>1. t.mounts[m].point = at.dentry
        BY <1>3, <3>1 DEF Mounted
      <4> QED BY <1>3, <1>7, <4>1 DEF At
    <3>2. CASE m # M + 1
      <4>1. m \in 1 .. M /\ m # 1 /\ m \in 2 .. M
        BY <1>4, <3>2
      <4>2. Hung(s, m) /\ Found(s, s.mounts[m].point)
        BY <1>1, <1>3, <4>1 DEF FsOK, Walked
      <4>3. s.mounts[m].point \in 1 .. N
        <5>1. s.mounts[m].point \in 1 .. s.mounts[m].root - 1 /\ s.mounts[m].root \in 1 .. N
          BY <1>3, <4>1, <4>2 DEF Hung
        <5> QED BY <1>4, <5>1
      <4> QED BY <1>5, <1>7, <4>1, <4>2, <4>3
    <3> QED BY <3>1, <3>2
  <2>3. Found(t, t.pwd.dentry)
    BY <1>1, <1>3, <1>4, <1>7 DEF Walked, FsOK, At
  <2> QED BY <1>4, <2>1, <2>2, <2>3 DEF Walked
<1>10. Sized(t)
  <2> SUFFICES ASSUME NEW d \in 1 .. N + 1, Type(t, d) # "ext4"
               PROVE  t.dentries[d].i_size = Cardinality(Entries(t, d))
    BY <1>4 DEF Sized
  <2>1. CASE d = N + 1
    <3>1. Len(t.dentries[d].subs) = 0 /\ t.dentries[d].i_size = 0
      BY <1>6, <2>1 DEF NewRoot
    <3>2. Entries(t, d) = {}
      BY <3>1 DEF Entries
    <3> QED BY <3>1, <3>2, FS_EmptySet
  <2>2. CASE d \in 1 .. N
    <3>1. t.dentries[d] = s.dentries[d] /\ Linked(s, d)
      BY <1>1, <1>3, <1>5, <2>2 DEF FsOK
    <3>2. t.mounts[s.dentries[d].sb] = s.mounts[s.dentries[d].sb]
      BY <1>3, <1>5, <3>1 DEF Linked
    <3>3. Type(s, d) # "ext4"
      BY <3>1, <3>2 DEF Type
    <3>4. \A i \in 1 .. Len(s.dentries[d].subs) :
             t.dentries[s.dentries[d].subs[i]] = s.dentries[s.dentries[d].subs[i]]
      BY <1>1, <1>3, <1>5, <2>2, ChildFacts
    <3>5. Entries(t, d) = Entries(s, d)
      BY <3>1, <3>4 DEF Entries
    <3> QED BY <1>1, <1>3, <2>2, <3>1, <3>3, <3>5 DEF Sized
  <2> QED BY <1>8, <2>1, <2>2
<1> QED BY <1>2, <1>9, <1>10 DEF Tree

\* mount_root(): the first mount.
LEMMA RootTree == Tree(mount_root) /\ mount_root.pwd.dentry = Root /\ Len(mount_root.mounts) = 1
<1>1. PICK s : s = [dentries |-> <<>>, mounts |-> <<>>, fault |-> "none", pwd |-> [dentry |-> Root, mnt |-> 1]]
  OBVIOUS
<1>2. PICK at : at = [dentry |-> NULL, mnt |-> NULL]
  OBVIOUS
<1>3. /\ s \in FsTypes /\ at \in Places /\ "ramfs" \in Types /\ Len(s.dentries) = 0 /\ Len(s.mounts) = 0
      /\ s.pwd = [dentry |-> Root, mnt |-> 1] /\ at.dentry = 0 /\ at.mnt = 0
  BY <1>1, <1>2 DEF FsTypes, Places, Types, NULL, Root
<1>4. PICK t : t = mount_root
  OBVIOUS
<1>5. Mounted(s, t, at, "ramfs")
  BY <1>1, <1>2, <1>3, <1>4, MountIs DEF mount_root
<1>6. /\ t \in FsTypes /\ t.pwd = [dentry |-> 1, mnt |-> 1] /\ Len(t.dentries) = 1 /\ Len(t.mounts) = 1
      /\ NewRoot(t.dentries[1], 1, 1)
      /\ t.mounts[1] = [point |-> 0, parent |-> 0, root |-> 1, type |-> "ramfs"]
  BY <1>3, <1>5 DEF Mounted, Root
<1>7. PICK e, x : e = t.dentries[1] /\ x = t.mounts[1]
  OBVIOUS
<1>8. /\ e.name = "/" /\ e.parent = 1 /\ e.sb = 1 /\ e.ino = "dir" /\ e.i_size = 0 /\ Len(e.subs) = 0
      /\ x.point = 0 /\ x.parent = 0 /\ x.root = 1 /\ x.type = "ramfs"
  BY <1>6, <1>7 DEF NewRoot
<1>9. Linked(t, 1) /\ Hung(t, 1) /\ At(t, t.pwd)
  BY <1>6, <1>7, <1>8 DEF Linked, Hung, At, Places
<1>10. FsOK(t)
  <2>1. \A d \in 1 .. 1 : d = 1
    OBVIOUS
  <2> QED BY <1>6, <1>9, <2>1 DEF FsOK
<1>11. Found(t, 1)
  BY <1>7, <1>8 DEF Found, Root
<1>12. Walked(t)
  <2>1. \A d \in 1 .. 1 : d = 1
    OBVIOUS
  <2>2. 2 .. 1 = {}
    OBVIOUS
  <2> QED BY <1>6, <1>7, <1>8, <1>11, <2>1, <2>2 DEF Walked
<1>13. Sized(t)
  <2>1. \A d \in 1 .. 1 : d = 1
    OBVIOUS
  <2>2. Entries(t, 1) = {}
    BY <1>7, <1>8 DEF Entries
  <2> QED BY <1>6, <1>7, <1>8, <2>1, <2>2, FS_EmptySet DEF Sized
<1> QED BY <1>4, <1>6, <1>10, <1>12, <1>13 DEF Tree, Root

-----------------------------------------------------------------------------
(* A change of the current directory or a fault *)

LEMMA SameTree ==
    ASSUME NEW s, Tree(s), NEW t \in FsTypes, t.dentries = s.dentries, t.mounts = s.mounts,
           At(s, t.pwd), Found(s, t.pwd.dentry)
    PROVE  Tree(t) /\ Grows(s, t)
<1>1. FsOK(s) /\ Walked(s) /\ Sized(s)
  BY DEF Tree
<1>2. \A d : Linked(t, d) <=> Linked(s, d)
  BY DEF Linked
<1>3. \A m : Hung(t, m) <=> Hung(s, m)
  BY DEF Hung
<1>4. At(t, t.pwd)
  BY DEF At
<1>5. FsOK(t)
  BY <1>1, <1>2, <1>3, <1>4 DEF FsOK
<1>6. \A d, n : d_lookup(t, d, n) = d_lookup(s, d, n)
  BY DEF d_lookup
<1>7. \A d : lookup_mnt(t, d) = lookup_mnt(s, d)
  BY DEF lookup_mnt
<1>8. \A d : Found(t, d) <=> Found(s, d)
  BY <1>6, <1>7 DEF Found
<1>9. Walked(t)
  BY <1>1, <1>8 DEF Walked
<1>10. \A d : Entries(t, d) = Entries(s, d) /\ Type(t, d) = Type(s, d)
  BY DEF Entries, Type
<1>11. Sized(t)
  BY <1>1, <1>10 DEF Sized
<1>12. Grows(s, s)
  BY <1>1, GrowsReflexive
<1>13. Grows(s, t)
  BY <1>12 DEF Grows, Kept
<1> QED BY <1>5, <1>9, <1>11, <1>13 DEF Tree

LEMMA FaultTree ==
    ASSUME NEW s, Tree(s), NEW e \in {"none", "null", "head"}
    PROVE  Tree([s EXCEPT !.fault = e]) /\ Grows(s, [s EXCEPT !.fault = e])
<1>1. PICK t : t = [s EXCEPT !.fault = e]
  OBVIOUS
<1>2. s \in FsTypes /\ At(s, s.pwd) /\ Found(s, s.pwd.dentry)
  BY DEF Tree, FsOK, Walked
<1>3. t \in FsTypes /\ t.dentries = s.dentries /\ t.mounts = s.mounts /\ t.pwd = s.pwd
  BY <1>1, <1>2 DEF FsTypes
<1>4. Tree(t) /\ Grows(s, t)
  BY <1>2, <1>3, SameTree
<1> QED BY <1>1, <1>4

-----------------------------------------------------------------------------
(* path_walk() *)

Rets == {"ok", "enoent", "enotdir", "fault"}
Walks == [fs : FsTypes, ret : Rets, first : BOOLEAN, at : Places]

\* What a walk that began in s has reached: a place that walks can end at, in a
\* tree that has only grown.
WalkOK(s, w) ==
    /\ w \in Walks /\ Tree(w.fs) /\ Grows(s, w.fs)
    /\ At(w.fs, w.at) /\ Found(w.fs, w.at.dentry)

LEMMA FailedOK ==
    ASSUME NEW s, NEW w, WalkOK(s, w), NEW e \in Rets, NEW x \in Failed(w, e)
    PROVE  WalkOK(s, x)
<1>1. x = [w EXCEPT !.ret = e] /\ w \in Walks
  BY DEF Failed, WalkOK
<1>2. x \in Walks /\ x.fs = w.fs /\ x.at = w.at
  BY <1>1 DEF Walks
<1> QED BY <1>2 DEF WalkOK

LEMMA ReachedOK ==
    ASSUME NEW s, NEW w, WalkOK(s, w), NEW at, At(w.fs, at), Found(w.fs, at.dentry), NEW x \in Reached(w, at)
    PROVE  WalkOK(s, x)
<1>1. x = [w EXCEPT !.at = at, !.first = FALSE] /\ w \in Walks /\ at \in Places
  BY DEF Reached, WalkOK, At
<1>2. x \in Walks /\ x.fs = w.fs /\ x.at = at
  BY <1>1 DEF Walks
<1> QED BY <1>2 DEF WalkOK

\* follow_up() leaves a mount for the dentry below it, but for the first mount.
LEMMA FollowUpAt ==
    ASSUME NEW s, Tree(s), NEW at, At(s, at)
    PROVE  /\ follow_up(s, at).dentry # NULL =>
                At(s, follow_up(s, at)) /\ Found(s, follow_up(s, at).dentry)
           /\ follow_up(s, at).dentry = NULL <=> at.mnt = 1
<1>1. FsOK(s) /\ Walked(s)
  BY DEF Tree
<1>2. Linked(s, at.dentry) /\ s.dentries[at.dentry].sb = at.mnt
  BY <1>1 DEF FsOK, At
<1>3. PICK m : m = at.mnt
  OBVIOUS
<1>4. m \in 1 .. Len(s.mounts) /\ Hung(s, m)
  BY <1>1, <1>2, <1>3 DEF Linked, FsOK
<1>5. PICK up : up = follow_up(s, at)
  OBVIOUS
<1>6. up = [dentry |-> s.mounts[m].point, mnt |-> s.mounts[m].parent]
  BY <1>3, <1>5 DEF follow_up
<1>7. CASE m = 1
  <2>1. up.dentry = 0
    BY <1>4, <1>6, <1>7 DEF Hung
  <2> QED BY <1>3, <1>5, <1>7, <2>1 DEF NULL
<1>8. CASE m # 1
  <2>1. PICK x : x = s.mounts[m]
    OBVIOUS
  <2>2. /\ x.parent \in 1 .. m - 1 /\ x.point \in 1 .. x.root - 1 /\ s.dentries[x.point].sb = x.parent
        /\ x.root \in 1 .. Len(s.dentries)
    BY <1>4, <1>8, <2>1 DEF Hung
  <2>3. Len(s.dentries) \in Nat /\ Len(s.mounts) \in Nat
    BY <1>1, DentryTypes
  <2>4. x.point \in 1 .. Len(s.dentries) /\ x.point \in Nat /\ x.parent \in Nat /\ x.point # 0
    BY <1>4, <2>2, <2>3
  <2>5. At(s, up)
    BY <1>6, <2>1, <2>2, <2>4 DEF At, Places
  <2>6. m \in 2 .. Len(s.mounts)
    BY <1>4, <1>8, <2>3
  <2>7. Found(s, x.point)
    BY <1>1, <2>1, <2>6 DEF Walked
  <2> QED BY <1>3, <1>5, <1>6, <1>8, <2>1, <2>4, <2>5, <2>7 DEF NULL
<1> QED BY <1>7, <1>8

LEMMA ParentAt ==
    ASSUME NEW s, Tree(s), NEW at, At(s, at), Found(s, at.dentry)
    PROVE  /\ At(s, [dentry |-> s.dentries[at.dentry].parent, mnt |-> at.mnt])
           /\ Found(s, s.dentries[at.dentry].parent)
<1>1. FsOK(s) /\ Walked(s) /\ Len(s.dentries) \in Nat
  BY DentryTypes DEF Tree
<1>2. PICK d, p : d = at.dentry /\ p = s.dentries[at.dentry].parent
  OBVIOUS
<1>3. Linked(s, d) /\ s.dentries[d].sb = at.mnt /\ d \in 1 .. Len(s.dentries) /\ at \in Places
  BY <1>1, <1>2 DEF FsOK, At
<1>4. p \in 1 .. d /\ s.dentries[p].sb = at.mnt
  BY <1>2, <1>3 DEF Linked
<1>5. p \in 1 .. Len(s.dentries) /\ p \in Nat
  BY <1>1, <1>3, <1>4
<1>6. At(s, [dentry |-> p, mnt |-> at.mnt])
  BY <1>3, <1>4, <1>5 DEF At, Places
<1>7. Found(s, p)
  <2>1. CASE p = d
    BY <1>2, <2>1
  <2>2. CASE p # d
    BY <1>1, <1>2, <1>3, <2>2 DEF Walked
  <2> QED BY <2>1, <2>2
<1> QED BY <1>2, <1>6, <1>7

LEMMA DotDotOK ==
    ASSUME NEW s, NEW w, WalkOK(s, w), NEW x \in DotDot(w)
    PROVE  WalkOK(s, x)
<1>1. Tree(w.fs) /\ At(w.fs, w.at) /\ Found(w.fs, w.at.dentry)
  BY DEF WalkOK
<1>2. CASE x \in Failed(w, "fault")
  BY <1>2, FailedOK DEF Rets
<1>3. CASE x \notin Failed(w, "fault")
  <2>1. PICK up \in DotDotMounts(w) :
          x \in LET at == IF up THEN follow_up(w.fs, w.at) ELSE w.at
                IN  IF at.dentry = NULL THEN Failed(w, "fault")
                    ELSE Reached(w, [dentry |-> w.fs.dentries[at.dentry].parent, mnt |-> at.mnt])
    BY <1>3 DEF DotDot
  <2>2. PICK at : at = IF up THEN follow_up(w.fs, w.at) ELSE w.at
    OBVIOUS
  <2>3. at.dentry # NULL /\ x \in Reached(w, [dentry |-> w.fs.dentries[at.dentry].parent, mnt |-> at.mnt])
    BY <1>3, <2>1, <2>2
  <2>4. At(w.fs, at) /\ Found(w.fs, at.dentry)
    BY <1>1, <2>2, <2>3, FollowUpAt
  <2>5. PICK to : to = [dentry |-> w.fs.dentries[at.dentry].parent, mnt |-> at.mnt]
    OBVIOUS
  <2>6. At(w.fs, to) /\ Found(w.fs, to.dentry)
    BY <1>1, <2>4, <2>5, ParentAt
  <2> QED BY <2>3, <2>5, <2>6, ReachedOK
<1> QED BY <1>2, <1>3

\* A child found by its name, and the root of the mount on it.
LEMMA ChildAt ==
    ASSUME NEW s, Tree(s), NEW at, At(s, at), s.dentries[at.dentry].ino = "dir", NEW n, NEW d,
           d = d_lookup(s, at.dentry, n), d # 0
    PROVE  /\ d \in 1 .. Len(s.dentries) /\ s.dentries[d].parent = at.dentry /\ at.dentry < d
           /\ s.dentries[d].name = n
           /\ At(s, [dentry |-> d, mnt |-> at.mnt]) /\ Found(s, d)
<1>1. FsOK(s) /\ Len(s.dentries) \in Nat
  BY DentryTypes DEF Tree
<1>2. PICK p : p = at.dentry
  OBVIOUS
<1>3. p \in 1 .. Len(s.dentries) /\ s.dentries[p].sb = at.mnt /\ at \in Places
  BY <1>2 DEF At
<1>4. Len(s.dentries[p].subs) \in Nat /\ \A i \in 1 .. Len(s.dentries[p].subs) : s.dentries[p].subs[i] # 0
  BY <1>1, <1>3, ChildFacts
<1>5. PICK k \in 1 .. Len(s.dentries[p].subs) : d = s.dentries[p].subs[k] /\ SubName(s, p, k) = n
  BY <1>2, <1>4, LookupFacts
<1>6. d \in p + 1 .. Len(s.dentries) /\ d \in 1 .. Len(s.dentries) /\ s.dentries[d].parent = p
  <2>1. \A i \in 1 .. Len(s.dentries[p].subs) : /\ s.dentries[p].subs[i] \in p + 1 .. Len(s.dentries)
                                                /\ s.dentries[p].subs[i] \in 1 .. Len(s.dentries)
                                                /\ s.dentries[s.dentries[p].subs[i]].parent = p
    BY <1>1, <1>3, ChildFacts, Zenon
  <2> QED BY <1>5, <2>1, Zenon
<1>7. p # d /\ d \in Nat /\ p < d
  BY <1>1, <1>3, <1>6
<1>8. s.dentries[d].name = n
  BY <1>5 DEF SubName
<1>9. Linked(s, d)
  BY <1>1, <1>6 DEF FsOK
<1>10. s.dentries[d].sb = at.mnt
  BY <1>3, <1>6, <1>9 DEF Linked
<1>11. At(s, [dentry |-> d, mnt |-> at.mnt])
  BY <1>3, <1>6, <1>7, <1>10 DEF At, Places
<1>12. Found(s, d)
  BY <1>2, <1>6, <1>7, <1>8 DEF Found
<1> QED BY <1>2, <1>6, <1>7, <1>8, <1>11, <1>12

LEMMA FollowMountAt ==
    ASSUME NEW s, Tree(s), NEW at, At(s, at), Found(s, at.dentry), s.dentries[at.dentry].parent # at.dentry
    PROVE  At(s, FollowMount(s, at)) /\ Found(s, FollowMount(s, at).dentry)
<1>1. FsOK(s) /\ Len(s.dentries) \in Nat /\ Len(s.mounts) \in Nat
  BY DentryTypes DEF Tree
<1>2. PICK m : m = lookup_mnt(s, at.dentry)
  OBVIOUS
<1>3. CASE m = 0
  BY <1>2, <1>3 DEF FollowMount, NULL
<1>4. CASE m # 0
  <2>1. m \in 1 .. Len(s.mounts) /\ s.mounts[m].point = at.dentry
    BY <1>1, <1>2, <1>4, MountFacts
  <2>2. Hung(s, m)
    BY <1>1, <2>1 DEF FsOK
  <2>3. PICK r : r = s.mounts[m].root
    OBVIOUS
  <2>4. r \in 1 .. Len(s.dentries) /\ s.dentries[r].sb = m /\ s.dentries[r].parent = r /\ m \in Nat /\ r \in Nat
    BY <1>1, <2>1, <2>2, <2>3 DEF Hung
  <2>5. FollowMount(s, at) = [dentry |-> r, mnt |-> m]
    BY <1>2, <1>4, <2>3 DEF FollowMount, NULL
  <2>6. At(s, [dentry |-> r, mnt |-> m])
    BY <2>4 DEF At, Places
  <2>7. Found(s, r)
    BY <1>2, <2>1, <2>4 DEF Found
  <2> QED BY <2>5, <2>6, <2>7
<1> QED BY <1>3, <1>4

LEMMA LookupInode ==
    ASSUME NEW s, FsOK(s), NEW dir \in 1 .. Len(s.dentries), NEW n \in Names, FsLookup(s, dir, n) # "enoent"
    PROVE  FsLookup(s, dir, n) \in Inodes /\ (Type(s, dir) # "ext4" => FsLookup(s, dir, n) = "none")
<1>1. Type(s, dir) \in Types
  <2>1. Linked(s, dir)
    BY DEF FsOK
  <2>2. s.mounts[s.dentries[dir].sb] \in Mounts
    BY <2>1, DentryTypes DEF Linked
  <2> QED BY <2>2 DEF Type, Mounts
<1>2. Volume[n] \in Inodes
  BY VfsAssumption
<1> QED BY <1>1, <1>2 DEF FsLookup, Types, Inodes

LEMMA SubsNotNull ==
    ASSUME NEW s, FsOK(s), NEW p \in 1 .. Len(s.dentries)
    PROVE  Len(s.dentries[p].subs) \in Nat /\ \A i \in 1 .. Len(s.dentries[p].subs) : s.dentries[p].subs[i] # 0
BY ChildFacts

\* A name that the file system knew, or that ramfs made up.
LEMMA NewNameOK ==
    ASSUME NEW s, Tree(s), NEW at, At(s, at), Found(s, at.dentry), s.dentries[at.dentry].ino = "dir",
           NEW n \in Names, d_lookup(s, at.dentry, n) = 0, NEW ino, ino = FsLookup(s, at.dentry, n), ino # "enoent",
           NEW t, t = d_alloc(s, at.dentry, n, ino)
    PROVE  /\ Tree(t) /\ Grows(s, t) /\ At(t, [dentry |-> Len(s.dentries) + 1, mnt |-> at.mnt])
           /\ Found(t, Len(s.dentries) + 1)
<1>1. FsOK(s) /\ Len(s.dentries) \in Nat
  BY DentryTypes DEF Tree
<1>2. PICK p, N : p = at.dentry /\ N = Len(s.dentries) + 1
  OBVIOUS
<1>3. p \in 1 .. Len(s.dentries) /\ s.dentries[p].sb = at.mnt /\ at \in Places
  BY <1>2 DEF At
<1>4. ino \in Inodes /\ (Type(s, p) # "ext4" => ino = "none")
  BY <1>1, <1>2, <1>3, LookupInode
<1>5. Alloced(s, t, p, n, ino, 0)
  BY <1>1, <1>2, <1>3, <1>4, AllocIs
<1>6. Tree(t) /\ Grows(s, t)
  <2>1. Type(s, p) # "ext4" => (0 = 1 <=> ino # "none")
    BY <1>4
  <2> QED BY <1>2, <1>3, <1>4, <1>5, <2>1, AllocTree
<1>7. FsOK(t) /\ Len(t.dentries) = N /\ N \in Nat /\ N # p /\ N \in 1 .. N /\ p \in 1 .. N
  BY <1>1, <1>2, <1>3, <1>5, <1>6 DEF Tree, Alloced
<1>8. /\ t.dentries[N].name = n /\ t.dentries[N].parent = p /\ t.dentries[N].sb = at.mnt
      /\ t.dentries[p].ino = "dir"
  BY <1>2, <1>3, <1>5 DEF Alloced, ChildDentry, OldDentries
<1>9. PICK l, a, b : l = Len(s.dentries[p].subs) /\ a = s.dentries[p].subs /\ b = t.dentries[p].subs
  OBVIOUS
<1>10. l \in Nat /\ Len(b) = l + 1 /\ b[l + 1] = N /\ \A i \in 1 .. l : b[i] = a[i]
  BY <1>1, <1>2, <1>3, <1>5, <1>9, DentryTypes DEF Alloced, ParentDentry
<1>11. \A i \in 1 .. l : SubName(s, p, i) # n
  <2>1. Len(s.dentries[p].subs) \in Nat /\ \A i \in 1 .. Len(s.dentries[p].subs) : s.dentries[p].subs[i] # 0
    BY <1>1, <1>3, SubsNotNull
  <2> QED BY <1>2, <1>9, <2>1, LookupFacts
<1>12. \A i \in 1 .. l : SubName(t, p, i) # n
  <2> TAKE i \in 1 .. l
  <2>1. \A j \in 1 .. Len(s.dentries[p].subs) : s.dentries[p].subs[j] \in 1 .. Len(s.dentries)
    BY <1>1, <1>3, ChildFacts, Zenon
  <2>2. b[i] = a[i] /\ a[i] \in 1 .. Len(s.dentries)
    BY <1>9, <1>10, <2>1, Zenon
  <2>3. t.dentries[a[i]].name = s.dentries[a[i]].name
    BY <1>5, <2>2 DEF Alloced, OldDentries
  <2> QED BY <1>9, <1>11, <2>2, <2>3 DEF SubName
<1>13. SubName(t, p, l + 1) = n
  BY <1>8, <1>9, <1>10 DEF SubName
<1>14. PICK k : k = l + 1
  OBVIOUS
<1>15. k \in 1 .. Len(t.dentries[p].subs) /\ \A i \in 1 .. k - 1 : i \in 1 .. l
  BY <1>9, <1>10, <1>14
<1>16. Len(t.dentries[p].subs) \in Nat /\ \A i \in 1 .. Len(t.dentries[p].subs) : t.dentries[p].subs[i] # 0
  BY <1>7, SubsNotNull
<1>17. d_lookup(t, p, n) = t.dentries[p].subs[k]
  <2>1. (\A i \in 1 .. k - 1 : SubName(t, p, i) # n) /\ SubName(t, p, k) = n
    BY <1>12, <1>13, <1>14, <1>15, Zenon
  <2> QED BY <1>15, <1>16, <2>1, LookupFound
<1>18. d_lookup(t, p, n) = N
  BY <1>9, <1>10, <1>14, <1>17
<1>19. Found(t, N)
  BY <1>7, <1>8, <1>18 DEF Found
<1>20. At(t, [dentry |-> N, mnt |-> at.mnt])
  BY <1>3, <1>7, <1>8 DEF At, Places
<1> QED BY <1>2, <1>6, <1>19, <1>20

LEMMA NameOK ==
    ASSUME NEW s, FsOK(s), NEW w, WalkOK(s, w), w.fs.dentries[w.at.dentry].ino = "dir", NEW n \in Names,
           NEW x \in Name(w, n)
    PROVE  WalkOK(s, x)
<1>1. PICK t, at : t = w.fs /\ at = w.at
  OBVIOUS
<1>2. w \in Walks /\ Tree(t) /\ Grows(s, t) /\ At(t, at) /\ Found(t, at.dentry) /\ t.dentries[at.dentry].ino = "dir"
  BY <1>1 DEF WalkOK
<1>3. PICK d, ino : d = d_lookup(t, at.dentry, n) /\ ino = FsLookup(t, at.dentry, n)
  OBVIOUS
<1>4. CASE d # 0
  <2>1. PICK to : to = [dentry |-> d, mnt |-> at.mnt]
    OBVIOUS
  <2>2. At(t, to) /\ Found(t, to.dentry) /\ t.dentries[to.dentry].parent # to.dentry
    <3>1. /\ d \in 1 .. Len(t.dentries) /\ t.dentries[d].parent = at.dentry /\ at.dentry < d
          /\ At(t, [dentry |-> d, mnt |-> at.mnt]) /\ Found(t, d)
      BY <1>2, <1>3, <1>4, ChildAt
    <3>2. at.dentry # d
      BY <1>2, <3>1 DEF At
    <3> QED BY <2>1, <3>1, <3>2
  <2>3. x \in Reached(w, FollowMount(t, to))
    BY <1>1, <1>3, <1>4, <2>1 DEF Name, NULL
  <2>4. At(t, FollowMount(t, to)) /\ Found(t, FollowMount(t, to).dentry)
    BY <1>2, <2>2, FollowMountAt
  <2> QED BY <1>1, <2>3, <2>4, ReachedOK
<1>5. CASE d = 0 /\ ino = "enoent"
  <2>1. x \in Failed(w, "enoent")
    BY <1>1, <1>3, <1>5 DEF Name, NULL
  <2> QED BY <2>1, FailedOK DEF Rets
<1>6. CASE d = 0 /\ ino # "enoent"
  <2>1. PICK u, to, v : /\ u = d_alloc(t, at.dentry, n, ino) /\ to = [dentry |-> Len(t.dentries) + 1, mnt |-> at.mnt]
                        /\ v = [w EXCEPT !.fs = u]
    OBVIOUS
  <2>2. x \in Reached(v, to)
    BY <1>1, <1>3, <1>6, <2>1 DEF Name, NULL
  <2>3. Tree(u) /\ Grows(t, u) /\ At(u, to) /\ Found(u, to.dentry)
    BY <1>2, <1>3, <1>6, <2>1, NewNameOK
  <2>4. Grows(s, u)
    BY <1>2, <2>3, GrowsTransitive DEF Tree
  <2>5. u \in FsTypes
    BY <2>3 DEF Tree, FsOK
  <2>6. x = [v EXCEPT !.at = to, !.first = FALSE] /\ to \in Places
    BY <2>2, <2>3 DEF Reached, At
  <2>7. v \in Walks /\ v.fs = u
    BY <1>2, <2>1, <2>5 DEF Walks
  <2>8. x \in Walks /\ x.fs = u /\ x.at = to
    BY <2>6, <2>7 DEF Walks
  <2> QED BY <2>3, <2>4, <2>8 DEF WalkOK
<1> QED BY <1>4, <1>5, <1>6

LEMMA ComponentOK ==
    ASSUME NEW s, FsOK(s), NEW w, WalkOK(s, w), NEW u \in Units, NEW x \in Component(w, u)
    PROVE  WalkOK(s, x)
<1>1. PICK ino : ino = w.fs.dentries[w.at.dentry].ino
  OBVIOUS
<1>2. ino \in Inodes
  BY <1>1, DentryTypes DEF WalkOK, Tree, At
<1>3. CASE w.ret # "ok"
  BY <1>1, <1>3 DEF Component
<1>4. CASE w.ret = "ok" /\ ino = "none"
  <2>1. x \in Failed(w, "fault")
    BY <1>1, <1>4 DEF Component
  <2> QED BY <2>1, FailedOK DEF Rets
<1>5. CASE w.ret = "ok" /\ ino = "file"
  <2>1. x \in Failed(w, "enotdir")
    BY <1>1, <1>5 DEF Component
  <2> QED BY <2>1, FailedOK DEF Rets
<1>6. CASE w.ret = "ok" /\ ino = "dir"
  <2>1. CASE u = "."
    <3>1. x \in Reached(w, w.at)
      BY <1>1, <1>6, <2>1, VfsAssumption DEF Component
    <3> QED BY <3>1, ReachedOK DEF WalkOK
  <2>2. CASE u = ".."
    <3>1. x \in DotDot(w)
      BY <1>1, <1>6, <2>2, VfsAssumption DEF Component
    <3> QED BY <3>1, DotDotOK
  <2>3. CASE u \in Names
    <3>1. u # "." /\ u # ".."
      BY <2>3, VfsAssumption
    <3>2. x \in Name(w, u)
      BY <1>1, <1>6, <2>3, <3>1 DEF Component
    <3> QED BY <1>1, <1>6, <2>3, <3>2, NameOK
  <2> QED BY <2>1, <2>2, <2>3 DEF Units
<1> QED BY <1>2, <1>3, <1>4, <1>5, <1>6 DEF Inodes

\* One turn of the loop of path_walk(), on every outcome so far.
WalkStep(p, i, W) == UNION {Component(w, p.units[i]) : w \in W}
WalkIs(s, p, f, n) == f = [i \in 0 .. n |-> IF i = 0 THEN {Start(s, p)} ELSE WalkStep(p, i, f[i - 1])]

LEMMA WalkExists ==
    ASSUME NEW s, NEW p, NEW n \in Nat
    PROVE  \E f : WalkIs(s, p, f, n)
<1> DEFINE T == {k \in Nat : ~ \E f : WalkIs(s, p, f, k)}
<1>1. SUFFICES ASSUME T # {} PROVE FALSE
  OBVIOUS
<1>2. PICK k \in T : \A y \in T : k <= y
  <2>1. T \subseteq Nat
    OBVIOUS
  <2> HIDE DEF T
  <2> QED BY <1>1, <2>1, LeastNat
<1>3. k \in Nat /\ ~ \E f : WalkIs(s, p, f, k)
  BY <1>2
<1>4. CASE k = 0
  <2>1. PICK f : f = [i \in 0 .. 0 |-> {Start(s, p)}]
    OBVIOUS
  <2>2. \A i \in 0 .. 0 : i = 0
    OBVIOUS
  <2>3. WalkIs(s, p, f, 0)
    BY <2>1, <2>2 DEF WalkIs
  <2> QED BY <1>3, <1>4, <2>3
<1>5. CASE k # 0
  <2>1. PICK j \in Nat : k = j + 1
    <3>1. k - 1 \in Nat /\ k = (k - 1) + 1
      BY <1>3, <1>5
    <3> QED BY <3>1
  <2>2. PICK f : WalkIs(s, p, f, j)
    <3>1. ~(k <= j)
      BY <2>1
    <3> QED BY <1>2, <3>1
  <2>3. /\ DOMAIN f = 0 .. j
        /\ \A i \in 0 .. j : f[i] = IF i = 0 THEN {Start(s, p)} ELSE WalkStep(p, i, f[i - 1])
    BY <2>2 DEF WalkIs
  <2>4. PICK g : g = [i \in 0 .. k |-> IF i = k THEN WalkStep(p, k, f[j]) ELSE f[i]]
    OBVIOUS
  <2>5. \A i \in 0 .. k : g[i] = IF i = 0 THEN {Start(s, p)} ELSE WalkStep(p, i, g[i - 1])
    <3> TAKE i \in 0 .. k
    <3>1. CASE i = k
      <4>1. g[i] = WalkStep(p, k, f[j]) /\ i # 0 /\ i - 1 = j /\ j \in 0 .. k /\ j # k
        BY <1>3, <1>5, <2>1, <2>4, <3>1
      <4>2. g[j] = f[j]
        BY <2>4, <4>1
      <4> QED BY <3>1, <4>1, <4>2
    <3>2. CASE i # k /\ i = 0
      <4>1. g[i] = f[i] /\ i \in 0 .. j
        BY <1>3, <2>1, <2>4, <3>2
      <4> QED BY <2>3, <3>2, <4>1
    <3>3. CASE i # k /\ i # 0
      <4>1. g[i] = f[i] /\ i \in 0 .. j /\ i - 1 \in 0 .. k /\ i - 1 # k
        BY <1>3, <2>1, <2>4, <3>3
      <4>2. g[i - 1] = f[i - 1]
        BY <2>4, <4>1
      <4> QED BY <2>3, <3>3, <4>1, <4>2
    <3> QED BY <3>1, <3>2, <3>3
  <2>6. WalkIs(s, p, g, k)
    BY <2>4, <2>5 DEF WalkIs
  <2> QED BY <1>3, <2>6
<1> QED BY <1>4, <1>5

\* The rows of outcomes that path_walk() goes through, one for each component.
WalkRun(s, p, f, n) ==
    /\ path_walk(s, p) = f[n] /\ f[0] = {Start(s, p)}
    /\ \A i \in 1 .. n : f[i] = WalkStep(p, i, f[i - 1])

LEMMA WalkFun ==
    ASSUME NEW s, NEW p, NEW n \in Nat, n = Len(p.units)
    PROVE  \E f : WalkRun(s, p, f, n)
<1>1. PICK f : f = CHOOSE g : WalkIs(s, p, g, n)
  OBVIOUS
<1>2. WalkIs(s, p, f, n)
  BY <1>1, WalkExists
<1>3. path_walk(s, p) = f[n]
  BY <1>1 DEF path_walk, WalkIs, WalkStep
<1>4. \A i \in 0 .. n : f[i] = IF i = 0 THEN {Start(s, p)} ELSE WalkStep(p, i, f[i - 1])
  BY <1>2 DEF WalkIs
<1>5. f[0] = {Start(s, p)} /\ \A i \in 1 .. n : f[i] = WalkStep(p, i, f[i - 1])
  BY <1>4
<1> QED BY <1>3, <1>5 DEF WalkRun

LEMMA StartOK ==
    ASSUME NEW s, Tree(s), NEW p, p.abs \in BOOLEAN
    PROVE  WalkOK(s, Start(s, p))
<1>1. FsOK(s) /\ Walked(s) /\ s \in FsTypes /\ Grows(s, s)
  BY GrowsReflexive DEF Tree, FsOK
<1>2. PICK at : at = IF p.abs THEN [dentry |-> Root, mnt |-> 1] ELSE s.pwd
  OBVIOUS
<1>3. At(s, [dentry |-> Root, mnt |-> 1]) /\ Found(s, Root)
  <2>1. Hung(s, 1)
    BY <1>1, DentryTypes DEF FsOK
  <2>2. 1 \in 1 .. Len(s.dentries) /\ s.dentries[1].sb = 1 /\ s.dentries[1].parent = 1
    BY <2>1 DEF Hung
  <2> QED BY <2>2 DEF At, Places, Root, Found
<1>4. At(s, at) /\ Found(s, at.dentry) /\ at \in Places
  BY <1>1, <1>2, <1>3 DEF FsOK, Walked, At
<1>5. PICK w : w = Start(s, p)
  OBVIOUS
<1>6. w = [fs |-> s, ret |-> "ok", first |-> TRUE, at |-> at]
  BY <1>2, <1>5 DEF Start
<1>7. w \in Walks /\ w.fs = s /\ w.at = at
  BY <1>1, <1>4, <1>6 DEF Walks, Rets
<1> QED BY <1>1, <1>4, <1>5, <1>7 DEF WalkOK

LEMMA RootStart ==
    ASSUME NEW s, Tree(s), NEW p, p.abs = TRUE
    PROVE  WalkOK(s, Start(s, p))
<1>1. p.abs \in BOOLEAN
  OBVIOUS
<1> QED BY <1>1, StartOK

LEMMA PathWalkOK ==
    ASSUME NEW s, Tree(s), NEW p, p.abs \in BOOLEAN, p.units \in Seq(Units), NEW w \in path_walk(s, p)
    PROVE  WalkOK(s, w)
<1>1. PICK n : n = Len(p.units)
  OBVIOUS
<1>2. n \in Nat /\ \A i \in 1 .. n : p.units[i] \in Units
  BY <1>1
<1>3. PICK f : WalkRun(s, p, f, n)
  BY <1>1, <1>2, WalkFun
<1> DEFINE T == {i \in 0 .. n : ~ \A x \in f[i] : WalkOK(s, x)}
<1>4. T = {}
  <2>1. SUFFICES ASSUME T # {} PROVE FALSE
    OBVIOUS
  <2>2. PICK k \in T : \A y \in T : k <= y
    <3>1. T \subseteq Nat
      BY <1>2
    <3> HIDE DEF T
    <3> QED BY <2>1, <3>1, LeastNat
  <2>3. k \in 0 .. n /\ ~ \A x \in f[k] : WalkOK(s, x)
    BY <2>2
  <2>4. k # 0
    BY <1>3, <2>3, StartOK DEF WalkRun
  <2>5. PICK j : j = k - 1
    OBVIOUS
  <2>6. j \in 0 .. n /\ ~(k <= j) /\ k \in 1 .. n
    BY <1>2, <2>3, <2>4, <2>5
  <2>7. \A x \in f[j] : WalkOK(s, x)
    BY <2>2, <2>6
  <2>8. f[k] = WalkStep(p, k, f[j])
    BY <1>3, <2>5, <2>6 DEF WalkRun
  <2>9. \A x \in f[k] : WalkOK(s, x)
    <3> TAKE x \in f[k]
    <3>1. PICK v \in f[j] : x \in Component(v, p.units[k])
      BY <2>8 DEF WalkStep
    <3>2. FsOK(s) /\ p.units[k] \in Units
      BY <1>2, <2>6 DEF Tree
    <3> QED BY <2>7, <3>1, <3>2, ComponentOK
  <2> QED BY <2>3, <2>9
<1>5. n \in 0 .. n
  BY <1>2
<1> QED BY <1>3, <1>4, <1>5 DEF WalkRun

LEMMA PathTypes ==
    ASSUME NEW p \in Paths
    PROVE  p.abs \in BOOLEAN /\ p.units \in Seq(Units)
<1>1. p.abs \in BOOLEAN /\ p.units \in UNION {[1 .. n -> Units] : n \in 0 .. MaxUnits}
  BY DEF Paths
<1>2. PICK n \in 0 .. MaxUnits : p.units \in [1 .. n -> Units]
  BY <1>1
<1>3. n \in Nat
  BY <1>2, VfsAssumption
<1> QED BY <1>1, <1>2, <1>3

-----------------------------------------------------------------------------
(* The calls *)

LEMMA AfterFailureOK ==
    ASSUME NEW s, FsOK(s), NEW w, WalkOK(s, w)
    PROVE  Tree(AfterFailure(w)) /\ Grows(s, AfterFailure(w))
<1>1. Tree(w.fs) /\ Grows(s, w.fs)
  BY DEF WalkOK
<1>2. PICK t : t = [w.fs EXCEPT !.fault = "null"]
  OBVIOUS
<1>3. Tree(t) /\ Grows(w.fs, t)
  BY <1>1, <1>2, FaultTree
<1>4. Grows(s, t)
  BY <1>1, <1>3, GrowsTransitive DEF Tree
<1> QED BY <1>1, <1>2, <1>3, <1>4 DEF AfterFailure

LEMMA MkdirOK ==
    ASSUME NEW s, Tree(s), NEW n \in Names
    PROVE  Tree(sys_mkdir(s, n)) /\ Grows(s, sys_mkdir(s, n))
<1>1. PICK dir : dir = s.pwd.dentry
  OBVIOUS
<1>2. FsOK(s) /\ dir \in 1 .. Len(s.dentries) /\ Found(s, dir) /\ Grows(s, s)
  BY <1>1, GrowsReflexive DEF Tree, Walked, FsOK, At
<1>3. PICK t, u : /\ t = [s EXCEPT !.fault = "null"]
                  /\ u = [d_alloc(s, dir, n, "dir") EXCEPT !.dentries[dir].i_size = @ + 1]
  OBVIOUS
<1>4. Tree(t) /\ Grows(s, t)
  BY <1>3, FaultTree
<1>5. Alloced(s, u, dir, n, "dir", 1)
  BY <1>2, <1>3, AllocIs DEF Inodes
<1>6. Tree(u) /\ Grows(s, u)
  <2>1. Type(s, dir) # "ext4" => (1 = 1 <=> "dir" # "none")
    OBVIOUS
  <2> QED BY <1>2, <1>5, <2>1, AllocTree DEF Inodes
<1>7. sys_mkdir(s, n) \in {s, t, u}
  BY <1>1, <1>3 DEF sys_mkdir
<1> QED BY <1>2, <1>4, <1>6, <1>7

LEMMA SysMountOK ==
    ASSUME NEW s, Tree(s), NEW p, p.abs \in BOOLEAN, p.units \in Seq(Units), NEW type \in Types, NEW ok \in BOOLEAN,
           NEW t \in sys_mount(s, p, type, ok)
    PROVE  Tree(t) /\ Grows(s, t)
<1>1. PICK w \in path_walk(s, p) :
         t = IF w.ret # "ok" THEN AfterFailure(w) ELSE IF ok THEN add_mount(w.fs, w.at, type) ELSE w.fs
  BY DEF sys_mount
<1>2. WalkOK(s, w) /\ FsOK(s)
  BY <1>1, PathWalkOK DEF Tree
<1>3. Tree(w.fs) /\ Grows(s, w.fs) /\ At(w.fs, w.at) /\ Found(w.fs, w.at.dentry) /\ w.fs \in FsTypes /\ w.at \in Places
  BY <1>2 DEF WalkOK, Tree, FsOK, At
<1>4. CASE w.ret # "ok"
  BY <1>1, <1>2, <1>4, AfterFailureOK
<1>5. CASE w.ret = "ok" /\ ~ok
  BY <1>1, <1>3, <1>5
<1>6. CASE w.ret = "ok" /\ ok
  <2>1. t = add_mount(w.fs, w.at, type)
    BY <1>1, <1>6
  <2>2. Mounted(w.fs, t, w.at, type)
    BY <1>3, <2>1, MountIs
  <2>3. Tree(t) /\ Grows(w.fs, t)
    BY <1>3, <2>2, MountTree
  <2> QED BY <1>2, <1>3, <2>3, GrowsTransitive DEF Tree
<1> QED BY <1>4, <1>5, <1>6

LEMMA SysChdirOK ==
    ASSUME NEW s, Tree(s), NEW p, p.abs \in BOOLEAN, p.units \in Seq(Units), NEW t \in sys_chdir(s, p)
    PROVE  Tree(t) /\ Grows(s, t)
<1>1. PICK w \in path_walk(s, p) :
         t = IF w.ret = "ok" THEN [w.fs EXCEPT !.pwd = w.at] ELSE AfterFailure(w)
  BY DEF sys_chdir
<1>2. WalkOK(s, w) /\ FsOK(s)
  BY <1>1, PathWalkOK DEF Tree
<1>3. Tree(w.fs) /\ Grows(s, w.fs) /\ At(w.fs, w.at) /\ Found(w.fs, w.at.dentry) /\ w.fs \in FsTypes /\ w.at \in Places
  BY <1>2 DEF WalkOK, Tree, FsOK, At
<1>4. CASE w.ret # "ok"
  BY <1>1, <1>2, <1>4, AfterFailureOK
<1>5. CASE w.ret = "ok"
  <2>1. t = [w.fs EXCEPT !.pwd = w.at]
    BY <1>1, <1>5
  <2>2. t \in FsTypes /\ t.dentries = w.fs.dentries /\ t.mounts = w.fs.mounts /\ t.pwd = w.at
    BY <1>3, <2>1 DEF FsTypes
  <2>3. Tree(t) /\ Grows(w.fs, t)
    BY <1>3, <2>2, SameTree
  <2> QED BY <1>2, <1>3, <2>3, GrowsTransitive DEF Tree
<1> QED BY <1>4, <1>5

-----------------------------------------------------------------------------
(* Descriptors *)

Files == [dentry : Nat, pos : Nat, iter : Nat \cup {ListHead}, listed : Seq(Nat)]

LEMMA ListingStable ==
    ASSUME NEW s, NEW t, FsOK(s), FsOK(t), Grows(s, t), NEW f, Listing(s, f)
    PROVE  Listing(t, f)
<1>1. PICK d, a, b : d = f.dentry /\ a = s.dentries[f.dentry].subs /\ b = t.dentries[f.dentry].subs
  OBVIOUS
<1>2. /\ f \in Files /\ d \in 1 .. Len(s.dentries) /\ Len(f.listed) = f.pos /\ f.pos <= Len(a)
      /\ \A i \in 1 .. f.pos : f.listed[i] = a[i] /\ s.dentries[a[i]].ino # "none"
      /\ f.iter # ListHead => f.pos < Len(a) /\ f.iter = a[f.pos + 1]
  BY <1>1 DEF Listing, Files
<1>3. d \in 1 .. Len(t.dentries) /\ f.pos \in Nat
  BY <1>2, DentryTypes DEF Grows, Files
<1>4. Len(a) \in Nat /\ Len(b) \in Nat
  BY <1>1, <1>2, <1>3, DentryTypes
<1>5. Len(a) <= Len(b) /\ \A i \in 1 .. Len(a) : b[i] = a[i]
  BY <1>1, <1>2 DEF Grows, Kept
<1>6. \A i \in 1 .. Len(a) : t.dentries[a[i]].ino = s.dentries[a[i]].ino
  <2> TAKE i \in 1 .. Len(a)
  <2>1. a[i] \in 1 .. Len(s.dentries)
    BY <1>1, <1>2, ChildFacts
  <2> QED BY <2>1 DEF Grows, Kept
<1>7. f.pos <= Len(b) /\ \A i \in 1 .. f.pos : i \in 1 .. Len(a)
  BY <1>2, <1>3, <1>4, <1>5
<1>8. \A i \in 1 .. f.pos : f.listed[i] = b[i] /\ t.dentries[b[i]].ino # "none"
  BY <1>2, <1>5, <1>6, <1>7
<1>9. ASSUME f.iter # ListHead PROVE f.pos < Len(b) /\ f.iter = b[f.pos + 1]
  <2>1. f.pos < Len(a) /\ f.iter = a[f.pos + 1]
    BY <1>2, <1>9
  <2>2. f.pos + 1 \in 1 .. Len(a) /\ f.pos < Len(b)
    BY <1>3, <1>4, <1>5, <2>1
  <2> QED BY <1>5, <2>1, <2>2
<1> QED BY <1>1, <1>2, <1>3, <1>7, <1>8, <1>9 DEF Listing, Files

LEMMA FdsStable ==
    ASSUME NEW s, NEW t, FsOK(s), FsOK(t), Grows(s, t), NEW T, FdsOK(s, T)
    PROVE  FdsOK(t, T)
BY ListingStable DEF FdsOK

LEMMA OpenListing ==
    ASSUME NEW s, FsOK(s), NEW d \in 1 .. Len(s.dentries), NEW f,
           f = [dentry |-> d, pos |-> 0, listed |-> <<>>, iter |-> First(s, d)]
    PROVE  Listing(s, f)
<1>1. PICK a : a = s.dentries[d].subs
  OBVIOUS
<1>2. a \in Seq(Nat) /\ d \in Nat
  <2>1. s.dentries[d] \in Dentries
    BY DentryTypes
  <2> QED BY <1>1, <2>1, DentryTypes DEF Dentries
<1>3. \/ First(s, d) = ListHead
      \/ a # <<>> /\ First(s, d) = a[1]
  BY <1>1 DEF First
<1>4. a # <<>> => 0 < Len(a) /\ a[1] \in Nat
  BY <1>2
<1>5. First(s, d) \in Nat \cup {ListHead}
  BY <1>3, <1>4
<1>6. f \in Files /\ f.dentry = d /\ f.pos = 0 /\ f.iter = First(s, d) /\ Len(f.listed) = 0
  BY <1>2, <1>5 DEF Files
<1>7. 0 <= Len(a)
  BY <1>2
<1>8. f.iter # ListHead => 0 < Len(a) /\ f.iter = a[0 + 1]
  BY <1>3, <1>4, <1>6
<1> QED BY <1>1, <1>6, <1>7, <1>8 DEF Listing, Files

\* iter->next of the child at a place of the list.
LEMMA NextOfIs ==
    ASSUME FsOK(fs), NEW d \in 1 .. Len(fs.dentries), NEW k \in 1 .. Len(fs.dentries[d].subs)
    PROVE  NextOf(d, fs.dentries[d].subs[k]) =
             IF k = Len(fs.dentries[d].subs) THEN ListHead ELSE fs.dentries[d].subs[k + 1]
<1>1. PICK a, l : a = fs.dentries[d].subs /\ l = Len(a)
  OBVIOUS
<1>2. l \in Nat /\ k \in 1 .. l
  BY <1>1, DentryTypes
<1>3. \A i, j \in 1 .. l : i < j => a[i] < a[j]
  BY <1>1 DEF FsOK, Linked
<1>4. \A i \in 1 .. l : a[i] \in Nat
  <2>1. \A i \in 1 .. l : a[i] \in 1 .. Len(fs.dentries)
    BY <1>1, ChildFacts
  <2> QED BY <2>1, DentryTypes
<1>5. PICK c : c = a[k]
  OBVIOUS
<1> DEFINE T == {i \in 1 .. Len(a) : a[i] = c}
<1>6. T = {k}
  <2>1. \A i \in 1 .. l : i # k => a[i] # c
    <3> TAKE i \in 1 .. l
    <3>1. CASE i < k
      BY <1>2, <1>3, <1>4, <1>5, <3>1
    <3>2. CASE k < i
      BY <1>2, <1>3, <1>4, <1>5, <3>2
    <3> QED BY <1>2, <3>1, <3>2
  <2> QED BY <1>1, <1>2, <1>5, <2>1
<1>7. Min(T) = k /\ k # 0
  <2>1. T \subseteq Nat /\ T # {} /\ k # 0
    BY <1>2, <1>6
  <2> HIDE DEF T
  <2> QED BY <1>6, <2>1, MinFacts
<1>8. NextOf(d, c) = LET i == IF T # {} THEN Min(T) ELSE 0
                     IN  IF i = Len(a) THEN ListHead ELSE a[i + 1]
  BY <1>1 DEF NextOf, SelectInSeq
<1>9. T # {}
  BY <1>6
<1>10. NextOf(d, c) = IF k = Len(a) THEN ListHead ELSE a[k + 1]
  <2> HIDE DEF T
  <2> QED BY <1>7, <1>8, <1>9, Zenon
<1> QED BY <1>1, <1>5, <1>10

LEMMA AppendFacts ==
    ASSUME NEW u \in Seq(Nat), NEW x \in Nat, NEW q \in Nat, q = Len(u)
    PROVE  /\ Append(u, x) \in Seq(Nat) /\ Len(Append(u, x)) = q + 1 /\ Append(u, x)[q + 1] = x
           /\ \A i \in 1 .. q : Append(u, x)[i] = u[i]
OBVIOUS

LEMMA ReadListing ==
    ASSUME FsOK(fs), NEW f, Listing(fs, f), f.iter # ListHead, fs.dentries[f.iter].ino # "none", NEW g,
           g = [f EXCEPT !.listed = Append(@, f.iter), !.iter = NextOf(f.dentry, f.iter), !.pos = @ + 1]
    PROVE  Listing(fs, g)
<1>1. PICK d, a : d = f.dentry /\ a = fs.dentries[f.dentry].subs
  OBVIOUS
<1>2. PICK q, it, u : q = f.pos /\ it = f.iter /\ u = f.listed
  OBVIOUS
<1>3. f \in Files /\ d \in 1 .. Len(fs.dentries)
  BY <1>1 DEF Listing, Files
<1>4. q \in Nat /\ u \in Seq(Nat) /\ it \in Nat \cup {ListHead}
  BY <1>2, <1>3 DEF Files
<1>5. it \in Nat
  BY <1>2, <1>4
<1>6. Len(u) = q /\ \A i \in 1 .. q : u[i] = a[i] /\ fs.dentries[a[i]].ino # "none"
  BY <1>1, <1>2 DEF Listing
<1>7. q < Len(a) /\ it = a[q + 1]
  BY <1>1, <1>2 DEF Listing
<1>8. a \in Seq(Nat)
  <2>1. fs.dentries[d] \in Dentries
    BY <1>3, DentryTypes
  <2> QED BY <1>1, <2>1 DEF Dentries
<1>9. PICK l, k : l = Len(a) /\ k = q + 1
  OBVIOUS
<1>10. l \in Nat
  BY <1>8, <1>9
<1>11. k \in 1 .. l /\ k \in Nat /\ k <= l /\ k + 1 \in Nat /\ (k # l => k < l) /\ \A i \in 1 .. k : i \in 1 .. q \/ i = k
  BY <1>4, <1>7, <1>9, <1>10
<1>12. PICK nx : nx = NextOf(d, it)
  OBVIOUS
<1>13. nx = IF k = l THEN ListHead ELSE a[k + 1]
  BY <1>1, <1>3, <1>7, <1>9, <1>11, <1>12, NextOfIs
<1>14. k # l => k + 1 \in 1 .. l
  BY <1>10, <1>11
<1>15. nx \in Nat \cup {ListHead}
  <2>1. k # l => a[k + 1] \in Nat
    BY <1>8, <1>9, <1>14
  <2> QED BY <1>13, <2>1
<1>16. nx # ListHead => k < l /\ nx = a[k + 1]
  BY <1>11, <1>13
<1>17. PICK h : h = Append(u, it)
  OBVIOUS
<1>18. h \in Seq(Nat) /\ Len(h) = k /\ h[k] = it /\ \A i \in 1 .. q : h[i] = u[i]
  BY <1>4, <1>5, <1>6, <1>9, <1>17, AppendFacts
<1>19. g = [f EXCEPT !.listed = h, !.iter = nx, !.pos = k]
  BY <1>1, <1>2, <1>9, <1>12, <1>17
<1>20. g \in Files /\ g.dentry = d /\ g.listed = h /\ g.iter = nx /\ g.pos = k
  BY <1>1, <1>3, <1>11, <1>15, <1>18, <1>19 DEF Files
<1>21. \A i \in 1 .. k : h[i] = a[i] /\ fs.dentries[a[i]].ino # "none"
  <2>1. h[k] = a[k] /\ fs.dentries[a[k]].ino # "none"
    BY <1>2, <1>7, <1>9, <1>18
  <2>2. \A i \in 1 .. q : h[i] = a[i] /\ fs.dentries[a[i]].ino # "none"
    BY <1>6, <1>18
  <2> QED BY <1>11, <2>1, <2>2
<1>22. fs.dentries[d].subs = a /\ k <= Len(a) /\ (nx # ListHead => k < Len(a) /\ nx = a[k + 1])
  BY <1>1, <1>9, <1>11, <1>16
<1> QED BY <1>3, <1>18, <1>20, <1>21, <1>22, Zenon DEF Listing, Files

-----------------------------------------------------------------------------
(* The inductive invariant *)

LEMMA FdsClosed ==
    ASSUME NEW s
    PROVE  FdsOK(s, [i \in 0 .. (MAX_FDS - 1) |-> Closed])
BY DEF FdsOK

LEMMA FdsSet ==
    ASSUME NEW s, NEW T, FdsOK(s, T), NEW fd \in DOMAIN T, NEW f, f = Closed \/ Listing(s, f)
    PROVE  FdsOK(s, [T EXCEPT ![fd] = f])
BY DEF FdsOK

LEMMA InitInv ==
    ASSUME Init
    PROVE  VfsInv
<1>1. Tree(mount_root) /\ {"dev", "data"} \subseteq Names
  BY RootTree, VfsAssumption
<1>2. Fstab("dev").abs = TRUE /\ Fstab("data").abs = TRUE
      /\ Fstab("dev").units = <<"dev">> /\ Fstab("data").units = <<"data">>
  BY DEF Fstab
<1>3. <<"dev">> \in Seq(Units) /\ <<"data">> \in Seq(Units)
  BY <1>1 DEF Units
<1>4. PICK s \in sys_mount(sys_mkdir(mount_root, "dev"), Fstab("dev"), "devfs", TRUE), card \in BOOLEAN :
         fs \in sys_mount(sys_mkdir(s, "data"), Fstab("data"), "ext4", card)
  BY Zenon DEF Init, populate_rootfs
<1>5. Tree(sys_mkdir(mount_root, "dev"))
  BY <1>1, MkdirOK
<1>6. Tree(s)
  <2>1. Fstab("dev").abs \in BOOLEAN /\ Fstab("dev").units \in Seq(Units) /\ "devfs" \in Types
    BY <1>2, <1>3 DEF Types
  <2>2. PICK t, p, ok : t = sys_mkdir(mount_root, "dev") /\ p = Fstab("dev") /\ ok = TRUE
    OBVIOUS
  <2>3. /\ Tree(t) /\ p.abs \in BOOLEAN /\ p.units \in Seq(Units) /\ "devfs" \in Types /\ ok \in BOOLEAN
        /\ s \in sys_mount(t, p, "devfs", ok)
    BY <1>4, <1>5, <2>1, <2>2, Zenon
  <2> QED BY <2>3, SysMountOK
<1>7. Tree(sys_mkdir(s, "data"))
  BY <1>1, <1>6, MkdirOK
<1>8. Tree(fs)
  <2>1. Fstab("data").abs \in BOOLEAN /\ Fstab("data").units \in Seq(Units) /\ "ext4" \in Types
    BY <1>2, <1>3 DEF Types
  <2> QED BY <1>4, <1>7, <2>1, SysMountOK
<1>9. FdsOK(fs, fds)
  BY FdsClosed DEF Init
<1> QED BY <1>8, <1>9 DEF VfsInv

LEMMA NextInv ==
    ASSUME VfsInv, [Next]_vars
    PROVE  VfsInv' /\ Grows(fs, fs')
<1>1. Tree(fs) /\ FsOK(fs) /\ FdsOK(fs, fds) /\ Grows(fs, fs)
  BY GrowsReflexive DEF VfsInv, Tree
<1>2. ASSUME Tree(fs'), Grows(fs, fs'), UNCHANGED fds
      PROVE  VfsInv'
  <2>1. FsOK(fs')
    BY <1>2 DEF Tree
  <2>2. FdsOK(fs', fds)
    BY <1>1, <1>2, <2>1, FdsStable
  <2> QED BY <1>2, <2>2 DEF VfsInv
<1>3. CASE UNCHANGED vars
  BY <1>1, <1>2, <1>3 DEF vars
<1>4. ASSUME NEW n \in Names, Mkdir(n)
      PROVE  VfsInv' /\ Grows(fs, fs')
  <2>1. fs' = sys_mkdir(fs, n) /\ UNCHANGED fds
    BY <1>4 DEF Mkdir
  <2>2. Tree(fs') /\ Grows(fs, fs')
    BY <1>1, <2>1, MkdirOK
  <2> QED BY <1>2, <2>1, <2>2
<1>5. ASSUME NEW p \in Paths, NEW type \in Types, NEW ok \in BOOLEAN, Mount(p, type, ok)
      PROVE  VfsInv' /\ Grows(fs, fs')
  <2>1. fs' \in sys_mount(fs, p, type, ok) /\ UNCHANGED fds
    BY <1>5 DEF Mount
  <2>2. p.abs \in BOOLEAN /\ p.units \in Seq(Units)
    BY PathTypes
  <2>3. Tree(fs') /\ Grows(fs, fs')
    BY <1>1, <2>1, <2>2, SysMountOK
  <2> QED BY <1>2, <2>1, <2>3
<1>6. ASSUME NEW p \in Paths, Chdir(p)
      PROVE  VfsInv' /\ Grows(fs, fs')
  <2>1. fs' \in sys_chdir(fs, p) /\ UNCHANGED fds
    BY <1>6 DEF Chdir
  <2>2. p.abs \in BOOLEAN /\ p.units \in Seq(Units)
    BY PathTypes
  <2>3. Tree(fs') /\ Grows(fs, fs')
    BY <1>1, <2>1, <2>2, SysChdirOK
  <2> QED BY <1>2, <2>1, <2>3
<1>7. ASSUME NEW p \in Paths, Open(p)
      PROVE  VfsInv' /\ Grows(fs, fs')
  <2>1. PICK fd \in Unused, w \in path_walk(fs, p) :
         IF w.ret # "ok"
         THEN fs' = AfterFailure(w) /\ UNCHANGED fds
         ELSE IF w.fs.dentries[w.at.dentry].ino = "none"
         THEN fs' = [w.fs EXCEPT !.fault = "null"] /\ UNCHANGED fds
         ELSE /\ fs' = w.fs
              /\ fds' = [fds EXCEPT ![fd] =
                    [dentry |-> w.at.dentry, pos |-> 0, listed |-> <<>>,
                     iter |-> First(w.fs, w.at.dentry)]]
    BY <1>7 DEF Open
  <2>2. WalkOK(fs, w)
    BY <1>1, <2>1, PathTypes, PathWalkOK
  <2>3. Tree(w.fs) /\ Grows(fs, w.fs) /\ At(w.fs, w.at) /\ FsOK(w.fs)
    BY <2>2 DEF WalkOK, Tree
  <2>4. CASE fs' = AfterFailure(w) /\ UNCHANGED fds
    BY <1>1, <1>2, <2>2, <2>4, AfterFailureOK
  <2>5. CASE fs' = [w.fs EXCEPT !.fault = "null"] /\ UNCHANGED fds
    <3>1. Tree(fs') /\ Grows(w.fs, fs')
      BY <2>3, <2>5, FaultTree
    <3>2. Grows(fs, fs')
      BY <1>1, <2>3, <3>1, GrowsTransitive DEF Tree
    <3> QED BY <1>2, <2>5, <3>1, <3>2
  <2>6. CASE /\ fs' = w.fs
             /\ fds' = [fds EXCEPT ![fd] =
                   [dentry |-> w.at.dentry, pos |-> 0, listed |-> <<>>,
                    iter |-> First(w.fs, w.at.dentry)]]
    <3>1. PICK f : f = [dentry |-> w.at.dentry, pos |-> 0, listed |-> <<>>, iter |-> First(w.fs, w.at.dentry)]
      OBVIOUS
    <3>2. Listing(w.fs, f)
      BY <2>3, <3>1, OpenListing DEF At
    <3>3. FdsOK(w.fs, fds) /\ fd \in DOMAIN fds
      BY <1>1, <2>3, FdsStable DEF Unused
    <3>4. FdsOK(w.fs, [fds EXCEPT ![fd] = f])
      BY <3>2, <3>3, FdsSet
    <3>5. fs' = w.fs /\ fds' = [fds EXCEPT ![fd] = f]
      BY <2>6, <3>1
    <3> QED BY <2>3, <3>4, <3>5 DEF VfsInv
  <2> QED BY <2>1, <2>4, <2>5, <2>6
<1>8. ASSUME NEW fd \in DOMAIN fds, Close(fd)
      PROVE  VfsInv' /\ Grows(fs, fs')
  <2>1. fds' = [fds EXCEPT ![fd] = Closed] /\ fs' = fs
    BY <1>8 DEF Close
  <2>2. FdsOK(fs, [fds EXCEPT ![fd] = Closed])
    BY <1>1, FdsSet
  <2> QED BY <1>1, <2>1, <2>2 DEF VfsInv
<1>9. ASSUME NEW fd \in DOMAIN fds, Readdir(fd)
      PROVE  VfsInv' /\ Grows(fs, fs')
  <2>1. PICK f : f = fds[fd]
    OBVIOUS
  <2>2. f # Closed /\ Listing(fs, f)
    BY <1>1, <1>9, <2>1 DEF Readdir, FdsOK
  <2>3. CASE fs' = [fs EXCEPT !.fault = "head"] /\ UNCHANGED fds
    BY <1>1, <1>2, <2>3, FaultTree
  <2>4. CASE fs' = [fs EXCEPT !.fault = "null"] /\ UNCHANGED fds
    BY <1>1, <1>2, <2>4, FaultTree
  <2>5. CASE /\ f.iter # ListHead /\ fs.dentries[f.iter].ino # "none" /\ fs' = fs
             /\ fds' = [fds EXCEPT ![fd].listed = Append(@, f.iter),
                                   ![fd].iter = NextOf(f.dentry, f.iter),
                                   ![fd].pos = @ + 1]
    <3>1. PICK g : g = [f EXCEPT !.listed = Append(@, f.iter), !.iter = NextOf(f.dentry, f.iter), !.pos = @ + 1]
      OBVIOUS
    <3>2. Listing(fs, g)
      BY <1>1, <2>2, <2>5, <3>1, ReadListing
    <3>3. FdsOK(fs, [fds EXCEPT ![fd] = g])
      BY <1>1, <3>2, FdsSet
    <3>4. fds' = [fds EXCEPT ![fd] = g]
      BY <2>1, <2>5, <3>1, <2>2 DEF Listing
    <3> QED BY <1>1, <2>5, <3>3, <3>4 DEF VfsInv
  <2>6. \/ fs' = [fs EXCEPT !.fault = "head"] /\ UNCHANGED fds
        \/ fs' = [fs EXCEPT !.fault = "null"] /\ UNCHANGED fds
        \/ /\ f.iter # ListHead /\ fs.dentries[f.iter].ino # "none" /\ fs' = fs
           /\ fds' = [fds EXCEPT ![fd].listed = Append(@, f.iter),
                                 ![fd].iter = NextOf(f.dentry, f.iter),
                                 ![fd].pos = @ + 1]
    BY <1>9, <2>1 DEF Readdir
  <2> QED BY <2>3, <2>4, <2>5, <2>6
<1> QED BY <1>3, <1>4, <1>5, <1>6, <1>7, <1>8, <1>9 DEF Next

LEMMA VfsInvariant == Spec => []VfsInv
<1>1. Init => VfsInv
  BY InitInv
<1>2. VfsInv /\ [Next]_vars => VfsInv'
  BY NextInv
<1> QED BY <1>1, <1>2, PTL DEF Spec

-----------------------------------------------------------------------------
(* Results *)

LEMMA InvTypes ==
    ASSUME VfsInv
    PROVE  VfsTypeOK
<1>1. FsOK(fs) /\ fs \in FsTypes /\ At(fs, fs.pwd) /\ Len(fs.dentries) \in Nat /\ Len(fs.mounts) \in Nat
  BY DentryTypes DEF VfsInv, Tree, FsOK
<1>2. DOMAIN fs.dentries = 1 .. Len(fs.dentries) /\ DOMAIN fs.mounts = 1 .. Len(fs.mounts)
  BY <1>1 DEF FsTypes
<1>3. ASSUME NEW d \in 1 .. Len(fs.dentries), NEW e, e = fs.dentries[d]
      PROVE  /\ e.ino \in Inodes /\ e.sb \in 1 .. Len(fs.mounts) /\ e.parent \in 1 .. Len(fs.dentries)
             /\ fs.dentries[e.parent].sb = e.sb
             /\ IF e.parent = d THEN fs.mounts[e.sb].root = d
                ELSE d \in ToSet(fs.dentries[e.parent].subs)
  <2>1. Linked(fs, d) /\ e \in Dentries
    BY <1>1, <1>3, DentryTypes DEF FsOK
  <2>2. e.ino \in Inodes /\ e.sb \in 1 .. Len(fs.mounts) /\ e.parent \in 1 .. d /\ fs.dentries[e.parent].sb = e.sb
    BY <1>3, <2>1 DEF Linked, Dentries
  <2>3. e.parent \in 1 .. Len(fs.dentries)
    BY <1>1, <2>2
  <2>4. CASE e.parent = d
    BY <1>3, <2>1, <2>2, <2>3, <2>4 DEF Linked
  <2>5. CASE e.parent # d
    <3>1. PICK a : a = fs.dentries[e.parent].subs
      OBVIOUS
    <3>2. a \in Seq(Nat)
      <4>1. fs.dentries[e.parent] \in Dentries
        BY <1>1, <2>3, DentryTypes
      <4> QED BY <3>1, <4>1 DEF Dentries
    <3>3. PICK i \in 1 .. Len(a) : a[i] = d
      BY <1>3, <2>1, <2>5, <3>1 DEF Linked
    <3>4. d \in ToSet(a)
      BY <3>2, <3>3 DEF ToSet
    <3> QED BY <2>2, <2>3, <2>5, <3>1, <3>4
  <2> QED BY <2>4, <2>5
<1>4. ASSUME NEW m \in 2 .. Len(fs.mounts)
      PROVE  fs.mounts[m].parent \in 1 .. (m - 1) /\ fs.dentries[fs.mounts[m].point].sb = fs.mounts[m].parent
  <2>1. m \in 1 .. Len(fs.mounts) /\ m # 1
    BY <1>1
  <2>2. Hung(fs, m)
    BY <1>1, <2>1 DEF FsOK
  <2> QED BY <2>1, <2>2 DEF Hung
<1>5. fs.dentries[fs.pwd.dentry].sb = fs.pwd.mnt /\ fs.fault \in {"none", "null", "head"}
  BY <1>1 DEF At, FsTypes
<1> QED BY <1>2, <1>3, <1>4, <1>5 DEF VfsTypeOK

\* The dentry tree, the mounts and the current directory stay linked to one another
\* (path_walk(), d_alloc(), add_mount(), sys_chdir()), whatever `next' holds when
\* ".." comes first.
THEOREM TreeIsLinked == Spec => []VfsTypeOK
<1>1. VfsInv => VfsTypeOK
  BY InvTypes
<1> QED BY <1>1, VfsInvariant, PTL

LEMMA StepKeepsNames ==
    ASSUME VfsInv, VfsInv', Grows(fs, fs')
    PROVE  \A d \in DOMAIN fs.dentries :
             /\ \A n \in Names :
                  LET e == d_lookup(fs, d, n)
                  IN  e # NULL => d_lookup(fs', d, n) = e
             /\ LET m == lookup_mnt(fs, d)
                IN  m # NULL => lookup_mnt(fs', d) = m
<1>1. FsOK(fs) /\ FsOK(fs')
  BY DEF VfsInv, Tree
<1>2. DOMAIN fs.dentries = 1 .. Len(fs.dentries)
  BY <1>1 DEF FsOK, FsTypes
<1>3. ASSUME NEW d \in 1 .. Len(fs.dentries), NEW n \in Names, d_lookup(fs, d, n) # NULL
      PROVE  d_lookup(fs', d, n) = d_lookup(fs, d, n)
  BY <1>1, <1>3, LookupStable DEF NULL
<1>4. ASSUME NEW d, lookup_mnt(fs, d) # NULL
      PROVE  lookup_mnt(fs', d) = lookup_mnt(fs, d)
  BY <1>1, <1>4, MountStable DEF NULL
<1> QED BY <1>2, <1>3, <1>4

\* What a name in a directory leads to, and the mount that covers a directory, never
\* change (d_lookup() and lookup_mnt() take the oldest), although d_alloc() and
\* add_mount() look for none.
THEOREM NamesAreStable == Spec => NamesStable
<1>1. VfsInv /\ [Next]_vars => VfsInv' /\ Grows(fs, fs')
  BY NextInv
<1>2. VfsInv /\ VfsInv' /\ [Next]_vars =>
        [\A d \in DOMAIN fs.dentries :
         /\ \A n \in Names :
              LET e == d_lookup(fs, d, n)
              IN  e # NULL => d_lookup(fs', d, n) = e
         /\ LET m == lookup_mnt(fs, d)
            IN  m # NULL => lookup_mnt(fs', d) = m]_vars
  BY <1>1, StepKeepsNames
<1> QED BY <1>2, VfsInvariant, PTL DEF Spec, NamesStable

LEMMA ListingIsWhole ==
    ASSUME NEW s, FsOK(s), Sized(s), NEW f, Listing(s, f), Type(s, f.dentry) # "ext4",
           f.pos = s.dentries[f.dentry].i_size
    PROVE  /\ ToSet(f.listed) = {d \in ToSet(s.dentries[f.dentry].subs) : s.dentries[d].ino # "none"}
           /\ \A i, j \in DOMAIN f.listed : i < j => f.listed[i] < f.listed[j]
<1>1. PICK d, a : d = f.dentry /\ a = s.dentries[f.dentry].subs
  OBVIOUS
<1>2. PICK q, u : q = f.pos /\ u = f.listed
  OBVIOUS
<1>3. d \in 1 .. Len(s.dentries) /\ q \in Nat /\ u \in Seq(Nat)
  BY <1>1, <1>2 DEF Listing
<1>4. a \in Seq(Nat)
  <2>1. s.dentries[d] \in Dentries
    BY <1>3, DentryTypes
  <2> QED BY <1>1, <2>1 DEF Dentries
<1>5. /\ Len(u) = q /\ q <= Len(a) /\ \A i \in 1 .. q : u[i] = a[i] /\ s.dentries[a[i]].ino # "none"
  BY <1>1, <1>2 DEF Listing
<1>6. PICK l : l = Len(a)
  OBVIOUS
<1>7. l \in Nat /\ q <= l /\ \A i \in 1 .. q : i \in 1 .. l
  BY <1>3, <1>4, <1>5, <1>6
<1>8. PICK X : X = Entries(s, d)
  OBVIOUS
<1>9. X = {i \in 1 .. l : s.dentries[a[i]].ino # "none"}
  BY <1>1, <1>6, <1>8 DEF Entries
<1>10. q = Cardinality(X)
  BY <1>1, <1>2, <1>3, <1>8 DEF Sized
<1>11. 1 .. q \subseteq X
  BY <1>5, <1>7, <1>9
<1>12. IsFiniteSet(X)
  <2>1. IsFiniteSet(1 .. l) /\ X \subseteq 1 .. l
    BY <1>7, <1>9, FS_Interval
  <2> QED BY <2>1, FS_Subset
<1>13. Cardinality(1 .. q) = q
  <2>1. Cardinality(1 .. q) = IF 1 > q THEN 0 ELSE q - 1 + 1
    BY <1>3, FS_Interval, SMTT(40)
  <2> QED BY <1>3, <2>1
<1>14. X = 1 .. q
  <2>1. PICK Y : Y = 1 .. q
    OBVIOUS
  <2>2. Y \in SUBSET X /\ Cardinality(X) = Cardinality(Y)
    BY <1>10, <1>11, <1>13, <2>1
  <2>3. X = Y
    BY <1>12, <2>2, FS_Subset
  <2> QED BY <2>1, <2>3
<1>15. DOMAIN u = 1 .. q /\ DOMAIN a = 1 .. l
  BY <1>3, <1>4, <1>5, <1>6
<1>16. ToSet(u) = {x \in ToSet(a) : s.dentries[x].ino # "none"}
  <2>1. ToSet(u) = {u[i] : i \in 1 .. q} /\ ToSet(a) = {a[i] : i \in 1 .. l}
    BY <1>15 DEF ToSet
  <2>2. \A x : x \in ToSet(u) => x \in ToSet(a) /\ s.dentries[x].ino # "none"
    BY <1>5, <1>7, <2>1
  <2>3. \A x : x \in ToSet(a) /\ s.dentries[x].ino # "none" => x \in ToSet(u)
    <3> SUFFICES ASSUME NEW i \in 1 .. l, s.dentries[a[i]].ino # "none"
                 PROVE  a[i] \in ToSet(u)
      BY <2>1
    <3>1. i \in 1 .. q
      BY <1>9, <1>14
    <3> QED BY <1>5, <2>1, <3>1
  <2> QED BY <2>2, <2>3
<1>17. \A i, j \in 1 .. q : i < j => u[i] < u[j]
  <2>1. \A i, j \in 1 .. l : i < j => a[i] < a[j]
    BY <1>1, <1>3, <1>6 DEF FsOK, Linked
  <2> QED BY <1>5, <1>7, <2>1
<1> QED BY <1>1, <1>2, <1>15, <1>16, <1>17

\* A listing that has reached i_size without a fault has shown every entry once, in
\* the order of creation: ramfs_readdir() stops by a count and walks by pointers, and
\* lookups and mkdir add to the list meanwhile.
THEOREM ListingIsComplete == Spec => []ListingComplete
<1>1. ASSUME VfsInv PROVE ListingComplete
  <2>1. FsOK(fs) /\ Sized(fs) /\ FdsOK(fs, fds)
    BY <1>1 DEF VfsInv, Tree
  <2>2. \A fd \in DOMAIN fds : fds[fd] = Closed \/ Listing(fs, fds[fd])
    BY <2>1 DEF FdsOK
  <2> QED BY <2>1, <2>2, ListingIsWhole DEF ListingComplete
<1> QED BY <1>1, VfsInvariant, PTL

-----------------------------------------------------------------------------
(* sys_getcwd() *)

\* A dentry that has a name in a directory and is found there.
Named(s, d) == d \in 1 .. Len(s.dentries) /\ s.dentries[d].parent # d /\ Found(s, d)

\* x is d, or the root of a mount on d.
Hangs(s, x, d) ==
    x = d \/ (/\ x # Root /\ s.dentries[x].parent = x
              /\ s.mounts[s.dentries[x].sb].point = d)

\* The directory to which the i-th name of the stack leads (0: where the path begins).
Below(s, stack, i) == IF i = Len(stack) THEN s.pwd.dentry ELSE s.dentries[stack[i + 1]].parent

CwdInv(s, c) ==
    /\ c \in [at : Places, stack : Seq(Nat)] /\ At(s, c.at) /\ Found(s, c.at.dentry)
    /\ \A i \in 1 .. Len(c.stack) : Named(s, c.stack[i]) /\ Hangs(s, Below(s, c.stack, i), c.stack[i])
    /\ Hangs(s, Below(s, c.stack, 0), c.at.dentry)

\* A dentry is the root of its mount exactly when it is its own parent.
LEMMA RootIsRoot ==
    ASSUME NEW s, FsOK(s), NEW at, At(s, at)
    PROVE  /\ at.dentry = s.mounts[at.mnt].root <=> s.dentries[at.dentry].parent = at.dentry
           /\ at.dentry # Root /\ s.dentries[at.dentry].parent = at.dentry => at.mnt # 1
<1>1. PICK d, m : d = at.dentry /\ m = at.mnt
  OBVIOUS
<1>2. d \in 1 .. Len(s.dentries) /\ s.dentries[d].sb = m /\ Linked(s, d)
  BY <1>1 DEF At, FsOK
<1>3. m \in 1 .. Len(s.mounts) /\ (s.dentries[d].parent = d => s.mounts[m].root = d)
  BY <1>2 DEF Linked
<1>4. Hung(s, m)
  BY <1>3 DEF FsOK
<1>5. s.dentries[s.mounts[m].root].parent = s.mounts[m].root /\ (m = 1 => s.mounts[m].root = 1)
  BY <1>4 DEF Hung
<1> QED BY <1>1, <1>3, <1>5 DEF Root

\* The directories on the way back: where the walk is after each name.
LEMMA BelowAll ==
    ASSUME NEW s, Tree(s), NEW k \in Seq(Nat), \A i \in 1 .. Len(k) : Named(s, k[i]), NEW i \in 0 .. Len(k)
    PROVE  Below(s, k, i) \in 1 .. Len(s.dentries) /\ Found(s, Below(s, k, i))
<1>1. FsOK(s) /\ Walked(s) /\ Len(s.dentries) \in Nat /\ Len(k) \in Nat
  BY DentryTypes DEF Tree
<1>2. CASE i = Len(k)
  <2>1. Below(s, k, i) = s.pwd.dentry
    BY <1>2 DEF Below
  <2> QED BY <1>1, <2>1 DEF FsOK, At, Walked
<1>3. CASE i # Len(k)
  <2>1. PICK d : d = k[i + 1]
    OBVIOUS
  <2>2. Below(s, k, i) = s.dentries[d].parent
    BY <1>3, <2>1 DEF Below
  <2>3. i + 1 \in 1 .. Len(k)
    BY <1>1, <1>3
  <2>4. Named(s, d)
    BY <2>1, <2>3
  <2>5. d \in 1 .. Len(s.dentries) /\ s.dentries[d].parent # d /\ Linked(s, d)
    BY <1>1, <2>4 DEF Named, FsOK
  <2>6. Found(s, s.dentries[d].parent)
    BY <1>1, <2>5 DEF Walked
  <2>7. s.dentries[d].parent \in 1 .. d
    BY <2>5 DEF Linked
  <2> QED BY <1>1, <2>2, <2>5, <2>6, <2>7
<1> QED BY <1>2, <1>3

\* A mount that walks can end at does not hang on a root.
LEMMA HangsName ==
    ASSUME NEW s, NEW x, Found(s, x), NEW d, Hangs(s, x, d), x # d
    PROVE  /\ s.dentries[d].parent # d /\ lookup_mnt(s, d) = s.dentries[x].sb
           /\ x # Root /\ s.dentries[x].parent = x
<1>1. x # Root /\ s.dentries[x].parent = x /\ s.mounts[s.dentries[x].sb].point = d
  BY DEF Hangs
<1> QED BY <1>1 DEF Found

LEMMA PrependFacts ==
    ASSUME NEW u \in Seq(Nat), NEW x \in Nat, NEW l \in Nat, l = Len(u)
    PROVE  /\ <<x>> \o u \in Seq(Nat) /\ Len(<<x>> \o u) = l + 1 /\ (<<x>> \o u)[1] = x
           /\ \A i \in 1 .. l : (<<x>> \o u)[i + 1] = u[i]
OBVIOUS

LEMMA CwdStepOK ==
    ASSUME NEW s, Tree(s), NEW c, CwdInv(s, c)
    PROVE  /\ CwdInv(s, CwdStep(s, c))
           /\ c.at.dentry # Root => CwdStep(s, c).at.dentry < c.at.dentry
           /\ c.at.dentry = Root => CwdStep(s, c) = c
<1>1. PICK d, e, k : d = c.at.dentry /\ e = CwdStep(s, c) /\ k = c.stack
  OBVIOUS
<1>2. FsOK(s) /\ Len(s.dentries) \in Nat /\ At(s, c.at) /\ Found(s, d) /\ d \in 1 .. Len(s.dentries) /\ Linked(s, d)
  BY <1>1, DentryTypes DEF Tree, CwdInv, At, FsOK
<1>3. c \in [at : Places, stack : Seq(Nat)] /\ c.at \in Places /\ k \in Seq(Nat)
  BY <1>1 DEF CwdInv
<1>4. /\ \A i \in 1 .. Len(k) : Named(s, k[i]) /\ Hangs(s, Below(s, k, i), k[i])
      /\ Hangs(s, Below(s, k, 0), d)
  BY <1>1 DEF CwdInv
<1>5. PICK x : x = Below(s, k, 0)
  OBVIOUS
<1>6. x \in 1 .. Len(s.dentries) /\ Found(s, x) /\ Hangs(s, x, d)
  <2>1. 0 \in 0 .. Len(k)
    BY <1>3
  <2> QED BY <1>3, <1>4, <1>5, <2>1, BelowAll
<1>7. CASE d = Root
  <2>1. e = c
    BY <1>1, <1>7 DEF CwdStep
  <2> QED BY <1>1, <1>7, <2>1
<1>8. CASE d # Root /\ s.dentries[d].parent = d
  <2>1. PICK up : up = follow_up(s, c.at)
    OBVIOUS
  <2>2. d = s.mounts[c.at.mnt].root /\ c.at.mnt # 1
    BY <1>1, <1>2, <1>8, RootIsRoot
  <2>3. e = [c EXCEPT !.at = up]
    BY <1>1, <1>8, <2>1, <2>2 DEF CwdStep
  <2>4. up.dentry # NULL /\ At(s, up) /\ Found(s, up.dentry)
    BY <1>2, <2>1, <2>2, FollowUpAt
  <2>5. e.at = up /\ e.stack = k /\ e \in [at : Places, stack : Seq(Nat)]
    BY <1>1, <1>3, <2>3, <2>4 DEF At
  <2>6. x = d
    BY <1>6, <1>8, HangsName
  <2>7. up.dentry = s.mounts[s.dentries[d].sb].point
    BY <1>1, <1>2, <2>1 DEF follow_up, At
  <2>8. Hangs(s, x, up.dentry)
    BY <1>8, <2>6, <2>7 DEF Hangs
  <2>9. CwdInv(s, e)
    BY <1>4, <1>5, <2>4, <2>5, <2>8 DEF CwdInv
  <2>10. up.dentry < d
    <3>1. PICK m : m = s.dentries[d].sb
      OBVIOUS
    <3>2. m \in 1 .. Len(s.mounts) /\ m # 1 /\ s.mounts[m].root = d
      BY <1>1, <1>2, <2>2, <3>1 DEF Linked, At
    <3>3. Hung(s, m)
      BY <1>2, <3>2 DEF FsOK
    <3>4. s.mounts[m].point \in 1 .. d - 1
      BY <3>2, <3>3 DEF Hung
    <3> QED BY <1>2, <2>7, <3>1, <3>4
  <2> QED BY <1>1, <1>8, <2>5, <2>9, <2>10
<1>9. CASE d # Root /\ s.dentries[d].parent # d
  <2>1. PICK p, at, h : /\ p = s.dentries[d].parent /\ at = [dentry |-> s.dentries[c.at.dentry].parent, mnt |-> c.at.mnt]
                        /\ h = <<d>> \o k
    OBVIOUS
  <2>2. d # s.mounts[c.at.mnt].root
    BY <1>1, <1>2, <1>9, RootIsRoot
  <2>3. [c.at EXCEPT !.dentry = s.dentries[c.at.dentry].parent] = at
    BY <1>3, <2>1 DEF Places
  <2>4. e = [at |-> at, stack |-> h]
    BY <1>1, <1>9, <2>1, <2>2, <2>3 DEF CwdStep
  <2>5. At(s, at) /\ Found(s, at.dentry) /\ at.dentry = p
    BY <1>1, <1>2, <2>1, ParentAt
  <2>6. PICK l : l = Len(k)
    OBVIOUS
  <2>7. l \in Nat
    BY <1>3, <2>6
  <2>8. h \in Seq(Nat) /\ Len(h) = l + 1 /\ h[1] = d /\ \A i \in 1 .. l : h[i + 1] = k[i]
    BY <1>2, <1>3, <2>1, <2>6, <2>7, PrependFacts
  <2>9. e \in [at : Places, stack : Seq(Nat)] /\ e.at = at /\ e.stack = h
    BY <2>4, <2>5, <2>8 DEF At
  <2>10. Named(s, d)
    BY <1>2, <1>9 DEF Named
  <2>11. Below(s, h, 0) = p
    BY <2>1, <2>7, <2>8 DEF Below
  <2>12. \A i \in 0 .. l : Below(s, h, i + 1) = Below(s, k, i)
    <3> TAKE i \in 0 .. l
    <3>1. CASE i = l
      BY <2>6, <2>8, <3>1 DEF Below
    <3>2. CASE i # l
      <4>1. i + 1 \in 1 .. l /\ i + 1 # l + 1
        BY <2>7, <3>2
      <4>2. h[i + 1 + 1] = k[i + 1]
        BY <2>8, <4>1
      <4> QED BY <2>6, <2>8, <3>2, <4>1, <4>2 DEF Below
    <3> QED BY <3>1, <3>2
  <2>13. ASSUME NEW i \in 1 .. l + 1
         PROVE  Named(s, h[i]) /\ Hangs(s, Below(s, h, i), h[i])
    <3>1. PICK j : j = i - 1
      OBVIOUS
    <3>2. j \in 0 .. l /\ i = j + 1
      BY <2>7, <3>1
    <3>3. Below(s, h, i) = Below(s, k, j)
      BY <2>12, <3>2
    <3>4. CASE j = 0
      BY <1>5, <1>6, <2>8, <2>10, <3>2, <3>3, <3>4
    <3>5. CASE j # 0
      <4>1. j \in 1 .. l /\ j \in 1 .. Len(k)
        BY <2>6, <2>7, <3>2, <3>5
      <4>2. h[i] = k[j]
        BY <2>8, <3>2, <4>1
      <4> QED BY <1>4, <3>3, <4>1, <4>2
    <3> QED BY <3>4, <3>5
  <2>14. Hangs(s, Below(s, h, 0), p)
    BY <2>11 DEF Hangs
  <2>15. CwdInv(s, e)
    BY <2>5, <2>8, <2>9, <2>13, <2>14 DEF CwdInv
  <2>16. p < d
    <3>1. p \in 1 .. d /\ p # d
      BY <1>2, <1>9, <2>1 DEF Linked
    <3> QED BY <1>2, <3>1
  <2> QED BY <1>1, <1>9, <2>5, <2>9, <2>15, <2>16
<1> QED BY <1>7, <1>8, <1>9

CwdStart(s) == [at |-> s.pwd, stack |-> <<>>]
CwdIs(s, f, n) == f = [i \in 0 .. n |-> IF i = 0 THEN CwdStart(s) ELSE CwdStep(s, f[i - 1])]

LEMMA CwdExists ==
    ASSUME NEW s, NEW n \in Nat
    PROVE  \E f : CwdIs(s, f, n)
<1> DEFINE T == {k \in Nat : ~ \E f : CwdIs(s, f, k)}
<1>1. SUFFICES ASSUME T # {} PROVE FALSE
  OBVIOUS
<1>2. PICK k \in T : \A y \in T : k <= y
  <2>1. T \subseteq Nat
    OBVIOUS
  <2> HIDE DEF T
  <2> QED BY <1>1, <2>1, LeastNat
<1>3. k \in Nat /\ ~ \E f : CwdIs(s, f, k)
  BY <1>2
<1>4. CASE k = 0
  <2>1. PICK f : f = [i \in 0 .. 0 |-> CwdStart(s)]
    OBVIOUS
  <2>2. \A i \in 0 .. 0 : i = 0
    OBVIOUS
  <2>3. CwdIs(s, f, 0)
    BY <2>1, <2>2 DEF CwdIs
  <2> QED BY <1>3, <1>4, <2>3
<1>5. CASE k # 0
  <2>1. PICK j \in Nat : k = j + 1
    <3>1. k - 1 \in Nat /\ k = (k - 1) + 1
      BY <1>3, <1>5
    <3> QED BY <3>1
  <2>2. PICK f : CwdIs(s, f, j)
    <3>1. ~(k <= j)
      BY <2>1
    <3> QED BY <1>2, <3>1
  <2>3. /\ DOMAIN f = 0 .. j
        /\ \A i \in 0 .. j : f[i] = IF i = 0 THEN CwdStart(s) ELSE CwdStep(s, f[i - 1])
    BY <2>2 DEF CwdIs
  <2>4. PICK g : g = [i \in 0 .. k |-> IF i = k THEN CwdStep(s, f[j]) ELSE f[i]]
    OBVIOUS
  <2>5. \A i \in 0 .. k : g[i] = IF i = 0 THEN CwdStart(s) ELSE CwdStep(s, g[i - 1])
    <3> TAKE i \in 0 .. k
    <3>1. CASE i = k
      <4>1. g[i] = CwdStep(s, f[j]) /\ i # 0 /\ i - 1 = j /\ j \in 0 .. k /\ j # k
        BY <1>3, <1>5, <2>1, <2>4, <3>1
      <4>2. g[j] = f[j]
        BY <2>4, <4>1
      <4> QED BY <3>1, <4>1, <4>2
    <3>2. CASE i # k /\ i = 0
      <4>1. g[i] = f[i] /\ i \in 0 .. j
        BY <1>3, <2>1, <2>4, <3>2
      <4> QED BY <2>3, <3>2, <4>1
    <3>3. CASE i # k /\ i # 0
      <4>1. g[i] = f[i] /\ i \in 0 .. j /\ i - 1 \in 0 .. k /\ i - 1 # k
        BY <1>3, <2>1, <2>4, <3>3
      <4>2. g[i - 1] = f[i - 1]
        BY <2>4, <4>1
      <4> QED BY <2>3, <3>3, <4>1, <4>2
    <3> QED BY <3>1, <3>2, <3>3
  <2>6. CwdIs(s, g, k)
    BY <2>4, <2>5 DEF CwdIs
  <2> QED BY <1>3, <2>6
<1> QED BY <1>4, <1>5

\* The loop ends at the root, since every turn goes to an older dentry.
LEMMA GetcwdOK ==
    ASSUME NEW s, Tree(s), NEW c, c = sys_getcwd(s)
    PROVE  CwdInv(s, c) /\ c.at.dentry = Root
<1>1. PICK n : n = Len(s.dentries)
  OBVIOUS
<1>2. n \in Nat /\ FsOK(s) /\ Walked(s)
  BY <1>1, DentryTypes DEF Tree
<1>3. PICK f : f = CHOOSE g : CwdIs(s, g, n)
  OBVIOUS
<1>4. CwdIs(s, f, n)
  BY <1>2, <1>3, CwdExists
<1>5. c = f[n]
  BY <1>1, <1>3 DEF sys_getcwd, CwdIs, CwdStart
<1>6. \A i \in 0 .. n : f[i] = IF i = 0 THEN CwdStart(s) ELSE CwdStep(s, f[i - 1])
  BY <1>4 DEF CwdIs
<1> DEFINE Good(i) == CwdInv(s, f[i]) /\ (f[i].at.dentry = Root \/ f[i].at.dentry <= n - i)
           T == {i \in 0 .. n : ~Good(i)}
<1>7. Good(0)
  <2>1. f[0] = CwdStart(s)
    BY <1>2, <1>6
  <2>2. PICK b : b = CwdStart(s)
    OBVIOUS
  <2>3. At(s, s.pwd) /\ Found(s, s.pwd.dentry)
    BY <1>2 DEF FsOK, Walked
  <2>4. b \in [at : Places, stack : Seq(Nat)] /\ b.at = s.pwd /\ b.stack = <<>> /\ Len(b.stack) = 0
    BY <2>2, <2>3 DEF CwdStart, At
  <2>5. Below(s, b.stack, 0) = s.pwd.dentry
    BY <2>4 DEF Below
  <2>6. CwdInv(s, b)
    BY <2>3, <2>4, <2>5 DEF CwdInv, Hangs
  <2>7. s.pwd.dentry <= n - 0
    BY <1>1, <1>2, <2>3 DEF At
  <2> QED BY <2>1, <2>2, <2>4, <2>6, <2>7
<1>8. T = {}
  <2>1. SUFFICES ASSUME T # {} PROVE FALSE
    OBVIOUS
  <2>2. PICK k \in T : \A y \in T : k <= y
    <3>1. T \subseteq Nat
      BY <1>2
    <3> HIDE DEF T
    <3> QED BY <2>1, <3>1, LeastNat
  <2>3. k \in 0 .. n /\ ~Good(k)
    BY <2>2
  <2>4. k # 0
    <3> HIDE DEF Good
    <3> QED BY <1>7, <2>3
  <2>5. PICK j : j = k - 1
    OBVIOUS
  <2>6. j \in 0 .. n /\ ~(k <= j) /\ k = j + 1 /\ k \in Nat
    BY <1>2, <2>3, <2>4, <2>5
  <2>7. Good(j)
    BY <2>2, <2>6
  <2>8. f[k] = CwdStep(s, f[j])
    BY <1>6, <2>3, <2>4, <2>5
  <2>9. PICK a, b : a = f[j] /\ b = CwdStep(s, a)
    OBVIOUS
  <2>10. CwdInv(s, a) /\ (a.at.dentry = Root \/ a.at.dentry <= n - j)
    BY <2>7, <2>9
  <2>11. /\ CwdInv(s, b) /\ (a.at.dentry # Root => b.at.dentry < a.at.dentry)
         /\ a.at.dentry = Root => b = a
    BY <2>9, <2>10, CwdStepOK
  <2>12. a.at.dentry \in Nat /\ b.at.dentry \in Nat
    BY <2>10, <2>11 DEF CwdInv, At, Places
  <2>13. b.at.dentry = Root \/ b.at.dentry <= n - k
    <3>1. CASE a.at.dentry = Root
      BY <2>11, <3>1
    <3>2. CASE a.at.dentry # Root
      <4>1. a.at.dentry <= n - j /\ b.at.dentry < a.at.dentry
        BY <2>10, <2>11, <3>2
      <4> QED BY <1>2, <2>6, <2>12, <4>1
    <3> QED BY <3>1, <3>2
  <2>14. Good(k)
    BY <2>8, <2>9, <2>11, <2>13
  <2> HIDE DEF Good
  <2> QED BY <2>3, <2>14
<1>9. Good(n)
  <2>1. n \in 0 .. n
    BY <1>2
  <2> HIDE DEF Good
  <2> QED BY <1>8, <2>1
<1>10. CwdInv(s, c) /\ (c.at.dentry = Root \/ c.at.dentry <= n - n)
  BY <1>5, <1>9
<1>11. c.at.dentry >= 1 /\ c.at.dentry \in Nat
  BY <1>10 DEF CwdInv, At, Places
<1> QED BY <1>2, <1>10, <1>11

\* One name of the path of getcwd(), looked up again.
LEMMA BackStep ==
    ASSUME NEW s, Tree(s), NEW w, w.fs = s, w.ret = "ok", At(s, w.at), NEW d, Named(s, d),
           w.at.dentry = s.dentries[d].parent, NEW x, x \in 1 .. Len(s.dentries), Found(s, x), Hangs(s, x, d),
           lookup_mnt(s, d) # NULL => x = s.mounts[lookup_mnt(s, d)].root,
           w \in Walks, NEW v \in Component(w, s.dentries[d].name)
    PROVE  v \in Walks /\ v.fs = s /\ v.ret = "ok" /\ At(s, v.at) /\ v.at.dentry = x
<1>1. PICK p, n : p = s.dentries[d].parent /\ n = s.dentries[d].name
  OBVIOUS
<1>2. FsOK(s) /\ Len(s.dentries) \in Nat /\ d \in 1 .. Len(s.dentries) /\ p # d /\ Linked(s, d)
  BY <1>1, DentryTypes DEF Tree, Named, FsOK
<1>3. d_lookup(s, p, n) = d /\ s.dentries[p].ino = "dir" /\ d # 0
  BY <1>1, <1>2 DEF Named, Found
<1>4. n \in Names
  BY <1>1, <1>2 DEF Linked
<1>5. n # "." /\ n # ".."
  BY <1>4, VfsAssumption
<1>6. w.fs.dentries[w.at.dentry].ino = "dir"
  BY <1>1, <1>3
<1>7. v \in Name(w, n)
  BY <1>1, <1>4, <1>5, <1>6 DEF Component
<1>8. PICK at, to : at = [dentry |-> d, mnt |-> w.at.mnt] /\ to = FollowMount(s, at)
  OBVIOUS
<1>9. v \in Reached(w, to)
  BY <1>1, <1>3, <1>7, <1>8 DEF Name, NULL
<1>10. At(s, at) /\ at.dentry = d
  <2>1. d = d_lookup(s, w.at.dentry, n) /\ s.dentries[w.at.dentry].ino = "dir"
    BY <1>1, <1>3
  <2>2. At(s, [dentry |-> d, mnt |-> w.at.mnt])
    BY <1>3, <2>1, ChildAt, Zenon
  <2> QED BY <1>8, <2>2
<1>11. At(s, to)
  BY <1>1, <1>2, <1>8, <1>10, FollowMountAt DEF Named
<1>12. to.dentry = x
  <2>1. CASE lookup_mnt(s, d) = NULL
    <3>1. to.dentry = d
      BY <1>8, <1>10, <2>1 DEF FollowMount
    <3>2. x = d
      <4>1. SUFFICES ASSUME x # d PROVE FALSE
        OBVIOUS
      <4>2. lookup_mnt(s, d) = s.dentries[x].sb
        BY <4>1, HangsName
      <4>3. Linked(s, x)
        BY <1>2 DEF FsOK
      <4>4. s.dentries[x].sb # 0
        BY <4>3 DEF Linked
      <4> QED BY <2>1, <4>2, <4>4 DEF NULL
    <3> QED BY <3>1, <3>2
  <2>2. CASE lookup_mnt(s, d) # NULL
    BY <1>8, <1>10, <2>2 DEF FollowMount
  <2> QED BY <2>1, <2>2
<1>13. v = [w EXCEPT !.at = to, !.first = FALSE] /\ to \in Places
  BY <1>9, <1>11 DEF Reached, At
<1>14. v \in Walks /\ v.fs = s /\ v.ret = "ok" /\ v.at = to
  BY <1>13 DEF Walks
<1> QED BY <1>11, <1>12, <1>14

\* No mount hides a directory of the stack.
Unhidden(s, k) ==
    \A i \in 1 .. Len(k) :
       lookup_mnt(s, k[i]) # NULL => Below(s, k, i) = s.mounts[lookup_mnt(s, k[i])].root

\* The names of the stack lead from the root to the current directory.
LEMMA BackWalk ==
    ASSUME NEW s, Tree(s), NEW c, CwdInv(s, c), c.at.dentry = Root, Unhidden(s, c.stack), NEW p,
           p = [abs |-> TRUE, units |-> [i \in DOMAIN c.stack |-> s.dentries[c.stack[i]].name]],
           NEW w \in path_walk(s, p)
    PROVE  w.ret = "ok" /\ w.at = s.pwd
<1>1. PICK k, n : k = c.stack /\ n = Len(c.stack)
  OBVIOUS
<1>2. k \in Seq(Nat) /\ n \in Nat /\ n = Len(k) /\ DOMAIN k = 1 .. n
  BY <1>1 DEF CwdInv
<1>3. \A i \in 1 .. n : Named(s, k[i]) /\ Hangs(s, Below(s, k, i), k[i])
  BY <1>1 DEF CwdInv
<1>4. \A i \in 0 .. n : Below(s, k, i) \in 1 .. Len(s.dentries) /\ Found(s, Below(s, k, i))
  BY <1>2, <1>3, BelowAll
<1>5. \A i \in 1 .. n : lookup_mnt(s, k[i]) # NULL => Below(s, k, i) = s.mounts[lookup_mnt(s, k[i])].root
  BY <1>1 DEF Unhidden
<1>6. FsOK(s) /\ s \in FsTypes
  BY DEF Tree, FsOK
<1>7. s.dentries[1].parent = 1 /\ s.dentries[1].sb = 1
  <2>1. Hung(s, 1)
    BY <1>6, DentryTypes DEF FsOK
  <2> QED BY <2>1 DEF Hung
<1>8. Below(s, k, 0) = Root
  <2>1. Hangs(s, Below(s, k, 0), Root) /\ Found(s, Below(s, k, 0))
    BY <1>1, <1>2, <1>4 DEF CwdInv
  <2> QED BY <1>7, <2>1, HangsName DEF Root
<1>9. /\ p.abs = TRUE /\ p.units = [i \in 1 .. n |-> s.dentries[k[i]].name]
  BY <1>1, <1>2
<1>10. Len(p.units) = n /\ \A i \in 1 .. n : p.units[i] = s.dentries[k[i]].name
  <2>1. PICK q : q = p.units
    OBVIOUS
  <2>2. ASSUME NEW i \in 1 .. n PROVE s.dentries[k[i]].name \in Names
    <3>1. Linked(s, k[i]) /\ s.dentries[k[i]].parent # k[i]
      BY <1>3, <1>6 DEF Named, FsOK
    <3> QED BY <3>1 DEF Linked
  <2>3. q \in [1 .. n -> Names] /\ \A i \in 1 .. n : q[i] = s.dentries[k[i]].name
    BY <1>9, <2>1, <2>2
  <2>4. Len(q) = n
    BY <1>2, <2>3
  <2> QED BY <2>1, <2>3, <2>4
<1>11. PICK f : WalkRun(s, p, f, n)
  BY <1>2, <1>10, WalkFun
<1> DEFINE Back(v, i) == v \in Walks /\ v.fs = s /\ v.ret = "ok" /\ At(s, v.at) /\ v.at.dentry = Below(s, k, i)
           T == {i \in 0 .. n : ~ \A v \in f[i] : Back(v, i)}
<1>12. \A v \in f[0] : Back(v, 0)
  <2>1. f[0] = {Start(s, p)}
    BY <1>11 DEF WalkRun
  <2>2. PICK v : v = Start(s, p)
    OBVIOUS
  <2>3. v = [fs |-> s, ret |-> "ok", first |-> TRUE, at |-> [dentry |-> Root, mnt |-> 1]]
    BY <1>9, <2>2 DEF Start
  <2>4. At(s, v.at) /\ v \in Walks
    <3> HIDE DEF Back, T
    <3>1. p.abs = TRUE
      BY <1>9
    <3>2. WalkOK(s, Start(s, p))
      BY <3>1, RootStart
    <3>3. WalkOK(s, v)
      BY <2>2, <3>2, Zenon
    <3>4. v.fs = s
      BY <2>3
    <3> QED BY <3>3, <3>4 DEF WalkOK
  <2>5. Back(v, 0)
    BY <1>8, <2>3, <2>4
  <2> HIDE DEF Back
  <2> QED BY <2>1, <2>2, <2>5
<1>13. T = {}
  <2>1. SUFFICES ASSUME T # {} PROVE FALSE
    OBVIOUS
  <2>2. PICK m \in T : \A y \in T : m <= y
    <3>1. T \subseteq Nat
      BY <1>2
    <3> HIDE DEF T
    <3> QED BY <2>1, <3>1, LeastNat
  <2>3. m \in 0 .. n /\ ~ \A v \in f[m] : Back(v, m)
    <3> HIDE DEF Back
    <3> QED BY <2>2
  <2>4. m # 0
    <3> HIDE DEF Back
    <3> QED BY <1>12, <2>3
  <2>5. PICK j : j = m - 1
    OBVIOUS
  <2>6. j \in 0 .. n /\ ~(m <= j) /\ m \in 1 .. n /\ m = j + 1 /\ j # n
    BY <1>2, <2>3, <2>4, <2>5
  <2>7. \A v \in f[j] : Back(v, j)
    <3> HIDE DEF Back
    <3> QED BY <2>2, <2>6
  <2>8. f[m] = WalkStep(p, m, f[j])
    BY <1>11, <2>5, <2>6 DEF WalkRun
  <2>9. ASSUME NEW v \in f[m] PROVE Back(v, m)
    <3>1. PICK d, x : d = k[m] /\ x = Below(s, k, m)
      OBVIOUS
    <3>2. PICK u \in f[j] : v \in Component(u, p.units[m])
      BY <2>8 DEF WalkStep
    <3>3. p.units[m] = s.dentries[d].name
      BY <1>10, <2>6, <3>1
    <3>4. Below(s, k, j) = s.dentries[d].parent
      BY <1>2, <2>6, <3>1 DEF Below
    <3>5. u \in Walks /\ u.fs = s /\ u.ret = "ok" /\ At(s, u.at) /\ u.at.dentry = s.dentries[d].parent
      BY <2>7, <3>2, <3>4
    <3>6. Named(s, d) /\ Hangs(s, x, d)
      BY <1>3, <2>6, <3>1
    <3>7. x \in 1 .. Len(s.dentries) /\ Found(s, x)
      BY <1>4, <2>3, <3>1
    <3>8. lookup_mnt(s, d) # NULL => x = s.mounts[lookup_mnt(s, d)].root
      BY <1>5, <2>6, <3>1
    <3>9. v \in Walks /\ v.fs = s /\ v.ret = "ok" /\ At(s, v.at) /\ v.at.dentry = x
      BY <3>2, <3>3, <3>5, <3>6, <3>7, <3>8, BackStep
    <3> QED BY <3>1, <3>9
  <2> HIDE DEF Back
  <2> QED BY <2>3, <2>9
<1>14. Back(w, n)
  <2>1. n \in 0 .. n /\ w \in f[n]
    BY <1>2, <1>11 DEF WalkRun
  <2> HIDE DEF Back
  <2> QED BY <1>13, <2>1
<1>15. Below(s, k, n) = s.pwd.dentry
  BY <1>2 DEF Below
<1>16. w.ret = "ok" /\ At(s, w.at) /\ w.at.dentry = s.pwd.dentry
  BY <1>14, <1>15
<1>17. At(s, s.pwd)
  BY <1>6 DEF FsOK
<1>18. w.at.mnt = s.pwd.mnt /\ w.at \in Places /\ s.pwd \in Places
  BY <1>16, <1>17 DEF At
<1> QED BY <1>16, <1>18 DEF Places

\* The path that sys_getcwd() prints leads path_walk() back to the current directory,
\* on the right mount, unless a later mount hides a directory on the way; and its loop
\* always ends at the root.
THEOREM CwdLeadsBack == Spec => []CwdRoundTrip
<1>1. ASSUME VfsInv PROVE CwdRoundTrip
  <2>1. Tree(fs)
    BY <1>1 DEF VfsInv
  <2>2. PICK c, p : /\ c = sys_getcwd(fs)
                    /\ p = [abs |-> TRUE, units |-> [i \in DOMAIN c.stack |-> fs.dentries[c.stack[i]].name]]
    OBVIOUS
  <2>3. CwdInv(fs, c) /\ c.at.dentry = Root
    BY <2>1, <2>2, GetcwdOK
  <2>4. c.stack \in Seq(Nat) /\ DOMAIN c.stack = 1 .. Len(c.stack)
    BY <2>3 DEF CwdInv
  <2>5. ASSUME ~Hidden(c.stack) PROVE Unhidden(fs, c.stack)
    BY <2>4, <2>5 DEF Hidden, Unhidden, Below
  <2>6. ~Hidden(c.stack) => \A w \in path_walk(fs, p) : w.ret = "ok" /\ w.at = fs.pwd
    BY <2>1, <2>2, <2>3, <2>5, BackWalk
  <2> QED BY <2>2, <2>3, <2>6 DEF CwdRoundTrip
<1> QED BY <1>1, VfsInvariant, PTL
=============================================================================
