---------------------------- MODULE HeapProofs -----------------------------
(***************************************************************************)
(* Proofs about Heap, for every arena and every set of request sizes that  *)
(* the assumptions of Heap allow.                                          *)
(*                                                                         *)
(* The heap of malloc.c keeps the promise of Allocator, for every arena,   *)
(* every set of request sizes and every number of blocks: each step of     *)
(* Heap is a step of Allocator, or leaves what a caller sees alone.        *)
(***************************************************************************)
EXTENDS MCHeap, TLAPS

(***************************************************************************)
(* Header words: what the tag bits do to a size.                           *)
(***************************************************************************)

\* GET_SIZE clears the tag and nothing else.
LEMMA GetSizeFacts ==
    ASSUME NEW w \in Nat
    PROVE  /\ GET_SIZE(w) \in Nat
           /\ GET_SIZE(w) <= w
           /\ IS_FREE(GET_SIZE(w))
           /\ IS_FREE(w) => GET_SIZE(w) = w
           /\ WORD_ALIGN_DOWN(w) = GET_SIZE(w)
BY DEF GET_SIZE, WORD_ALIGN_DOWN, IS_FREE, WORD_SIZE

\* Setting the used tag of an untagged size keeps the size.
LEMMA SetUsedFacts ==
    ASSUME NEW n \in Nat, IS_FREE(n)
    PROVE  /\ SetUsed(n) \in Nat
           /\ ~IS_FREE(SetUsed(n))
           /\ GET_SIZE(SetUsed(n)) = n
BY DEF SetUsed, GET_SIZE, WORD_ALIGN_DOWN, IS_FREE, WORD_SIZE

\* Merging and splitting untagged sizes gives untagged sizes.
LEMMA UntaggedSums ==
    ASSUME NEW m \in Nat, NEW n \in Nat, IS_FREE(m), IS_FREE(n)
    PROVE  /\ IS_FREE(m + n + DWORD_SIZE)
           /\ m >= n + MEM_REGION_SIZE => IS_FREE(m - n - DWORD_SIZE)
           /\ m - n < MEM_REGION_SIZE => m <= n + 12
BY DEF IS_FREE, WORD_SIZE, DWORD_SIZE, MEM_REGION_SIZE

\* What malloc() rounds a request to: a whole number of list nodes, not less
\* than the request, and at least one node.
LEMMA AlignFacts ==
    ASSUME NEW size \in Sizes
    PROVE  /\ size \in Nat
           /\ LIST_NODE_ALIGN(size) \in Nat
           /\ LIST_NODE_ALIGN(size) >= size
           /\ LIST_NODE_ALIGN(size) >= LIST_NODE_SIZE
           /\ LIST_NODE_ALIGN(size) <= size + 7
           /\ IS_FREE(LIST_NODE_ALIGN(size))
<1>1. size \in Nat /\ size >= 1 /\ size + 7 < SizeMod /\ SizeMod \in Nat
  BY SizesAssumption DEF LIST_NODE_SIZE
<1>2. (size + LIST_NODE_SIZE - 1) % SizeMod = size + 7
  BY <1>1, SMT DEF LIST_NODE_SIZE
<1>3. LIST_NODE_ALIGN(size) = (size + 7) - ((size + 7) % 8)
  BY <1>2 DEF LIST_NODE_ALIGN, LIST_NODE_SIZE
<1> QED
  BY <1>1, <1>3 DEF LIST_NODE_SIZE, IS_FREE, WORD_SIZE

(***************************************************************************)
(* The layout of the regions, as a predicate on the header words, and the  *)
(* three things malloc() and free() do to it: retag a region, split one,   *)
(* and merge one with the region after it.                                 *)
(***************************************************************************)
Layout(cs, ps, f, t) ==
    /\ f \in Nat /\ t \in Nat
    /\ DOMAIN cs \subseteq Nat
    /\ cs \in [DOMAIN cs -> Nat] /\ ps \in [DOMAIN cs -> Nat]
    /\ f \in DOMAIN cs /\ t \in DOMAIN cs /\ f # t
    /\ ps[f] = 1 /\ cs[t] = 1
    /\ \A a \in DOMAIN cs : f <= a /\ a <= t

\* Every region but the sentinel is followed by a header, has room for a list
\* node, and overlaps no other; every region but the first has one before it.
Chained(cs, ps, f, t) ==
    /\ \A a \in DOMAIN cs \ {t} :
         /\ GET_SIZE(cs[a]) >= LIST_NODE_SIZE
         /\ a + DWORD_SIZE + GET_SIZE(cs[a]) \in DOMAIN cs
         /\ ps[a + DWORD_SIZE + GET_SIZE(cs[a])] = cs[a]
    /\ \A a \in DOMAIN cs \ {t} : \A b \in DOMAIN cs :
         a < b => a + DWORD_SIZE + GET_SIZE(cs[a]) <= b
    /\ \A b \in DOMAIN cs \ {f} : \E a \in DOMAIN cs \ {t} :
         b = a + DWORD_SIZE + GET_SIZE(cs[a])

Tiled(cs, ps, f, t) == Layout(cs, ps, f, t) /\ Chained(cs, ps, f, t)

\* The region after a is not the one after b.
LEMMA SuccessorUnique ==
    ASSUME NEW cs, NEW ps, NEW f, NEW t, Tiled(cs, ps, f, t),
           NEW a \in DOMAIN cs \ {t}, NEW b \in DOMAIN cs \ {t},
           a + DWORD_SIZE + GET_SIZE(cs[a]) = b + DWORD_SIZE + GET_SIZE(cs[b])
    PROVE  a = b
<1> a \in Nat /\ b \in Nat /\ cs[a] \in Nat /\ cs[b] \in Nat
  BY DEF Tiled, Layout
<1> GET_SIZE(cs[a]) \in Nat /\ GET_SIZE(cs[b]) \in Nat
  BY GetSizeFacts
<1>1. a < b => a + DWORD_SIZE + GET_SIZE(cs[a]) <= b
  BY DEF Tiled, Chained
<1>2. b < a => b + DWORD_SIZE + GET_SIZE(cs[b]) <= a
  BY DEF Tiled, Chained
<1> QED BY <1>1, <1>2 DEF DWORD_SIZE

\* region_set_size() with another tag for the same size.
LEMMA RetagTiled ==
    ASSUME NEW cs, NEW ps, NEW f, NEW t, Tiled(cs, ps, f, t),
           NEW a \in DOMAIN cs \ {t}, NEW w \in Nat,
           GET_SIZE(w) = GET_SIZE(cs[a]),
           NEW m, m = region_set_size([cs |-> cs, ps |-> ps], a, w)
    PROVE  /\ Tiled(m.cs, m.ps, f, t)
           /\ DOMAIN m.cs = DOMAIN cs
           /\ m.cs[a] = w
           /\ \A x \in DOMAIN cs \ {a} : m.cs[x] = cs[x]
<1> DEFINE s == a + DWORD_SIZE + GET_SIZE(cs[a])
<1>1. /\ s \in DOMAIN cs /\ a \in DOMAIN cs /\ a \in Nat /\ GET_SIZE(cs[a]) \in Nat
      /\ s \in Nat /\ f <= a /\ f \in Nat /\ s # f
  BY GetSizeFacts DEF Tiled, Layout, Chained, DWORD_SIZE
<1>2. DOMAIN ps = DOMAIN cs
  BY DEF Tiled, Layout
<1>3. m.cs = [x \in DOMAIN cs |-> IF x = a THEN w ELSE cs[x]]
  BY <1>1 DEF region_set_size, Store
<1>4. m.ps = [x \in DOMAIN cs |-> IF x = s THEN w ELSE ps[x]]
  BY <1>1, <1>2 DEF region_set_size, Store, get_successor
<1> HIDE DEF s
<1>5. Layout(m.cs, m.ps, f, t)
  BY <1>1, <1>2, <1>3, <1>4 DEF Tiled, Layout
<1>6. \A x \in DOMAIN cs : GET_SIZE(m.cs[x]) = GET_SIZE(cs[x])
  BY <1>3
<1>7. ASSUME NEW x \in DOMAIN cs \ {t}
      PROVE  m.ps[x + DWORD_SIZE + GET_SIZE(cs[x])] = m.cs[x]
  <2>1. x + DWORD_SIZE + GET_SIZE(cs[x]) \in DOMAIN cs
        /\ ps[x + DWORD_SIZE + GET_SIZE(cs[x])] = cs[x]
    BY DEF Tiled, Chained
  <2>2. x # a => x + DWORD_SIZE + GET_SIZE(cs[x]) # s
    BY SuccessorUnique DEF s
  <2> QED BY <1>3, <1>4, <2>1, <2>2 DEF s
<1>8. Chained(m.cs, m.ps, f, t)
  <2>1. DOMAIN m.cs = DOMAIN cs BY <1>3
  <2> QED BY <1>6, <1>7, <2>1 DEF Tiled, Chained
<1> QED BY <1>1, <1>3, <1>5, <1>8 DEF Tiled

\* malloc()'s two calls of region_set_size(): the block, then the remainder.
LEMMA SplitTiled ==
    ASSUME NEW cs, NEW ps, NEW f, NEW t, Tiled(cs, ps, f, t),
           NEW a \in DOMAIN cs \ {t}, NEW w \in Nat, NEW r \in Nat,
           IS_FREE(r), r >= LIST_NODE_SIZE, GET_SIZE(w) >= LIST_NODE_SIZE,
           GET_SIZE(cs[a]) = GET_SIZE(w) + DWORD_SIZE + r,
           NEW s, s = a + DWORD_SIZE + GET_SIZE(w),
           NEW m1, m1 = region_set_size([cs |-> cs, ps |-> ps], a, w),
           NEW m2, m2 = region_set_size(m1, s, r)
    PROVE  /\ Tiled(m2.cs, m2.ps, f, t)
           /\ s \notin DOMAIN cs
           /\ s = get_successor(m1.cs, a)
           /\ DOMAIN m2.cs = DOMAIN cs \cup {s}
           /\ m2.cs[s] = r /\ m2.cs[a] = w
           /\ \A x \in DOMAIN cs \ {a} : m2.cs[x] = cs[x]
<1> DEFINE e == a + DWORD_SIZE + GET_SIZE(cs[a])
<1>1. /\ e \in DOMAIN cs /\ a \in Nat /\ GET_SIZE(w) \in Nat /\ GET_SIZE(cs[a]) \in Nat
      /\ e \in Nat /\ s \in Nat /\ a < s /\ s < e /\ f <= a /\ e <= t
      /\ f \in Nat /\ t \in Nat
  BY GetSizeFacts DEF Tiled, Layout, Chained, DWORD_SIZE, LIST_NODE_SIZE
<1>2. GET_SIZE(r) = r
  BY GetSizeFacts
<1>3. s \notin DOMAIN cs
  <2> SUFFICES ASSUME s \in DOMAIN cs PROVE FALSE OBVIOUS
  <2>1. e <= s BY <1>1 DEF Tiled, Chained
  <2> QED BY <2>1, <1>1
<1>4. DOMAIN ps = DOMAIN cs
  BY DEF Tiled, Layout
<1>5. /\ m1.cs = [x \in DOMAIN cs |-> IF x = a THEN w ELSE cs[x]]
      /\ m1.ps = [x \in DOMAIN cs \cup {s} |-> IF x = s THEN w ELSE ps[x]]
      /\ s = get_successor(m1.cs, a)
  BY <1>4 DEF region_set_size, Store, get_successor
<1>6. m2.cs = [x \in DOMAIN cs \cup {s} |->
                 IF x = s THEN r ELSE IF x = a THEN w ELSE cs[x]]
  BY <1>3, <1>5 DEF region_set_size, Store
<1>7. s + DWORD_SIZE + r = e
  BY <1>1 DEF DWORD_SIZE
<1>8. get_successor(m2.cs, s) = e
  BY <1>2, <1>6, <1>7 DEF get_successor
<1>9. m2.ps = [x \in DOMAIN cs \cup {s} |->
                 IF x = e THEN r ELSE IF x = s THEN w ELSE ps[x]]
  <2>1. m2.ps = Store(m1.ps, e, r)
    BY <1>8 DEF region_set_size
  <2> HIDE DEF e
  <2> QED BY <2>1, <1>1, <1>5 DEF Store
<1> HIDE DEF e
<1>10. Layout(m2.cs, m2.ps, f, t)
  <2>1. s # t /\ e # f /\ s # f /\ a # t
    BY <1>1
  <2>2. DOMAIN m2.cs = DOMAIN cs \cup {s}
    BY <1>6
  <2> QED BY <1>1, <1>4, <1>6, <1>9, <2>1, <2>2 DEF Tiled, Layout
<1>11. /\ GET_SIZE(m2.cs[a]) = GET_SIZE(w)
       /\ GET_SIZE(m2.cs[s]) = r
       /\ \A x \in DOMAIN cs \ {a} : m2.cs[x] = cs[x]
  BY <1>1, <1>2, <1>3, <1>6
<1>12. ASSUME NEW x \in DOMAIN m2.cs \ {t}
       PROVE  /\ GET_SIZE(m2.cs[x]) >= LIST_NODE_SIZE
              /\ x + DWORD_SIZE + GET_SIZE(m2.cs[x]) \in DOMAIN m2.cs
              /\ m2.ps[x + DWORD_SIZE + GET_SIZE(m2.cs[x])] = m2.cs[x]
  <2>1. CASE x = a
    BY <2>1, <1>1, <1>6, <1>9, <1>11
  <2>2. CASE x = s
    BY <2>2, <1>1, <1>6, <1>7, <1>9, <1>11
  <2>3. CASE x \in DOMAIN cs \ {a}
    <3> DEFINE y == x + DWORD_SIZE + GET_SIZE(cs[x])
    <3>1. GET_SIZE(cs[x]) >= LIST_NODE_SIZE /\ y \in DOMAIN cs /\ ps[y] = cs[x]
      BY <2>3 DEF Tiled, Chained
    <3>2. y # e
      BY <2>3, SuccessorUnique DEF e
    <3> HIDE DEF y
    <3>3. y = x + DWORD_SIZE + GET_SIZE(m2.cs[x])
      BY <2>3, <1>11 DEF y
    <3> QED BY <2>3, <3>1, <3>2, <3>3, <1>3, <1>6, <1>9, <1>11
  <2> QED BY <2>1, <2>2, <2>3, <1>6
<1>13. ASSUME NEW x \in DOMAIN m2.cs \ {t}, NEW y \in DOMAIN m2.cs, x < y
       PROVE  x + DWORD_SIZE + GET_SIZE(m2.cs[x]) <= y
  <2>1. \A u \in DOMAIN cs \ {t}, v \in DOMAIN cs :
          u < v => u + DWORD_SIZE + GET_SIZE(cs[u]) <= v
    BY DEF Tiled, Chained
  <2>2. DOMAIN cs \subseteq Nat
    BY DEF Tiled, Layout
  <2>3. CASE x = a
    <3>1. y = s \/ (y \in DOMAIN cs /\ e <= y)
      BY <2>1, <2>3, <1>6, <1>13 DEF e
    <3>2. y \in Nat BY <2>2, <3>1, <1>1
    <3> QED BY <2>3, <3>1, <3>2, <1>1, <1>11
  <2>4. CASE x = s
    <3>1. y \in DOMAIN cs /\ y \in Nat /\ a < y
      BY <2>4, <1>1, <1>6, <1>13, <2>2
    <3>2. e <= y BY <2>1, <3>1 DEF e
    <3> QED BY <2>4, <3>2, <1>7, <1>11
  <2>5. CASE x \in DOMAIN cs \ {a} /\ y \in DOMAIN cs
    BY <2>5, <2>1, <1>11, <1>13
  <2>6. CASE x \in DOMAIN cs \ {a} /\ y = s
    <3>1. x \in Nat /\ x < e /\ x \in DOMAIN cs \ {t}
      BY <2>6, <1>1, <1>13, <2>2
    <3>2. x + DWORD_SIZE + GET_SIZE(cs[x]) <= e
      BY <2>1, <3>1, <1>1
    <3>3. x < a
      <4> SUFFICES ASSUME a < x PROVE FALSE
        BY <2>6, <3>1, <1>1
      <4>1. e <= x BY <2>1, <3>1 DEF e
      <4> QED BY <4>1, <3>1, <1>1
    <3>4. x + DWORD_SIZE + GET_SIZE(cs[x]) <= a
      BY <2>1, <3>1, <3>3
    <3>5. x + DWORD_SIZE + GET_SIZE(cs[x]) \in Nat
      BY <3>1, GetSizeFacts DEF Tiled, Layout, DWORD_SIZE
    <3> QED BY <2>6, <3>4, <3>5, <1>1, <1>11
  <2> QED BY <2>3, <2>4, <2>5, <2>6, <1>6
<1>14. ASSUME NEW y \in DOMAIN m2.cs \ {f}
       PROVE  \E x \in DOMAIN m2.cs \ {t} : y = x + DWORD_SIZE + GET_SIZE(m2.cs[x])
  <2>1. CASE y = s
    BY <2>1, <1>6, <1>11
  <2>2. CASE y = e
    BY <2>2, <1>1, <1>6, <1>7, <1>11
  <2>3. CASE y \in DOMAIN cs /\ y # e
    <3>1. PICK x \in DOMAIN cs \ {t} : y = x + DWORD_SIZE + GET_SIZE(cs[x])
      BY <2>3, <1>14 DEF Tiled, Chained
    <3>2. x # a BY <2>3, <3>1 DEF e
    <3> QED BY <3>1, <3>2, <1>6, <1>11
  <2> QED BY <2>1, <2>2, <2>3, <1>6
<1>15. Chained(m2.cs, m2.ps, f, t)
  BY <1>12, <1>13, <1>14 DEF Chained
<1> QED BY <1>1, <1>3, <1>5, <1>6, <1>10, <1>15 DEF Tiled

\* free() taking in the region after a, whose header words become payload.
LEMMA MergeTiled ==
    ASSUME NEW cs, NEW ps, NEW f, NEW t, Tiled(cs, ps, f, t),
           NEW a \in DOMAIN cs \ {t}, NEW w \in Nat,
           NEW s, s = a + DWORD_SIZE + GET_SIZE(cs[a]), s # t,
           GET_SIZE(w) = GET_SIZE(cs[a]) + GET_SIZE(cs[s]) + DWORD_SIZE,
           NEW m, m = region_set_size([cs |-> cs, ps |-> ps], a, w)
    PROVE  /\ Tiled(Drop(m.cs, {s}), Drop(m.ps, {s}), f, t)
           /\ s \in DOMAIN cs /\ s # a
           /\ DOMAIN Drop(m.cs, {s}) = DOMAIN cs \ {s}
           /\ Drop(m.cs, {s})[a] = w
           /\ \A x \in DOMAIN cs \ {a, s} : Drop(m.cs, {s})[x] = cs[x]
<1> DEFINE e  == s + DWORD_SIZE + GET_SIZE(cs[s])
           ds == Drop(m.cs, {s})
           qs == Drop(m.ps, {s})
<1>1. /\ s \in DOMAIN cs /\ a \in Nat /\ GET_SIZE(cs[a]) \in Nat /\ s \in Nat /\ a < s
      /\ f <= a /\ f \in Nat /\ t \in Nat /\ cs[s] \in Nat
  BY GetSizeFacts DEF Tiled, Layout, Chained, DWORD_SIZE
<1>2. e \in DOMAIN cs /\ GET_SIZE(cs[s]) \in Nat /\ e \in Nat /\ s < e
      /\ GET_SIZE(cs[a]) >= LIST_NODE_SIZE
  BY <1>1, GetSizeFacts DEF Tiled, Layout, Chained, DWORD_SIZE
<1>3. a + DWORD_SIZE + GET_SIZE(w) = e
  BY <1>1, <1>2 DEF DWORD_SIZE
<1>4. DOMAIN ps = DOMAIN cs
  BY DEF Tiled, Layout
<1>5. m.cs = [x \in DOMAIN cs |-> IF x = a THEN w ELSE cs[x]]
  BY DEF region_set_size, Store
<1>6. m.ps = [x \in DOMAIN cs |-> IF x = e THEN w ELSE ps[x]]
  <2>1. m.ps = Store(ps, e, w)
    BY <1>3, <1>5 DEF region_set_size, get_successor
  <2> HIDE DEF e
  <2> QED BY <2>1, <1>2, <1>4 DEF Store
<1> HIDE DEF e
<1>7. ds = [x \in DOMAIN cs \ {s} |-> IF x = a THEN w ELSE cs[x]]
  BY <1>5 DEF Drop
<1>8. qs = [x \in DOMAIN cs \ {s} |-> IF x = e THEN w ELSE ps[x]]
  BY <1>6 DEF Drop
<1> HIDE DEF ds, qs
<1>9. Layout(ds, qs, f, t)
  <2>1. s # f /\ e # f BY <1>1, <1>2
  <2>2. DOMAIN ds = DOMAIN cs \ {s} BY <1>7
  <2> QED BY <1>1, <1>2, <1>4, <1>7, <1>8, <2>1, <2>2 DEF Tiled, Layout
<1>10. /\ GET_SIZE(ds[a]) = GET_SIZE(w)
       /\ \A x \in DOMAIN cs \ {a, s} : ds[x] = cs[x]
  BY <1>1, <1>7
<1>11. ASSUME NEW x \in DOMAIN ds \ {t}
       PROVE  /\ GET_SIZE(ds[x]) >= LIST_NODE_SIZE
              /\ x + DWORD_SIZE + GET_SIZE(ds[x]) \in DOMAIN ds
              /\ qs[x + DWORD_SIZE + GET_SIZE(ds[x])] = ds[x]
  <2>1. CASE x = a
    <3>1. e # s BY <1>1, <1>2
    <3>2. GET_SIZE(w) >= LIST_NODE_SIZE
      BY <1>1, <1>2 DEF DWORD_SIZE, LIST_NODE_SIZE
    <3> QED BY <2>1, <3>1, <3>2, <1>2, <1>3, <1>7, <1>8, <1>10
  <2>2. CASE x # a
    <3> DEFINE y == x + DWORD_SIZE + GET_SIZE(cs[x])
    <3>0. x \in DOMAIN cs \ {a, s, t} BY <2>2, <1>7, <1>11
    <3>1. GET_SIZE(cs[x]) >= LIST_NODE_SIZE /\ y \in DOMAIN cs /\ ps[y] = cs[x]
      BY <3>0 DEF Tiled, Chained
    <3>2. y # e
      BY <3>0, <1>1, SuccessorUnique DEF e
    <3>3. y # s
      BY <3>0, <1>1, SuccessorUnique
    <3> HIDE DEF y
    <3>4. y = x + DWORD_SIZE + GET_SIZE(ds[x])
      BY <3>0, <1>10 DEF y
    <3> QED BY <3>0, <3>1, <3>2, <3>3, <3>4, <1>7, <1>8, <1>10
  <2> QED BY <2>1, <2>2
<1>12. ASSUME NEW x \in DOMAIN ds \ {t}, NEW y \in DOMAIN ds, x < y
       PROVE  x + DWORD_SIZE + GET_SIZE(ds[x]) <= y
  <2>1. \A u \in DOMAIN cs \ {t}, v \in DOMAIN cs :
          u < v => u + DWORD_SIZE + GET_SIZE(cs[u]) <= v
    BY DEF Tiled, Chained
  <2>2. DOMAIN cs \subseteq Nat
    BY DEF Tiled, Layout
  <2>3. x \in DOMAIN cs \ {s, t} /\ y \in DOMAIN cs \ {s}
    BY <1>7, <1>12
  <2>4. CASE x = a
    <3>1. s <= y BY <2>1, <2>3, <2>4, <1>12
    <3>2. s < y BY <3>1, <2>2, <2>3, <1>1
    <3>3. e <= y BY <3>2, <2>1, <2>3, <1>1 DEF e
    <3> QED BY <3>3, <2>4, <1>3, <1>10
  <2>5. CASE x # a
    BY <2>1, <2>3, <2>5, <1>10, <1>12
  <2> QED BY <2>4, <2>5
<1>13. ASSUME NEW y \in DOMAIN ds \ {f}
       PROVE  \E x \in DOMAIN ds \ {t} : y = x + DWORD_SIZE + GET_SIZE(ds[x])
  <2>1. CASE y = e
    BY <2>1, <1>1, <1>3, <1>7, <1>10
  <2>2. CASE y # e
    <3>1. PICK x \in DOMAIN cs \ {t} : y = x + DWORD_SIZE + GET_SIZE(cs[x])
      BY <1>7, <1>13 DEF Tiled, Chained
    <3>2. x # s BY <2>2, <3>1 DEF e
    <3>3. x # a BY <3>1, <1>7, <1>13
    <3> QED BY <3>1, <3>2, <3>3, <1>7, <1>10
  <2> QED BY <2>1, <2>2
<1>14. Chained(ds, qs, f, t)
  BY <1>11, <1>12, <1>13 DEF Chained
<1>15. Tiled(ds, qs, f, t) BY <1>9, <1>14 DEF Tiled
<1> QED BY <1>1, <1>7, <1>10, <1>15 DEF ds, qs

(***************************************************************************)
(* The free list: an enumeration of a set without repetition, kept by      *)
(* list_add_tail() and list_del().                                         *)
(***************************************************************************)
Lists(l, S) ==
    /\ l \in Seq(S)
    /\ \A a \in S : \E i \in 1 .. Len(l) : l[i] = a
    /\ \A i, j \in 1 .. Len(l) : i # j => l[i] # l[j]

\* Linking a region that is not on the list.
LEMMA AddLists ==
    ASSUME NEW l, NEW S, Lists(l, S), NEW a, a \notin S
    PROVE  Lists(list_add_tail(l, a), S \cup {a})
<1> DEFINE k == list_add_tail(l, a)
<1>1. l \in Seq(S) /\ Len(l) \in Nat
  BY DEF Lists
<1>2. k \in Seq(S \cup {a}) /\ Len(k) = Len(l) + 1 /\ k[Len(l) + 1] = a
      /\ \A i \in 1 .. Len(l) : k[i] = l[i] /\ l[i] \in S
  BY <1>1 DEF list_add_tail
<1> HIDE DEF k
<1>3. \A b \in S \cup {a} : \E i \in 1 .. Len(k) : k[i] = b
  <2> TAKE b \in S \cup {a}
  <2>1. CASE b = a BY <2>1, <1>1, <1>2
  <2>2. CASE b \in S
    <3>1. PICK i \in 1 .. Len(l) : l[i] = b BY <2>2 DEF Lists
    <3>2. i \in 1 .. Len(k) BY <1>1, <1>2
    <3> QED BY <3>1, <3>2, <1>2
  <2> QED BY <2>1, <2>2
<1>4. \A i, j \in 1 .. Len(k) : i # j => k[i] # k[j]
  <2> TAKE i, j \in 1 .. Len(k)
  <2> HAVE i # j
  <2>1. CASE i = Len(l) + 1
    <3>1. j \in 1 .. Len(l) BY <1>1, <1>2, <2>1
    <3> QED BY <2>1, <3>1, <1>2
  <2>2. CASE j = Len(l) + 1
    <3>1. i \in 1 .. Len(l) BY <1>1, <1>2, <2>2
    <3> QED BY <2>2, <3>1, <1>2
  <2>3. CASE i \in 1 .. Len(l) /\ j \in 1 .. Len(l)
    BY <2>3, <1>2 DEF Lists
  <2> QED BY <2>1, <2>2, <2>3, <1>1, <1>2
<1> QED BY <1>2, <1>3, <1>4 DEF Lists, k

\* Unlinking the region at place i.
LEMMA DelLists ==
    ASSUME NEW l, NEW S, Lists(l, S), NEW i \in 1 .. Len(l)
    PROVE  Lists(list_del(l, i), S \ {l[i]})
<1> DEFINE k == list_del(l, i)
<1>1. l \in Seq(S) /\ Len(l) \in Nat /\ i \in Nat
  BY DEF Lists
<1>2. k \in Seq(S) /\ Len(k) = Len(l) - 1
      /\ \A j \in 1 .. Len(k) : k[j] = IF j < i THEN l[j] ELSE l[j + 1]
  <2> DEFINE p == SubSeq(l, 1, i - 1)
             q == SubSeq(l, i + 1, Len(l))
  <2>1. p \in Seq(S) /\ Len(p) = i - 1 /\ \A j \in 1 .. (i - 1) : p[j] = l[j]
    BY <1>1
  <2>2. q \in Seq(S) /\ Len(q) = Len(l) - i
        /\ \A j \in 1 .. (Len(l) - i) : q[j] = l[j + i]
    BY <1>1
  <2>3. k = p \o q BY DEF list_del, RemoveAt
  <2> HIDE DEF k, p, q
  <2>4. k \in Seq(S) /\ Len(k) = Len(l) - 1
    BY <1>1, <2>1, <2>2, <2>3
  <2>5. ASSUME NEW j \in 1 .. Len(k)
        PROVE  k[j] = IF j < i THEN l[j] ELSE l[j + 1]
    <3>1. CASE j < i
      BY <3>1, <1>1, <2>1, <2>2, <2>3, <2>4
    <3>2. CASE ~(j < i)
      <4>1. k[j] = q[j - (i - 1)]
        BY <3>2, <1>1, <2>1, <2>2, <2>3, <2>4
      <4>2. j - (i - 1) \in 1 .. (Len(l) - i) /\ (j - (i - 1)) + i = j + 1
        BY <3>2, <1>1, <2>4
      <4> QED BY <4>1, <4>2, <2>2, <3>2
    <3> QED BY <3>1, <3>2
  <2> QED BY <2>4, <2>5
<1> HIDE DEF k
<1>30. \A n \in 1 .. Len(l) : l[n] \in S /\ (n # i => l[n] # l[i])
  BY <1>1, SMTT(40) DEF Lists
<1>3. \A j \in 1 .. Len(k) : k[j] \in S \ {l[i]}
  <2> TAKE j \in 1 .. Len(k)
  <2>1. CASE j < i
    <3>1. j \in 1 .. Len(l) /\ j # i BY <2>1, <1>1, <1>2
    <3> QED BY <2>1, <3>1, <1>2, <1>30
  <2>2. CASE ~(j < i)
    <3>1. j + 1 \in 1 .. Len(l) /\ j + 1 # i BY <2>2, <1>1, <1>2
    <3> QED BY <3>1, <2>2, <1>2, <1>30
  <2> QED BY <2>1, <2>2
<1>4. k \in Seq(S \ {l[i]})
  BY <1>2, <1>3
<1>5. \A b \in S \ {l[i]} : \E j \in 1 .. Len(k) : k[j] = b
  <2> TAKE b \in S \ {l[i]}
  <2>1. PICK n \in 1 .. Len(l) : l[n] = b BY DEF Lists
  <2>2. CASE n < i
    <3>1. n \in 1 .. Len(k) BY <2>2, <1>1, <1>2
    <3> QED BY <3>1, <2>1, <2>2, <1>2
  <2>3. CASE n > i
    <3>1. n - 1 \in 1 .. Len(k) /\ ~(n - 1 < i) /\ (n - 1) + 1 = n
      BY <2>3, <1>1, <1>2
    <3> QED BY <3>1, <2>1, <1>2
  <2>4. n # i BY <2>1
  <2> QED BY <2>2, <2>3, <2>4, <1>1
<1>6. \A j, n \in 1 .. Len(k) : j # n => k[j] # k[n]
  <2> TAKE j, n \in 1 .. Len(k)
  <2> HAVE j # n
  <2> DEFINE up(x) == IF x < i THEN x ELSE x + 1
  <2>1. up(j) \in 1 .. Len(l) /\ up(n) \in 1 .. Len(l) /\ up(j) # up(n)
    BY <1>1, <1>2
  <2>2. k[j] = l[up(j)] /\ k[n] = l[up(n)]
    BY <1>2
  <2> HIDE DEF up
  <2> QED BY <2>1, <2>2 DEF Lists
<1> QED BY <1>4, <1>5, <1>6 DEF Lists, k

(***************************************************************************)
(* The inductive invariant.  The parts of Heap's invariants that malloc()  *)
(* and free() rely on, strengthened by the existence of a predecessor (in  *)
(* Chained), by how much larger than the request a block's region may be,  *)
(* and by the state before heap_init().                                    *)
(***************************************************************************)
FreeSet(cs) == {a \in DOMAIN cs : IS_FREE(cs[a])}

Merged(cs, t) ==
    \A a \in DOMAIN cs \ {t} :
      IS_FREE(cs[a]) => ~IS_FREE(cs[a + DWORD_SIZE + GET_SIZE(cs[a])])

Owned(cs, t, h) ==
    /\ \A a \in DOMAIN cs \ {t} : ~IS_FREE(cs[a]) <=> a + DWORD_SIZE \in DOMAIN h
    /\ \A p \in DOMAIN h :
         /\ p \in Nat /\ p - DWORD_SIZE \in DOMAIN cs \ {t}
         /\ h[p] \in Sizes /\ h[p] <= GET_SIZE(cs[p - DWORD_SIZE])
         /\ GET_SIZE(cs[p - DWORD_SIZE]) <= h[p] + 19

Sound(cs, ps, l, h) ==
    /\ Tiled(cs, ps, first, tail)
    /\ Merged(cs, tail)
    /\ Lists(l, FreeSet(cs))
    /\ Owned(cs, tail, h)
    /\ h \in [DOMAIN h -> Sizes]

Unused ==
    /\ DOMAIN curr_size = {} /\ DOMAIN pre_size = {} /\ DOMAIN held = {}
    /\ curr_size \in [{} -> Nat] /\ pre_size \in [{} -> Nat] /\ held \in [{} -> Sizes]
    /\ g_free_region_list = <<>>
    /\ first \in Nat /\ tail \in Nat

RetOK == ret.op \in {"none", "malloc", "free"} /\ ret.size \in Nat /\ ret.p \in Nat

IInv ==
    /\ booted \in {"no", "ok", "EINVAL"}
    /\ RetOK
    /\ booted # "ok" => Unused
    /\ booted = "no" => ret.op = "none"
    /\ booted = "ok" => Sound(curr_size, pre_size, g_free_region_list, held)

\* Before heap_init() there is nothing.
LEMMA InitIInv == Init => IInv
BY DEF Init, IInv, RetOK, Unused, NoWords, NULL

\* heap_init() makes one free region, or leaves everything alone.
LEMMA HeapInitIInv ==
    ASSUME IInv, NEW b \in HeapBounds, HeapInit(b[1], b[2])
    PROVE  IInv'
<1> DEFINE a == WORD_ALIGN_UP(b[1])
           e == WORD_ALIGN_DOWN(b[2])
<1>1. b[1] \in Nat /\ b[2] \in Nat
  BY BoundsAssumption
<1>2. a \in Nat /\ e \in Nat /\ a % 4 = 0 /\ e % 4 = 0
  BY <1>1 DEF WORD_ALIGN_UP, WORD_ALIGN_DOWN, WORD_SIZE
<1>3. Unused /\ RetOK /\ RetOK'
  BY DEF HeapInit, IInv, RetOK
<1> HIDE DEF a, e
<1>4. CASE a + MIN_HEAP_LEN >= e
  <2>1. booted' = "EINVAL" /\ UNCHANGED <<region, g_free_region_list, held>>
    BY <1>2, <1>4 DEF HeapInit, a, e, MIN_HEAP_LEN
  <2> QED BY <2>1, <1>3 DEF IInv, Unused, region
<1>5. CASE a + MIN_HEAP_LEN < e
  <2> DEFINE size == e - DWORD_SIZE - a - DWORD_SIZE
  <2>1. /\ booted' = "ok" /\ first' = a /\ tail' = e - DWORD_SIZE
        /\ held' = held
        /\ curr_size' = [x \in {first', tail'} |-> IF x = tail' THEN 1 ELSE size]
        /\ pre_size'  = [x \in {first', tail'} |-> IF x = tail' THEN size ELSE 1]
        /\ g_free_region_list' = list_add_tail(g_free_region_list, first')
    BY <1>2, <1>5 DEF HeapInit, a, e, MIN_HEAP_LEN
  <2>2. /\ first' \in Nat /\ tail' \in Nat /\ first' < tail' /\ size \in Nat
        /\ size >= 8 /\ size % 4 = 0 /\ first' + 8 + size = tail'
    BY <1>2, <1>5, <2>1 DEF MIN_HEAP_LEN, DWORD_SIZE
  <2> HIDE DEF size
  <2>3. IS_FREE(size) /\ GET_SIZE(size) = size /\ ~IS_FREE(1)
    BY <2>2 DEF IS_FREE, GET_SIZE, WORD_ALIGN_DOWN, WORD_SIZE
  <2>4. /\ DOMAIN curr_size' = {first', tail'}
        /\ curr_size'[first'] = size /\ curr_size'[tail'] = 1
        /\ pre_size'[first'] = 1 /\ pre_size'[tail'] = size
    BY <2>1, <2>2
  <2>5. Layout(curr_size', pre_size', first', tail')
    BY <2>1, <2>2, <2>4 DEF Layout
  <2>6. Chained(curr_size', pre_size', first', tail')
    <3>1. \A x \in DOMAIN curr_size' \ {tail'} : x = first'
      BY <2>4
    <3>2. first' + DWORD_SIZE + GET_SIZE(curr_size'[first']) = tail'
      BY <2>2, <2>3, <2>4 DEF DWORD_SIZE
    <3>3. GET_SIZE(curr_size'[first']) >= LIST_NODE_SIZE
      BY <2>2, <2>3, <2>4 DEF LIST_NODE_SIZE
    <3>4. \A y \in DOMAIN curr_size' : first' < y => tail' <= y
      BY <2>2, <2>4
    <3>5. first' \in DOMAIN curr_size' \ {tail'} /\ tail' \in DOMAIN curr_size'
      BY <2>2, <2>4
    <3>6. \A y \in DOMAIN curr_size' \ {first'} : y = tail'
      BY <2>4
    <3> QED BY <2>4, <3>1, <3>2, <3>3, <3>4, <3>5, <3>6 DEF Chained
  <2>7. Merged(curr_size', tail')
    BY <2>2, <2>3, <2>4 DEF Merged, DWORD_SIZE
  <2>8. FreeSet(curr_size') = {} \cup {first'}
    BY <2>2, <2>3, <2>4 DEF FreeSet
  <2>9. Lists(<<>>, {})
    BY DEF Lists
  <2>10. Lists(g_free_region_list', FreeSet(curr_size'))
    <3>1. Lists(list_add_tail(<<>>, first'), {} \cup {first'})
      BY <2>9, AddLists
    <3>2. g_free_region_list' = list_add_tail(<<>>, first')
      BY <2>1, <1>3 DEF Unused
    <3> QED BY <3>1, <3>2, <2>8
  <2>11. Owned(curr_size', tail', held') /\ held' \in [DOMAIN held' -> Sizes]
    BY <2>1, <2>3, <2>4, <1>3 DEF Owned, Unused
  <2> QED BY <2>1, <2>5, <2>6, <2>7, <2>10, <2>11, <1>3 DEF IInv, Sound, Tiled
<1> QED BY <1>2, <1>4, <1>5 DEF MIN_HEAP_LEN

\* An entry of the free list is a free header, before the sentinel.
LEMMA FreeEntry ==
    ASSUME NEW cs, NEW ps, NEW l, NEW h, Sound(cs, ps, l, h), NEW i \in 1 .. Len(l)
    PROVE  /\ l[i] \in DOMAIN cs \ {tail} /\ l[i] \in Nat
           /\ cs[l[i]] \in Nat /\ IS_FREE(cs[l[i]])
<1>1. l[i] \in FreeSet(cs)
  BY DEF Sound, Lists
<1>2. ~IS_FREE(1)
  BY DEF IS_FREE, WORD_SIZE
<1> QED BY <1>1, <1>2 DEF FreeSet, Sound, Tiled, Layout

\* malloc() that takes a whole region.
LEMMA TakeWholeSound ==
    ASSUME Sound(curr_size, pre_size, g_free_region_list, held),
           NEW size \in Sizes, NEW i \in 1 .. Len(g_free_region_list),
           Fits(i, LIST_NODE_ALIGN(size)), TakeWhole(i),
           curr_size[g_free_region_list[i]] - LIST_NODE_ALIGN(size) < MEM_REGION_SIZE,
           held' = Store(held, g_free_region_list[i] + DWORD_SIZE, size)
    PROVE  Sound(curr_size', pre_size', g_free_region_list', held')
<1> DEFINE c  == g_free_region_list[i]
           w  == SetUsed(curr_size[c])
           m  == region_set_size([cs |-> curr_size, ps |-> pre_size], c, w)
           cs == curr_size'
<1>1. c \in DOMAIN curr_size \ {tail} /\ c \in Nat /\ curr_size[c] \in Nat /\ IS_FREE(curr_size[c])
  BY FreeEntry
<1>2. w \in Nat /\ ~IS_FREE(w) /\ GET_SIZE(w) = curr_size[c] /\ GET_SIZE(curr_size[c]) = curr_size[c]
  BY <1>1, SetUsedFacts, GetSizeFacts
<1>3. curr_size' = m.cs /\ pre_size' = m.ps
      /\ g_free_region_list' = list_del(g_free_region_list, i)
  BY DEF TakeWhole
<1>4. Tiled(curr_size, pre_size, first, tail)
  BY DEF Sound
<1> HIDE DEF w
<1>5. /\ Tiled(cs, pre_size', first, tail)
      /\ DOMAIN cs = DOMAIN curr_size /\ cs[c] = w
      /\ \A x \in DOMAIN curr_size \ {c} : cs[x] = curr_size[x]
  <2> HIDE DEF c
  <2>1. GET_SIZE(w) = GET_SIZE(curr_size[c]) BY <1>2
  <2> HIDE DEF m
  <2>2. m = region_set_size([cs |-> curr_size, ps |-> pre_size], c, w) BY DEF m
  <2>3. /\ Tiled(m.cs, m.ps, first, tail)
        /\ DOMAIN m.cs = DOMAIN curr_size /\ m.cs[c] = w
        /\ \A x \in DOMAIN curr_size \ {c} : m.cs[x] = curr_size[x]
    BY <2>1, <2>2, <1>1, <1>2, <1>4, RetagTiled
  <2> QED BY <2>3, <1>3
<1> HIDE DEF c, cs, m
<1>6. FreeSet(cs) = FreeSet(curr_size) \ {c}
  BY <1>2, <1>5 DEF FreeSet
<1>7. Lists(g_free_region_list', FreeSet(cs))
  BY <1>3, <1>6, DelLists DEF Sound, c
<1>8. \A x \in DOMAIN curr_size : GET_SIZE(cs[x]) = GET_SIZE(curr_size[x])
  BY <1>2, <1>5
<1>9. Merged(cs, tail)
  BY <1>2, <1>4, <1>5, <1>8 DEF Sound, Merged, Tiled, Chained
<1>10. DOMAIN held' = DOMAIN held \cup {c + DWORD_SIZE} /\ held'[c + DWORD_SIZE] = size
       /\ \A p \in DOMAIN held : p # c + DWORD_SIZE => held'[p] = held[p]
  BY DEF Store, c
<1>11. held' \in [DOMAIN held' -> Sizes]
  BY DEF Sound, Store
<1>12. Owned(cs, tail, held')
  <2>1. size <= GET_SIZE(cs[c]) /\ GET_SIZE(cs[c]) <= size + 19
    <3>1. /\ LIST_NODE_ALIGN(size) \in Nat /\ IS_FREE(LIST_NODE_ALIGN(size)) /\ size \in Nat
          /\ size <= LIST_NODE_ALIGN(size) /\ LIST_NODE_ALIGN(size) <= size + 7
      BY AlignFacts
    <3>2. curr_size[c] <= LIST_NODE_ALIGN(size) + 12
      BY <1>1, <3>1, UntaggedSums DEF c
    <3>3. LIST_NODE_ALIGN(size) <= curr_size[c]
      BY <1>1, <3>1 DEF Fits, c
    <3>4. GET_SIZE(cs[c]) = curr_size[c]
      BY <1>1, <1>2, <1>8
    <3> QED BY <1>1, <3>1, <3>2, <3>3, <3>4
  <2>2. ASSUME NEW p \in DOMAIN held'
        PROVE  /\ p \in Nat /\ p - DWORD_SIZE \in DOMAIN cs \ {tail}
               /\ held'[p] \in Sizes /\ held'[p] <= GET_SIZE(cs[p - DWORD_SIZE])
               /\ GET_SIZE(cs[p - DWORD_SIZE]) <= held'[p] + 19
    <3>1. CASE p = c + DWORD_SIZE
      <4>1. p - DWORD_SIZE = c BY <1>1, <3>1 DEF DWORD_SIZE
      <4>2. p \in Nat BY <1>1, <3>1 DEF DWORD_SIZE
      <4> QED BY <4>1, <4>2, <3>1, <2>1, <1>1, <1>5, <1>10
    <3>2. CASE p # c + DWORD_SIZE
      BY <3>2, <1>5, <1>8, <1>10 DEF Sound, Owned
    <3> QED BY <3>1, <3>2
  <2>3. ASSUME NEW a \in DOMAIN cs \ {tail}
        PROVE  ~IS_FREE(cs[a]) <=> a + DWORD_SIZE \in DOMAIN held'
    <3>1. CASE a = c BY <3>1, <1>1, <1>2, <1>5, <1>10
    <3>2. CASE a # c
      <4>1. a \in Nat BY <1>4, <1>5 DEF Tiled, Layout
      <4>2. a + DWORD_SIZE # c + DWORD_SIZE BY <1>1, <3>2, <4>1 DEF DWORD_SIZE
      <4> QED BY <3>2, <4>2, <1>5, <1>10 DEF Sound, Owned
    <3> QED BY <3>1, <3>2
  <2> QED BY <2>2, <2>3 DEF Owned
<1> QED BY <1>5, <1>7, <1>9, <1>11, <1>12 DEF Sound, cs

\* malloc() that splits a region.
LEMMA SplitSound ==
    ASSUME Sound(curr_size, pre_size, g_free_region_list, held),
           NEW size \in Sizes, NEW i \in 1 .. Len(g_free_region_list),
           curr_size[g_free_region_list[i]] - LIST_NODE_ALIGN(size) >= MEM_REGION_SIZE,
           Split(i, LIST_NODE_ALIGN(size)),
           held' = Store(held, g_free_region_list[i] + DWORD_SIZE, size)
    PROVE  Sound(curr_size', pre_size', g_free_region_list', held')
<1> DEFINE c  == g_free_region_list[i]
           n  == LIST_NODE_ALIGN(size)
           w  == SetUsed(n)
           r  == curr_size[c] - n - DWORD_SIZE
           m1 == region_set_size([cs |-> curr_size, ps |-> pre_size], c, w)
           s  == c + DWORD_SIZE + GET_SIZE(w)
           m2 == region_set_size(m1, s, r)
           cs == curr_size'
<1>1. c \in DOMAIN curr_size \ {tail} /\ c \in Nat /\ curr_size[c] \in Nat /\ IS_FREE(curr_size[c])
  BY FreeEntry
<1>2. /\ n \in Nat /\ IS_FREE(n) /\ n >= LIST_NODE_SIZE /\ n >= size /\ size \in Nat
      /\ n <= size + 7
  BY AlignFacts
<1>3. w \in Nat /\ ~IS_FREE(w) /\ GET_SIZE(w) = n
  BY <1>2, SetUsedFacts
<1>4. r \in Nat /\ IS_FREE(r) /\ r >= LIST_NODE_SIZE
      /\ GET_SIZE(curr_size[c]) = GET_SIZE(w) + DWORD_SIZE + r
  <2>1. curr_size[c] >= n + MEM_REGION_SIZE
    BY <1>1, <1>2 DEF MEM_REGION_SIZE
  <2>2. IS_FREE(r) BY <2>1, <1>1, <1>2, UntaggedSums
  <2>3. r \in Nat /\ r >= LIST_NODE_SIZE /\ curr_size[c] = n + DWORD_SIZE + r
    BY <2>1, <1>1, <1>2, SMTT(40) DEF MEM_REGION_SIZE, DWORD_SIZE, LIST_NODE_SIZE
  <2>4. GET_SIZE(curr_size[c]) = curr_size[c]
    BY <1>1, GetSizeFacts
  <2> QED BY <2>2, <2>3, <2>4, <1>3
<1>5. Tiled(curr_size, pre_size, first, tail)
  BY DEF Sound
<1>6. get_successor(m1.cs, c) = s
  BY <1>1 DEF region_set_size, Store, get_successor
<1>7. curr_size' = m2.cs /\ pre_size' = m2.ps
      /\ g_free_region_list' = list_add_tail(list_del(g_free_region_list, i), s)
  BY <1>6 DEF Split
<1> HIDE DEF n, w, r
<1>8. /\ Tiled(cs, pre_size', first, tail)
      /\ s \notin DOMAIN curr_size
      /\ DOMAIN cs = DOMAIN curr_size \cup {s}
      /\ cs[s] = r /\ cs[c] = w
      /\ \A x \in DOMAIN curr_size \ {c} : cs[x] = curr_size[x]
  <2> HIDE DEF c
  <2>1. s = c + DWORD_SIZE + GET_SIZE(w)
        /\ m1 = region_set_size([cs |-> curr_size, ps |-> pre_size], c, w)
        /\ m2 = region_set_size(m1, s, r)
    OBVIOUS
  <2> HIDE DEF s, m1, m2
  <2>2. GET_SIZE(w) >= LIST_NODE_SIZE BY <1>2, <1>3
  <2>3. /\ Tiled(m2.cs, m2.ps, first, tail)
        /\ s \notin DOMAIN curr_size
        /\ DOMAIN m2.cs = DOMAIN curr_size \cup {s}
        /\ m2.cs[s] = r /\ m2.cs[c] = w
        /\ \A x \in DOMAIN curr_size \ {c} : m2.cs[x] = curr_size[x]
    BY <2>1, <2>2, <1>1, <1>3, <1>4, <1>5, SplitTiled
  <2> QED BY <2>3, <1>7
<1> DEFINE e == c + DWORD_SIZE + GET_SIZE(curr_size[c])
<1>9. /\ s \in Nat /\ s # c /\ s + DWORD_SIZE + GET_SIZE(r) = e
      /\ e \in DOMAIN curr_size /\ e # c /\ c + DWORD_SIZE + GET_SIZE(w) = s
  <2>1. GET_SIZE(r) = r BY <1>4, GetSizeFacts
  <2>2. e \in DOMAIN curr_size BY <1>1, <1>5 DEF Tiled, Chained
  <2> HIDE DEF c
  <2>3. s = c + 8 + n /\ e = c + 8 + (n + 8 + r)
    BY <1>3, <1>4 DEF DWORD_SIZE
  <2> HIDE DEF s, e
  <2>4. s \in Nat /\ s # c /\ s + 8 + r = e /\ e # c
    BY <2>3, <1>1, <1>2, <1>4
  <2>5. c + DWORD_SIZE + GET_SIZE(w) = s
    BY DEF s
  <2> QED BY <2>1, <2>2, <2>4, <2>5 DEF DWORD_SIZE
<1> HIDE DEF c, cs, m1, m2, s, e
<1>10. FreeSet(cs) = (FreeSet(curr_size) \ {c}) \cup {s}
  BY <1>1, <1>3, <1>4, <1>8 DEF FreeSet
<1>11. Lists(g_free_region_list', FreeSet(cs))
  <2>1. Lists(list_del(g_free_region_list, i), FreeSet(curr_size) \ {c})
    BY DelLists DEF Sound, c
  <2>2. s \notin FreeSet(curr_size) \ {c} BY <1>8 DEF FreeSet
  <2> QED BY <2>1, <2>2, <1>7, <1>10, AddLists
<1>12. Merged(cs, tail)
  <2> SUFFICES ASSUME NEW a \in DOMAIN cs \ {tail}, IS_FREE(cs[a])
               PROVE  ~IS_FREE(cs[a + DWORD_SIZE + GET_SIZE(cs[a])])
    BY DEF Merged
  <2>1. CASE a = s
    <3>1. ~IS_FREE(curr_size[e])
      BY <1>1 DEF Sound, Merged, e
    <3> QED BY <2>1, <3>1, <1>8, <1>9
  <2>2. CASE a # s
    <3>1. a \in DOMAIN curr_size \ {c} BY <2>2, <1>3, <1>8
    <3>2. cs[a] = curr_size[a] BY <3>1, <1>8
    <3>3. ~IS_FREE(curr_size[a + DWORD_SIZE + GET_SIZE(curr_size[a])])
          /\ a + DWORD_SIZE + GET_SIZE(curr_size[a]) \in DOMAIN curr_size
      BY <3>1, <3>2, <1>5 DEF Sound, Merged, Tiled, Chained
    <3> QED BY <3>2, <3>3, <1>3, <1>8
  <2> QED BY <2>1, <2>2
<1>13. DOMAIN held' = DOMAIN held \cup {c + DWORD_SIZE} /\ held'[c + DWORD_SIZE] = size
       /\ \A p \in DOMAIN held : p # c + DWORD_SIZE => held'[p] = held[p]
  BY DEF Store, c
<1>14. held' \in [DOMAIN held' -> Sizes]
  BY DEF Sound, Store
<1>15. Owned(cs, tail, held')
  <2>0. c + DWORD_SIZE \notin DOMAIN held
    BY <1>1 DEF Sound, Owned
  <2>1. size <= GET_SIZE(cs[c]) /\ GET_SIZE(cs[c]) <= size + 19
    BY <1>2, <1>3, <1>8
  <2>2. ASSUME NEW p \in DOMAIN held'
        PROVE  /\ p \in Nat /\ p - DWORD_SIZE \in DOMAIN cs \ {tail}
               /\ held'[p] \in Sizes /\ held'[p] <= GET_SIZE(cs[p - DWORD_SIZE])
               /\ GET_SIZE(cs[p - DWORD_SIZE]) <= held'[p] + 19
    <3>1. CASE p = c + DWORD_SIZE
      <4>1. p - DWORD_SIZE = c /\ p \in Nat BY <1>1, <3>1 DEF DWORD_SIZE
      <4> QED BY <4>1, <3>1, <2>1, <1>1, <1>8, <1>13
    <3>2. CASE p # c + DWORD_SIZE
      <4>1. p \in DOMAIN held /\ p \in Nat /\ p - DWORD_SIZE \in DOMAIN curr_size \ {tail}
            /\ held[p] \in Sizes /\ held[p] <= GET_SIZE(curr_size[p - DWORD_SIZE])
            /\ GET_SIZE(curr_size[p - DWORD_SIZE]) <= held[p] + 19
        BY <3>2, <1>13 DEF Sound, Owned
      <4>2. p - DWORD_SIZE # c BY <3>2, <4>1, <1>1 DEF DWORD_SIZE
      <4> QED BY <3>2, <4>1, <4>2, <1>8, <1>13
    <3> QED BY <3>1, <3>2
  <2>3. ASSUME NEW a \in DOMAIN cs \ {tail}
        PROVE  ~IS_FREE(cs[a]) <=> a + DWORD_SIZE \in DOMAIN held'
    <3>1. CASE a = c BY <3>1, <1>3, <1>8, <1>13
    <3>2. CASE a = s
      <4>1. s + DWORD_SIZE \notin DOMAIN held
        <5> SUFFICES ASSUME s + DWORD_SIZE \in DOMAIN held PROVE FALSE OBVIOUS
        <5>1. (s + DWORD_SIZE) - DWORD_SIZE \in DOMAIN curr_size BY DEF Sound, Owned
        <5>2. (s + DWORD_SIZE) - DWORD_SIZE = s BY <1>9 DEF DWORD_SIZE
        <5> QED BY <5>1, <5>2, <1>8
      <4>2. s + DWORD_SIZE # c + DWORD_SIZE BY <1>1, <1>9 DEF DWORD_SIZE
      <4> QED BY <3>2, <4>1, <4>2, <1>4, <1>8, <1>13
    <3>3. CASE a # c /\ a # s
      <4>1. a \in Nat /\ a \in DOMAIN curr_size \ {c, tail} /\ cs[a] = curr_size[a]
        BY <3>3, <1>5, <1>8 DEF Tiled, Layout
      <4>2. a + DWORD_SIZE # c + DWORD_SIZE BY <1>1, <3>3, <4>1 DEF DWORD_SIZE
      <4> QED BY <4>1, <4>2, <1>13 DEF Sound, Owned
    <3> QED BY <3>1, <3>2, <3>3
  <2> QED BY <2>2, <2>3 DEF Owned
<1> QED BY <1>8, <1>11, <1>12, <1>14, <1>15 DEF Sound, cs

\* malloc(), successful or not, keeps the invariant.
LEMMA MallocIInv ==
    ASSUME IInv, NEW size \in Sizes, Malloc(size) \/ MallocFail(size)
    PROVE  IInv'
<1>1. CASE Malloc(size)
  <2>1. booted # "no" /\ UNCHANGED <<booted, first, tail>>
    BY <1>1 DEF Malloc
  <2>2. PICK i \in 1 .. Len(g_free_region_list) :
          /\ Fits(i, LIST_NODE_ALIGN(size))
          /\ \/ /\ curr_size[g_free_region_list[i]] - LIST_NODE_ALIGN(size) < MEM_REGION_SIZE
                /\ TakeWhole(i)
             \/ /\ curr_size[g_free_region_list[i]] - LIST_NODE_ALIGN(size) >= MEM_REGION_SIZE
                /\ Split(i, LIST_NODE_ALIGN(size))
          /\ held' = Store(held, g_free_region_list[i] + DWORD_SIZE, size)
          /\ ret' = [op |-> "malloc", size |-> size, p |-> g_free_region_list[i] + DWORD_SIZE]
    BY <1>1 DEF Malloc, FirstFit
  <2>3. booted = "ok"
    <3> SUFFICES ASSUME booted # "ok" PROVE FALSE OBVIOUS
    <3>1. g_free_region_list = <<>> BY DEF IInv, Unused
    <3> QED BY <2>2, <3>1
  <2>4. Sound(curr_size, pre_size, g_free_region_list, held)
    BY <2>3 DEF IInv
  <2>5. Sound(curr_size', pre_size', g_free_region_list', held')
    BY <2>2, <2>4, TakeWholeSound, SplitSound
  <2>6. RetOK'
    <3>1. g_free_region_list[i] \in Nat BY <2>4, FreeEntry
    <3>2. size \in Nat BY AlignFacts
    <3> QED BY <2>2, <3>1, <3>2 DEF RetOK, DWORD_SIZE
  <2> QED BY <2>1, <2>3, <2>5, <2>6 DEF IInv, Sound
<1>2. CASE MallocFail(size)
  <2>1. size \in Nat BY AlignFacts
  <2> QED BY <1>2, <2>1 DEF MallocFail, IInv, RetOK, Sound, Unused, region, NULL
<1> QED BY <1>1, <1>2

\* What the first half of free() leaves: c is free and on no list, the region
\* after it is used, and nothing else has changed but a free successor taken in.
HalfFreed(cs, ps, l, c) ==
    /\ Tiled(cs, ps, first, tail)
    /\ DOMAIN cs \subseteq DOMAIN curr_size /\ c \in DOMAIN cs \ {tail}
    /\ cs[c] \in Nat /\ IS_FREE(cs[c])
    /\ \A x \in DOMAIN cs \ {c} : cs[x] = curr_size[x]
    /\ \A x \in DOMAIN curr_size \ DOMAIN cs : IS_FREE(curr_size[x])
    /\ ~IS_FREE(cs[c + DWORD_SIZE + GET_SIZE(cs[c])])
    /\ Lists(l, FreeSet(cs) \ {c})

LEMMA MergeSuccessorHalfFrees ==
    ASSUME Sound(curr_size, pre_size, g_free_region_list, held),
           NEW p \in DOMAIN held, NEW c, c = p - DWORD_SIZE,
           NEW m, m = MergeSuccessor(c)
    PROVE  HalfFreed(m.cs, m.ps, m.list, c)
<1> DEFINE s == c + DWORD_SIZE + GET_SIZE(curr_size[c])
<1>1. p \in Nat /\ c \in DOMAIN curr_size \ {tail} /\ p = c + DWORD_SIZE
      /\ c \in Nat /\ curr_size[c] \in Nat
  <2>1. p \in Nat /\ c \in DOMAIN curr_size \ {tail} BY DEF Sound, Owned
  <2>2. c \in Nat /\ curr_size[c] \in Nat BY <2>1 DEF Sound, Tiled, Layout
  <2> QED BY <2>1, <2>2 DEF DWORD_SIZE
<1>2. Tiled(curr_size, pre_size, first, tail) /\ Lists(g_free_region_list, FreeSet(curr_size))
  BY DEF Sound
<1>3. ~IS_FREE(curr_size[c])
  BY <1>1 DEF Sound, Owned
<1>4. s \in DOMAIN curr_size /\ s \in Nat /\ curr_size[s] \in Nat
  BY <1>1, <1>2 DEF Tiled, Layout, Chained
<1>5. GET_SIZE(curr_size[c]) \in Nat /\ IS_FREE(GET_SIZE(curr_size[c]))
      /\ GET_SIZE(GET_SIZE(curr_size[c])) = GET_SIZE(curr_size[c])
  BY <1>1, GetSizeFacts
<1>6. get_successor(curr_size, c) = s
  BY DEF get_successor
<1> HIDE DEF s
<1>7. CASE IS_FREE(curr_size[s])
  <2> DEFINE w == GET_SIZE(curr_size[c]) + curr_size[s] + DWORD_SIZE
             n == region_set_size([cs |-> curr_size, ps |-> pre_size], c, w)
             j == CHOOSE k \in 1 .. Len(g_free_region_list) : g_free_region_list[k] = s
  <2>1. m.cs = Drop(n.cs, {s}) /\ m.ps = Drop(n.ps, {s}) /\ m.list = list_del(g_free_region_list, j)
    BY <1>6, <1>7 DEF MergeSuccessor
  <2>2. w \in Nat /\ IS_FREE(w) /\ GET_SIZE(w) = w /\ GET_SIZE(curr_size[s]) = curr_size[s]
    <3>1. w \in Nat BY <1>4, <1>5 DEF DWORD_SIZE
    <3>2. IS_FREE(w) BY <1>4, <1>5, <1>7, UntaggedSums
    <3> QED BY <3>1, <3>2, <1>4, <1>7, GetSizeFacts
  <2>3. s # tail
    <3>1. curr_size[tail] = 1 BY <1>2 DEF Tiled, Layout
    <3>2. ~IS_FREE(1) BY DEF IS_FREE, WORD_SIZE
    <3> QED BY <3>1, <3>2, <1>7
  <2>4. /\ Tiled(m.cs, m.ps, first, tail) /\ s # c
        /\ DOMAIN m.cs = DOMAIN curr_size \ {s} /\ m.cs[c] = w
        /\ \A x \in DOMAIN curr_size \ {c, s} : m.cs[x] = curr_size[x]
    <3>1. GET_SIZE(w) = GET_SIZE(curr_size[c]) + GET_SIZE(curr_size[s]) + DWORD_SIZE
      BY <2>2
    <3>2. n = region_set_size([cs |-> curr_size, ps |-> pre_size], c, w) OBVIOUS
    <3> HIDE DEF w, n
    <3>3. s = c + DWORD_SIZE + GET_SIZE(curr_size[c]) BY DEF s
    <3>4. /\ Tiled(Drop(n.cs, {s}), Drop(n.ps, {s}), first, tail) /\ s # c
          /\ DOMAIN Drop(n.cs, {s}) = DOMAIN curr_size \ {s} /\ Drop(n.cs, {s})[c] = w
          /\ \A x \in DOMAIN curr_size \ {c, s} : Drop(n.cs, {s})[x] = curr_size[x]
      BY <3>1, <3>2, <3>3, <2>2, <2>3, <1>1, <1>2, MergeTiled
    <3> QED BY <3>4, <2>1
  <2>5. c + DWORD_SIZE + GET_SIZE(w) = s + DWORD_SIZE + GET_SIZE(curr_size[s])
    <3>1. s = c + 8 + GET_SIZE(curr_size[c]) BY DEF s, DWORD_SIZE
    <3>2. GET_SIZE(w) = GET_SIZE(curr_size[c]) + GET_SIZE(curr_size[s]) + 8
      BY <2>2 DEF DWORD_SIZE
    <3>3. GET_SIZE(curr_size[s]) \in Nat BY <1>4, <2>2
    <3> HIDE DEF w
    <3> QED BY <3>1, <3>2, <3>3, <1>1, <1>5 DEF DWORD_SIZE
  <2> DEFINE e == s + DWORD_SIZE + GET_SIZE(curr_size[s])
  <2>6. e \in DOMAIN curr_size /\ e # s /\ e # c /\ ~IS_FREE(curr_size[e])
    <3>1. e \in DOMAIN curr_size /\ ~IS_FREE(curr_size[e])
      BY <1>2, <1>4, <1>7, <2>3 DEF Sound, Merged, Tiled, Chained
    <3>2. c < s BY <1>1, <1>5 DEF s, DWORD_SIZE
    <3>3. s < e BY <1>4, <2>2 DEF DWORD_SIZE
    <3>4. e \in Nat BY <3>1, <1>2 DEF Tiled, Layout
    <3> HIDE DEF e
    <3> QED BY <3>1, <3>2, <3>3, <3>4, <1>1, <1>4
  <2>7. Lists(m.list, FreeSet(m.cs) \ {c})
    <3>1. s \in FreeSet(curr_size) BY <1>4, <1>7 DEF FreeSet
    <3>2. j \in 1 .. Len(g_free_region_list) /\ g_free_region_list[j] = s
      <4>1. \E k \in 1 .. Len(g_free_region_list) : g_free_region_list[k] = s
        BY <3>1, <1>2 DEF Lists
      <4> QED BY <4>1
    <3> HIDE DEF j, w
    <3>3. Lists(list_del(g_free_region_list, j), FreeSet(curr_size) \ {s})
      BY <3>2, <1>2, DelLists
    <3>4. FreeSet(m.cs) \ {c} = FreeSet(curr_size) \ {s}
      BY <1>3, <2>4 DEF FreeSet
    <3> QED BY <3>3, <3>4, <2>1
  <2> HIDE DEF w, n, j, e
  <2>8. ~IS_FREE(m.cs[c + DWORD_SIZE + GET_SIZE(m.cs[c])])
    <3>1. c + DWORD_SIZE + GET_SIZE(m.cs[c]) = e BY <2>4, <2>5 DEF e
    <3> QED BY <3>1, <2>4, <2>6
  <2> QED BY <1>1, <1>7, <2>2, <2>4, <2>7, <2>8 DEF HalfFreed
<1>8. CASE ~IS_FREE(curr_size[s])
  <2> DEFINE w == GET_SIZE(curr_size[c])
             n == region_set_size([cs |-> curr_size, ps |-> pre_size], c, w)
  <2>1. m.cs = n.cs /\ m.ps = n.ps /\ m.list = g_free_region_list
    BY <1>6, <1>8 DEF MergeSuccessor
  <2>2. /\ Tiled(m.cs, m.ps, first, tail)
        /\ DOMAIN m.cs = DOMAIN curr_size /\ m.cs[c] = w
        /\ \A x \in DOMAIN curr_size \ {c} : m.cs[x] = curr_size[x]
    <3>1. n = region_set_size([cs |-> curr_size, ps |-> pre_size], c, w) OBVIOUS
    <3>2. w \in Nat /\ GET_SIZE(w) = GET_SIZE(curr_size[c]) BY <1>5
    <3> HIDE DEF w, n
    <3>3. /\ Tiled(n.cs, n.ps, first, tail)
          /\ DOMAIN n.cs = DOMAIN curr_size /\ n.cs[c] = w
          /\ \A x \in DOMAIN curr_size \ {c} : n.cs[x] = curr_size[x]
      BY <3>1, <3>2, <1>1, <1>2, RetagTiled
    <3> QED BY <3>3, <2>1
  <2>3. s # c
    BY <1>1, <1>5 DEF s, DWORD_SIZE
  <2>4. c + DWORD_SIZE + GET_SIZE(m.cs[c]) = s
    BY <2>2, <1>5 DEF s
  <2>5. FreeSet(m.cs) \ {c} = FreeSet(curr_size)
    BY <1>3, <2>2 DEF FreeSet
  <2> QED BY <1>1, <1>2, <1>4, <1>5, <1>8, <2>1, <2>2, <2>3, <2>4, <2>5 DEF HalfFreed
<1> QED BY <1>7, <1>8

\* free() keeps the invariant.
LEMMA FreeIInv ==
    ASSUME IInv, NEW p \in DOMAIN held, Free(p)
    PROVE  IInv'
<1> DEFINE c  == p - DWORD_SIZE
           m  == MergeSuccessor(c)
           cs == curr_size'
<1>1. booted = "ok" /\ booted' = "ok" /\ first' = first /\ tail' = tail
      /\ Sound(curr_size, pre_size, g_free_region_list, held)
  BY DEF IInv, Unused, Free
<1>2. p \in Nat /\ c \in Nat /\ p = c + DWORD_SIZE
  <2>1. p \in Nat /\ c \in DOMAIN curr_size BY <1>1 DEF Sound, Owned
  <2>2. c \in Nat BY <1>1, <2>1 DEF Sound, Tiled, Layout
  <2> QED BY <2>1, <2>2 DEF DWORD_SIZE
<1>3. HalfFreed(m.cs, m.ps, m.list, c)
  BY <1>1, MergeSuccessorHalfFrees
<1>4. RetOK'
  BY <1>2 DEF Free, RetOK
<1>5. held' = Drop(held, {p})
  BY DEF Free
<1>6. \/ /\ IS_FREE(m.ps[c])
         /\ LET q == get_predeccessor(m.ps, c)
                n == region_set_size([cs |-> m.cs, ps |-> m.ps], q,
                                     m.cs[q] + m.cs[c] + DWORD_SIZE)
            IN  curr_size' = Drop(n.cs, {c}) /\ pre_size' = Drop(n.ps, {c})
         /\ g_free_region_list' = m.list
      \/ /\ ~IS_FREE(m.ps[c])
         /\ curr_size' = m.cs /\ pre_size' = m.ps
         /\ g_free_region_list' = list_add_tail(m.list, c)
  BY DEF Free
<1> HIDE DEF c, m
\* No used region other than c is touched, and c is no longer held.
<1>7. ASSUME DOMAIN cs \subseteq DOMAIN curr_size,
             c \in DOMAIN cs => IS_FREE(cs[c]),
             \A x \in DOMAIN curr_size \ {c} : ~IS_FREE(curr_size[x]) =>
                x \in DOMAIN cs /\ cs[x] = curr_size[x],
             \A x \in DOMAIN cs \ {c} : IS_FREE(curr_size[x]) => IS_FREE(cs[x])
      PROVE  Owned(cs, tail, held') /\ held' \in [DOMAIN held' -> Sizes]
  <2>1. DOMAIN held' = DOMAIN held \ {p} /\ \A x \in DOMAIN held \ {p} : held'[x] = held[x]
    BY <1>5 DEF Drop
  <2>2. held' \in [DOMAIN held' -> Sizes]
    BY <1>1, <1>5 DEF Drop, Sound
  <2>3. ASSUME NEW q \in DOMAIN held'
        PROVE  /\ q \in Nat /\ q - DWORD_SIZE \in DOMAIN cs \ {tail}
               /\ held'[q] \in Sizes /\ held'[q] <= GET_SIZE(cs[q - DWORD_SIZE])
               /\ GET_SIZE(cs[q - DWORD_SIZE]) <= held'[q] + 19
    <3>1. q \in DOMAIN held \ {p} /\ q \in Nat /\ q - DWORD_SIZE \in DOMAIN curr_size \ {tail}
          /\ held[q] \in Sizes /\ held[q] <= GET_SIZE(curr_size[q - DWORD_SIZE])
          /\ GET_SIZE(curr_size[q - DWORD_SIZE]) <= held[q] + 19
      BY <2>1, <1>1 DEF Sound, Owned
    <3>2. q - DWORD_SIZE # c /\ (q - DWORD_SIZE) + DWORD_SIZE = q
      BY <3>1, <1>2 DEF DWORD_SIZE
    <3>3. ~IS_FREE(curr_size[q - DWORD_SIZE])
      BY <3>1, <3>2, <1>1 DEF Sound, Owned
    <3> QED BY <3>1, <3>2, <3>3, <2>1, <1>7
  <2>4. ASSUME NEW a \in DOMAIN cs \ {tail}
        PROVE  ~IS_FREE(cs[a]) <=> a + DWORD_SIZE \in DOMAIN held'
    <3>1. a \in DOMAIN curr_size \ {tail} /\ a \in Nat
      BY <1>1, <1>7 DEF Sound, Tiled, Layout
    <3>2. CASE a = c BY <3>2, <2>1, <1>2, <1>7
    <3>3. CASE a # c
      <4>1. a + DWORD_SIZE # p BY <3>1, <3>3, <1>2 DEF DWORD_SIZE
      <4>2. ~IS_FREE(curr_size[a]) <=> a + DWORD_SIZE \in DOMAIN held
        BY <3>1, <1>1 DEF Sound, Owned
      <4>3. IS_FREE(cs[a]) <=> IS_FREE(curr_size[a]) BY <3>1, <3>3, <1>7
      <4> QED BY <4>1, <4>2, <4>3, <2>1
    <3> QED BY <3>2, <3>3
  <2> QED BY <2>2, <2>3, <2>4 DEF Owned
<1>8. CASE /\ ~IS_FREE(m.ps[c])
           /\ curr_size' = m.cs /\ pre_size' = m.ps
           /\ g_free_region_list' = list_add_tail(m.list, c)
  <2>1. Tiled(cs, pre_size', first, tail)
    BY <1>3, <1>8 DEF HalfFreed
  <2>2. Lists(g_free_region_list', FreeSet(cs))
    <3>1. Lists(list_add_tail(m.list, c), (FreeSet(m.cs) \ {c}) \cup {c})
      BY <1>3, AddLists DEF HalfFreed
    <3>2. (FreeSet(m.cs) \ {c}) \cup {c} = FreeSet(m.cs)
      BY <1>3 DEF HalfFreed, FreeSet
    <3> QED BY <3>1, <3>2, <1>8
  <2>3. Merged(cs, tail)
    <3> SUFFICES ASSUME NEW a \in DOMAIN m.cs \ {tail}, IS_FREE(m.cs[a])
                 PROVE  ~IS_FREE(m.cs[a + DWORD_SIZE + GET_SIZE(m.cs[a])])
      BY <1>8 DEF Merged
    <3> DEFINE y == a + DWORD_SIZE + GET_SIZE(m.cs[a])
    <3>1. y \in DOMAIN m.cs /\ m.ps[y] = m.cs[a]
      BY <1>3 DEF HalfFreed, Tiled, Chained
    <3>2. y # c BY <3>1, <1>8
    <3>3. CASE a = c BY <3>3, <1>3 DEF HalfFreed
    <3>4. CASE a # c
      <4>1. m.cs[a] = curr_size[a] /\ a \in DOMAIN curr_size \ {tail}
            /\ m.cs[y] = curr_size[y]
        BY <3>1, <3>2, <3>4, <1>3 DEF HalfFreed
      <4>2. ~IS_FREE(curr_size[y]) BY <4>1, <1>1 DEF Sound, Merged
      <4> QED BY <4>1, <4>2
    <3> QED BY <3>3, <3>4
  <2>4. Owned(cs, tail, held') /\ held' \in [DOMAIN held' -> Sizes]
    <3>1. DOMAIN cs \subseteq DOMAIN curr_size /\ (c \in DOMAIN cs => IS_FREE(cs[c]))
      BY <1>3, <1>8 DEF HalfFreed
    <3>2. \A x \in DOMAIN curr_size \ {c} : ~IS_FREE(curr_size[x]) =>
                x \in DOMAIN cs /\ cs[x] = curr_size[x]
      BY <1>3, <1>8 DEF HalfFreed
    <3>3. \A x \in DOMAIN cs \ {c} : IS_FREE(curr_size[x]) => IS_FREE(cs[x])
      BY <1>3, <1>8 DEF HalfFreed
    <3> QED BY <3>1, <3>2, <3>3, <1>7
  <2> QED BY <1>1, <1>4, <2>1, <2>2, <2>3, <2>4 DEF IInv, Sound
<1>9. CASE IS_FREE(m.ps[c])
  <2> DEFINE q == get_predeccessor(m.ps, c)
             w == m.cs[q] + m.cs[c] + DWORD_SIZE
             n == region_set_size([cs |-> m.cs, ps |-> m.ps], q, w)
  <2>1. cs = Drop(n.cs, {c}) /\ pre_size' = Drop(n.ps, {c}) /\ g_free_region_list' = m.list
    BY <1>6, <1>9
  <2>2. Tiled(m.cs, m.ps, first, tail) /\ c \in DOMAIN m.cs \ {tail}
        /\ m.cs[c] \in Nat /\ IS_FREE(m.cs[c]) /\ GET_SIZE(m.cs[c]) = m.cs[c]
    BY <1>3, GetSizeFacts DEF HalfFreed
  <2>3. /\ q \in DOMAIN m.cs \ {tail} /\ m.cs[q] \in Nat /\ IS_FREE(m.cs[q]) /\ q # c
        /\ GET_SIZE(m.cs[q]) = m.cs[q] /\ c = q + DWORD_SIZE + GET_SIZE(m.cs[q])
    <3>1. c # first
      <4>1. m.ps[first] = 1 BY <2>2 DEF Tiled, Layout
      <4>2. ~IS_FREE(1) BY DEF IS_FREE, WORD_SIZE
      <4> QED BY <4>1, <4>2, <1>9
    <3>2. PICK a \in DOMAIN m.cs \ {tail} : c = a + DWORD_SIZE + GET_SIZE(m.cs[a])
      BY <3>1, <2>2 DEF Tiled, Chained
    <3>3. m.ps[c] = m.cs[a] /\ m.cs[a] \in Nat /\ a \in Nat
      BY <3>2, <2>2 DEF Tiled, Layout, Chained
    <3>4. IS_FREE(m.cs[a]) /\ GET_SIZE(m.cs[a]) = m.cs[a]
          /\ WORD_ALIGN_DOWN(m.ps[c]) = m.cs[a]
      BY <3>3, <1>9, GetSizeFacts
    <3>5. q = c - m.cs[a] - DWORD_SIZE
      BY <3>4 DEF get_predeccessor
    <3>6. q = a BY <3>2, <3>3, <3>4, <3>5 DEF DWORD_SIZE
    <3>7. a # c BY <3>2, <3>3, <3>4 DEF DWORD_SIZE
    <3> QED BY <3>2, <3>3, <3>4, <3>6, <3>7
  <2>4. w \in Nat /\ IS_FREE(w) /\ GET_SIZE(w) = w
    <3>1. w \in Nat BY <2>2, <2>3 DEF DWORD_SIZE
    <3>2. IS_FREE(w) BY <2>2, <2>3, UntaggedSums
    <3> QED BY <3>1, <3>2, GetSizeFacts
  <2>5. /\ Tiled(cs, pre_size', first, tail)
        /\ DOMAIN cs = DOMAIN m.cs \ {c} /\ cs[q] = w
        /\ \A x \in DOMAIN m.cs \ {q, c} : cs[x] = m.cs[x]
    <3>1. GET_SIZE(w) = GET_SIZE(m.cs[q]) + GET_SIZE(m.cs[c]) + DWORD_SIZE
      BY <2>2, <2>3, <2>4
    <3>2. n = region_set_size([cs |-> m.cs, ps |-> m.ps], q, w) OBVIOUS
    <3> HIDE DEF q, w, n
    <3> DEFINE d == m.cs
               r == m.ps
    <3>3. /\ Tiled(d, r, first, tail) /\ q \in DOMAIN d \ {tail} /\ w \in Nat
          /\ c = q + DWORD_SIZE + GET_SIZE(d[q]) /\ c # tail
          /\ GET_SIZE(w) = GET_SIZE(d[q]) + GET_SIZE(d[c]) + DWORD_SIZE
          /\ n = region_set_size([cs |-> d, ps |-> r], q, w)
      BY <3>1, <3>2, <2>2, <2>3, <2>4
    <3> HIDE DEF d, r
    <3>4. Tiled(Drop(n.cs, {c}), Drop(n.ps, {c}), first, tail)
      BY <3>3, MergeTiled, ZenonT(40)
    <3>5. Drop(n.cs, {c}) = [x \in DOMAIN d \ {c} |-> IF x = q THEN w ELSE d[x]]
      BY <3>3 DEF Drop, region_set_size, Store
    <3>6. DOMAIN Drop(n.cs, {c}) = DOMAIN d \ {c}
      BY <3>5
    <3>7. q \in DOMAIN d \ {c} BY <3>3, <2>3
    <3> QED BY <3>4, <3>5, <3>6, <3>7, <2>1 DEF d
  <2>6. q + DWORD_SIZE + GET_SIZE(w) = c + DWORD_SIZE + GET_SIZE(m.cs[c])
    <3>1. q \in Nat BY <2>2, <2>3 DEF Tiled, Layout
    <3>2. c = q + 8 + m.cs[q] BY <2>3 DEF DWORD_SIZE
    <3>3. GET_SIZE(w) = m.cs[q] + m.cs[c] + 8 BY <2>4 DEF DWORD_SIZE
    <3> HIDE DEF q, w
    <3> QED BY <3>1, <3>2, <3>3, <2>2, <2>3 DEF DWORD_SIZE
  <2> HIDE DEF q, w, n, cs
  <2>7. Lists(g_free_region_list', FreeSet(cs))
    <3>1. FreeSet(cs) = FreeSet(m.cs) \ {c}
      BY <2>3, <2>4, <2>5 DEF FreeSet
    <3> QED BY <3>1, <2>1, <1>3 DEF HalfFreed
  <2>8. Merged(cs, tail)
    <3> SUFFICES ASSUME NEW a \in DOMAIN cs \ {tail}, IS_FREE(cs[a])
                 PROVE  ~IS_FREE(cs[a + DWORD_SIZE + GET_SIZE(cs[a])])
      BY DEF Merged
    <3> DEFINE y == a + DWORD_SIZE + GET_SIZE(cs[a])
    <3>1. y \in DOMAIN cs BY <2>5 DEF Tiled, Chained
    <3>2. CASE a = q
      <4>1. y = c + DWORD_SIZE + GET_SIZE(m.cs[c]) BY <3>2, <2>5, <2>6
      <4>2. ~IS_FREE(m.cs[y]) BY <4>1, <1>3 DEF HalfFreed
      <4>3. y # q BY <4>2, <2>3
      <4> QED BY <4>2, <4>3, <3>1, <2>5
    <3>3. CASE a # q
      <4>1. a \in DOMAIN m.cs \ {q, c} /\ cs[a] = m.cs[a] /\ m.cs[a] = curr_size[a]
            /\ a \in DOMAIN curr_size \ {tail}
        BY <3>3, <2>5, <1>3 DEF HalfFreed
      <4>2. y \in DOMAIN m.cs \ {c} /\ m.cs[y] = curr_size[y]
        BY <3>1, <2>5, <1>3 DEF HalfFreed
      <4>3. ~IS_FREE(curr_size[y]) BY <4>1, <1>1 DEF Sound, Merged
      <4>4. y # q BY <4>2, <4>3, <2>3
      <4> QED BY <4>2, <4>3, <4>4, <3>1, <2>5
    <3> QED BY <3>2, <3>3
  <2>9. Owned(cs, tail, held') /\ held' \in [DOMAIN held' -> Sizes]
    <3>1. DOMAIN cs \subseteq DOMAIN curr_size /\ c \notin DOMAIN cs
      BY <2>5, <1>3 DEF HalfFreed
    <3>2. \A x \in DOMAIN curr_size \ {c} : ~IS_FREE(curr_size[x]) =>
                x \in DOMAIN cs /\ cs[x] = curr_size[x]
      BY <2>3, <2>5, <1>3 DEF HalfFreed
    <3>3. \A x \in DOMAIN cs \ {c} : IS_FREE(curr_size[x]) => IS_FREE(cs[x])
      BY <2>3, <2>4, <2>5, <1>3 DEF HalfFreed
    <3> QED BY <3>1, <3>2, <3>3, <1>7
  <2>10. Sound(cs, pre_size', g_free_region_list', held')
    BY <2>5, <2>7, <2>8, <2>9 DEF Sound
  <2> QED BY <1>1, <1>4, <2>10 DEF IInv, Sound, cs
<1> QED BY <1>6, <1>8, <1>9

\* Every step keeps the inductive invariant.
LEMMA NextIInv == IInv /\ [Next]_vars => IInv'
<1> SUFFICES ASSUME IInv, [Next]_vars PROVE IInv' OBVIOUS
<1>1. ASSUME NEW b \in HeapBounds, HeapInit(b[1], b[2]) PROVE IInv'
  BY <1>1, HeapInitIInv
<1>2. ASSUME NEW size \in Sizes, Malloc(size) \/ MallocFail(size) PROVE IInv'
  BY <1>2, MallocIInv
<1>3. ASSUME NEW p \in DOMAIN held, Free(p) PROVE IInv'
  BY <1>3, FreeIInv
<1>4. CASE UNCHANGED vars
  BY <1>4 DEF vars, region, IInv, RetOK, Unused, Sound
<1> QED BY <1>1, <1>2, <1>3, <1>4 DEF Next

\* IInv holds in every state of the heap.
THEOREM Invariance == Spec => []IInv
BY InitIInv, NextIInv, PTL DEF Spec

(***************************************************************************)
(* What follows from the invariant: the properties of Heap.                *)
(***************************************************************************)

\* malloc() and free() keep every variable in its type.
THEOREM TypeCorrect == Spec => []TypeOK
<1>1. IInv => TypeOK
  <2> SUFFICES ASSUME IInv PROVE TypeOK OBVIOUS
  <2>1. CASE booted # "ok"
    BY <2>1 DEF IInv, Unused, RetOK, TypeOK, Headers
  <2>2. CASE booted = "ok"
    <3>1. Sound(curr_size, pre_size, g_free_region_list, held)
      BY <2>2 DEF IInv
    <3>2. g_free_region_list \in Seq(Headers)
      <4>1. g_free_region_list \in Seq(FreeSet(curr_size))
        BY <3>1 DEF Sound, Lists
      <4>2. FreeSet(curr_size) \subseteq Headers BY DEF FreeSet, Headers
      <4> QED BY <4>1, <4>2
    <3>3. DOMAIN held \subseteq Nat BY <3>1 DEF Sound, Owned
    <3> QED BY <2>2, <3>1, <3>2, <3>3 DEF IInv, RetOK, TypeOK, Sound, Tiled, Layout, Headers
  <2> QED BY <2>1, <2>2
<1> QED BY <1>1, Invariance, PTL

\* The boundary tags agree after every sequence of splits and merges.
THEOREM TagsAgree == Spec => []BoundaryTags
<1>1. IInv => BoundaryTags
  <2> SUFFICES ASSUME IInv, booted = "ok" PROVE BoundaryTags
    BY DEF BoundaryTags
  <2>1. Tiled(curr_size, pre_size, first, tail) BY DEF IInv, Sound
  <2>2. \A a \in Headers : a \in first .. tail
    BY <2>1 DEF Tiled, Layout, Headers
  <2> QED BY <2>1, <2>2 DEF Tiled, Layout, Chained, BoundaryTags, Headers, Succ, get_successor
<1> QED BY <1>1, Invariance, PTL

\* The free list is exactly the free regions, each once.
THEOREM FreeListIsExact == Spec => []FreeListExact
<1>1. IInv => FreeListExact
  <2> SUFFICES ASSUME IInv PROVE FreeListExact OBVIOUS
  <2>1. FreeHeaders = FreeSet(curr_size) BY DEF FreeHeaders, FreeSet, Headers
  <2>2. Lists(g_free_region_list, FreeSet(curr_size))
    <3>1. CASE booted = "ok" BY <3>1 DEF IInv, Sound
    <3>2. CASE booted # "ok"
      BY <3>2 DEF IInv, Unused, Lists, FreeSet
    <3> QED BY <3>1, <3>2
  <2>3. {g_free_region_list[i] : i \in 1 .. Len(g_free_region_list)} = FreeHeaders
    BY <2>1, <2>2 DEF Lists
  <2> QED BY <2>2, <2>3 DEF Lists, FreeListExact
<1> QED BY <1>1, Invariance, PTL

\* The sentinel is not free.
LEMMA TailUsed == ~IS_FREE(1)
BY DEF IS_FREE, WORD_SIZE

\* Every free region has room for its list node.
THEOREM ListNodesFit == Spec => []ListNodeFits
<1>1. IInv => ListNodeFits
  <2> SUFFICES ASSUME IInv, NEW a \in FreeHeaders PROVE curr_size[a] >= LIST_NODE_SIZE
    BY DEF ListNodeFits
  <2>1. a \in DOMAIN curr_size /\ IS_FREE(curr_size[a]) BY DEF FreeHeaders, Headers
  <2>2. booted = "ok" BY <2>1 DEF IInv, Unused
  <2>3. Tiled(curr_size, pre_size, first, tail) BY <2>2 DEF IInv, Sound
  <2>4. a # tail BY <2>1, <2>3, TailUsed DEF Tiled, Layout
  <2>5. GET_SIZE(curr_size[a]) = curr_size[a]
    BY <2>1, <2>3, GetSizeFacts DEF Tiled, Layout
  <2> QED BY <2>1, <2>3, <2>4, <2>5 DEF Tiled, Chained
<1> QED BY <1>1, Invariance, PTL

\* free() leaves no two free neighbours, in whatever order blocks are freed.
THEOREM MergesFully == Spec => []FullyMerged
<1>1. IInv => FullyMerged
  <2> SUFFICES ASSUME IInv, booted = "ok", NEW a \in FreeHeaders
               PROVE  ~IS_FREE(curr_size[Succ(a)])
    BY DEF FullyMerged
  <2>1. a \in DOMAIN curr_size /\ IS_FREE(curr_size[a]) BY DEF FreeHeaders, Headers
  <2>2. a # tail BY <2>1, TailUsed DEF IInv, Sound, Tiled, Layout
  <2> QED BY <2>1, <2>2 DEF IInv, Sound, Merged, Succ, get_successor
<1> QED BY <1>1, Invariance, PTL

\* The used regions are the caller's blocks, and every block fits its region.
LEMMA BlocksFitFromIInv == IInv => BlocksFit
<1> SUFFICES ASSUME IInv PROVE BlocksFit OBVIOUS
<1>1. CASE booted # "ok"
  BY <1>1 DEF IInv, Unused, BlocksFit, Headers
<1>2. CASE booted = "ok"
  <2>1. Owned(curr_size, tail, held) /\ Tiled(curr_size, pre_size, first, tail)
    BY <1>2 DEF IInv, Sound
  <2>2. ASSUME NEW p \in DOMAIN held
        PROVE  /\ p \in Nat
               /\ p - DWORD_SIZE \in (Headers \ FreeHeaders) \ {tail}
               /\ (p - DWORD_SIZE) + DWORD_SIZE = p
               /\ p + held[p] <= Succ(p - DWORD_SIZE)
    <3>1. p \in Nat /\ p - DWORD_SIZE \in DOMAIN curr_size \ {tail}
          /\ held[p] \in Sizes /\ held[p] <= GET_SIZE(curr_size[p - DWORD_SIZE])
      BY <2>1 DEF Owned
    <3>2. held[p] \in Nat BY <3>1, AlignFacts
    <3>3. curr_size[p - DWORD_SIZE] \in Nat BY <2>1, <3>1 DEF Tiled, Layout
    <3>4. GET_SIZE(curr_size[p - DWORD_SIZE]) \in Nat BY <3>3, GetSizeFacts
    <3>5. (p - DWORD_SIZE) + DWORD_SIZE = p BY <3>1 DEF DWORD_SIZE
    <3>6. ~IS_FREE(curr_size[p - DWORD_SIZE]) BY <2>1, <3>1, <3>5 DEF Owned
    <3>7. p + held[p] <= p + GET_SIZE(curr_size[p - DWORD_SIZE])
      BY <3>1, <3>2, <3>4
    <3> QED BY <3>1, <3>5, <3>6, <3>7 DEF Headers, FreeHeaders, Succ, get_successor
  <2>3. ASSUME NEW a \in (Headers \ FreeHeaders) \ {tail}
        PROVE  a + DWORD_SIZE \in DOMAIN held
    BY <2>1 DEF Owned, Headers, FreeHeaders
  <2>4. {a + DWORD_SIZE : a \in (Headers \ FreeHeaders) \ {tail}} = DOMAIN held
    BY <2>2, <2>3, ZenonT(40)
  <2> QED BY <2>2, <2>4 DEF BlocksFit
<1> QED BY <1>1, <1>2

\* No block runs into its neighbour and none leaks, for every request size.
THEOREM BlocksAlwaysFit == Spec => []BlocksFit
BY BlocksFitFromIInv, Invariance, PTL

\* A heap whose blocks have all come back is the heap that heap_init() made.
THEOREM NothingIsLost == Spec => []NothingHeldNothingLost
<1>1. IInv => NothingHeldNothingLost
  <2> SUFFICES ASSUME IInv, booted = "ok", DOMAIN held = {}
               PROVE  /\ Headers = {first, tail}
                      /\ curr_size[first] = tail - first - DWORD_SIZE
                      /\ g_free_region_list = <<first>>
    BY DEF NothingHeldNothingLost
  <2>1. Sound(curr_size, pre_size, g_free_region_list, held) BY DEF IInv
  <2>2. Tiled(curr_size, pre_size, first, tail) BY <2>1 DEF Sound
  <2>3. \A a \in DOMAIN curr_size \ {tail} : IS_FREE(curr_size[a])
    BY <2>1 DEF Sound, Owned
  <2>4. first \in DOMAIN curr_size \ {tail} /\ first \in Nat /\ tail \in Nat
        /\ curr_size[first] \in Nat
    BY <2>2 DEF Tiled, Layout
  <2>5. first + DWORD_SIZE + GET_SIZE(curr_size[first]) = tail
    BY <2>1, <2>2, <2>3, <2>4 DEF Sound, Merged, Tiled, Chained
  <2>6. GET_SIZE(curr_size[first]) = curr_size[first]
    BY <2>3, <2>4, GetSizeFacts
  <2>7. Headers = {first, tail}
    <3>1. ASSUME NEW a \in Headers PROVE a \in {first, tail}
      <4>1. a \in Nat /\ first <= a /\ a <= tail BY <2>2 DEF Tiled, Layout, Headers
      <4>2. first < a => tail <= a BY <2>2, <2>4, <2>5 DEF Tiled, Chained, Headers
      <4> QED BY <4>1, <4>2, <2>4
    <3> QED BY <3>1, <2>2 DEF Tiled, Layout, Headers
  <2>8. FreeSet(curr_size) = {first}
    BY <2>2, <2>3, <2>4, <2>7, TailUsed DEF FreeSet, Headers, Tiled, Layout
  <2>9. g_free_region_list = <<first>>
    <3> DEFINE l == g_free_region_list
    <3>1. l \in Seq({first}) /\ Len(l) \in Nat
          /\ (\E i \in 1 .. Len(l) : l[i] = first)
          /\ \A i, j \in 1 .. Len(l) : i # j => l[i] # l[j]
      BY <2>1, <2>8 DEF Sound, Lists
    <3> HIDE DEF l
    <3>2. \A i \in 1 .. Len(l) : l[i] = first BY <3>1
    <3>3. Len(l) = 1
      <4>1. Len(l) >= 1 BY <3>1
      <4>2. ~(Len(l) >= 2)
        <5> SUFFICES ASSUME Len(l) >= 2 PROVE FALSE OBVIOUS
        <5>1. 1 \in 1 .. Len(l) /\ 2 \in 1 .. Len(l) BY <3>1
        <5> QED BY <5>1, <3>1, <3>2
      <4>3. \A n \in Nat : n >= 1 /\ ~(n >= 2) => n = 1 OBVIOUS
      <4>4. Len(l) \in Nat BY <3>1
      <4> QED BY <4>1, <4>2, <4>3, <4>4, Zenon
    <3>4. l[1] = first BY <3>2, <3>3
    <3>5. l = <<first>> BY <3>1, <3>3, <3>4
    <3> QED BY <3>5 DEF l
  <2>10. curr_size[first] = tail - first - DWORD_SIZE
    BY <2>4, <2>5, <2>6 DEF DWORD_SIZE
  <2> QED BY <2>7, <2>9, <2>10
<1> QED BY <1>1, Invariance, PTL

\* The arena as a caller sees it, and the end of a block.
Low == first + DWORD_SIZE
EndOf(p) == p + held[p]

\* The addresses of a heap in use, and what lies between them.
LEMMA RegionFacts ==
    ASSUME IInv, booted = "ok", NEW a \in DOMAIN curr_size \ {tail}
    PROVE  /\ a \in Nat /\ tail \in Nat /\ first \in Nat /\ first <= a /\ a <= tail
           /\ curr_size[a] \in Nat /\ GET_SIZE(curr_size[a]) \in Nat
           /\ Succ(a) = a + 8 + GET_SIZE(curr_size[a]) /\ Succ(a) \in Nat /\ Succ(a) <= tail
           /\ Succ(a) \in DOMAIN curr_size
           /\ IS_FREE(curr_size[a]) => /\ GET_SIZE(curr_size[a]) = curr_size[a]
                                       /\ ~IS_FREE(curr_size[Succ(a)])
           /\ \A b \in DOMAIN curr_size : a < b => Succ(a) <= b
<1>1. Tiled(curr_size, pre_size, first, tail) /\ Merged(curr_size, tail)
  BY DEF IInv, Sound
<1>2. /\ a \in Nat /\ tail \in Nat /\ first \in Nat /\ first <= a /\ a <= tail
      /\ curr_size[a] \in Nat /\ \A b \in DOMAIN curr_size : b \in Nat /\ b <= tail
  BY <1>1 DEF Tiled, Layout
<1>3. GET_SIZE(curr_size[a]) \in Nat /\ (IS_FREE(curr_size[a]) => GET_SIZE(curr_size[a]) = curr_size[a])
  BY <1>2, GetSizeFacts
<1>4. Succ(a) = a + 8 + GET_SIZE(curr_size[a])
  BY DEF Succ, get_successor, DWORD_SIZE
<1>5. /\ Succ(a) \in DOMAIN curr_size /\ \A b \in DOMAIN curr_size : a < b => Succ(a) <= b
      /\ IS_FREE(curr_size[a]) => ~IS_FREE(curr_size[Succ(a)])
  BY <1>1 DEF Tiled, Chained, Merged, Succ, get_successor
<1> QED BY <1>2, <1>3, <1>4, <1>5

\* A block lies in a used region of its own, which ends at most 19 bytes
\* after it.
LEMMA BlockFacts ==
    ASSUME IInv, booted = "ok", NEW p \in DOMAIN held
    PROVE  /\ p \in Nat /\ p - 8 \in DOMAIN curr_size \ {tail} /\ ~IS_FREE(curr_size[p - 8])
           /\ held[p] \in Nat /\ held[p] > 0
           /\ EndOf(p) \in Nat /\ p < EndOf(p) /\ EndOf(p) <= Succ(p - 8)
           /\ Succ(p - 8) <= EndOf(p) + 19
<1>1. Owned(curr_size, tail, held)
  BY DEF IInv, Sound
<1>2. /\ p \in Nat /\ p - 8 \in DOMAIN curr_size \ {tail} /\ held[p] \in Sizes
      /\ held[p] <= GET_SIZE(curr_size[p - 8]) /\ GET_SIZE(curr_size[p - 8]) <= held[p] + 19
  BY <1>1 DEF Owned, DWORD_SIZE
<1>3. held[p] \in Nat /\ held[p] > 0
  <2>1. \A n \in Sizes : n \in 1 .. (SizeMod - LIST_NODE_SIZE)
    BY SizesAssumption
  <2>2. \A n \in 1 .. (SizeMod - LIST_NODE_SIZE) : n \in Nat /\ n > 0
    BY SizesAssumption DEF LIST_NODE_SIZE
  <2> QED BY <1>2, <2>1, <2>2
<1>4. (p - 8) + DWORD_SIZE = p
  BY <1>2 DEF DWORD_SIZE
<1>5. ~IS_FREE(curr_size[p - 8])
  BY <1>1, <1>2, <1>4 DEF Owned
<1>6. GET_SIZE(curr_size[p - 8]) \in Nat /\ Succ(p - 8) = (p - 8) + 8 + GET_SIZE(curr_size[p - 8])
  BY <1>2, RegionFacts
<1> QED BY <1>2, <1>3, <1>5, <1>6 DEF EndOf

\* A used region is a block's.
LEMMA UsedFacts ==
    ASSUME IInv, booted = "ok", NEW a \in DOMAIN curr_size, ~IS_FREE(curr_size[a]), a # tail
    PROVE  a + 8 \in DOMAIN held
<1>1. Owned(curr_size, tail, held)
  BY DEF IInv, Sound
<1> QED BY <1>1 DEF Owned, DWORD_SIZE

\* What is free from g on: Gap() of Allocator.
Room(g, size) ==
    /\ Low <= g /\ g + size <= tail
    /\ \A q \in DOMAIN held : g + size <= q \/ EndOf(q) <= g

\* The region after a used one, or after the start of the arena, that a gap
\* reaches into has all of the gap but the next header.
LEMMA GapInRegion ==
    ASSUME IInv, booted = "ok", NEW a \in DOMAIN curr_size \ {tail}, IS_FREE(curr_size[a]),
           NEW g \in Nat, NEW n \in Nat, g <= a + 8, n > 16, Room(g, n)
    PROVE  g + n <= a + 16 + curr_size[a]
<1> DEFINE s == Succ(a)
<1>1. /\ a \in Nat /\ tail \in Nat /\ s = a + 8 + curr_size[a] /\ s \in DOMAIN curr_size /\ s \in Nat
      /\ ~IS_FREE(curr_size[s]) /\ curr_size[a] \in Nat
  BY RegionFacts
<1> HIDE DEF s
<1>2. CASE s = tail
  BY <1>1, <1>2 DEF Room
<1>3. CASE s # tail
  <2>1. s + 8 \in DOMAIN held
    BY <1>1, <1>3, UsedFacts
  <2>2. g + n <= s + 8 \/ EndOf(s + 8) <= g
    BY <2>1 DEF Room
  <2>3. EndOf(s + 8) \in Nat /\ s + 8 < EndOf(s + 8)
    BY <2>1, BlockFacts
  <2> QED BY <1>1, <2>2, <2>3
<1> QED BY <1>2, <1>3

\* If no region on the free list is large enough no gap is.
LEMMA RefusalJust ==
    ASSUME IInv, booted = "ok", NEW size \in Sizes,
           \A i \in 1 .. Len(g_free_region_list) : ~Fits(i, LIST_NODE_ALIGN(size)),
           NEW g \in {Low} \cup {EndOf(q) : q \in DOMAIN held}
    PROVE  ~Room(g, size + 42)
<1> SUFFICES ASSUME Room(g, size + 42) PROVE FALSE
  OBVIOUS
<1>1. /\ size \in Nat /\ LIST_NODE_ALIGN(size) \in Nat /\ LIST_NODE_ALIGN(size) <= size + 7
      /\ size + 42 \in Nat /\ size + 42 > 16
  BY AlignFacts
<1>2. ASSUME NEW a \in DOMAIN curr_size \ {tail}, IS_FREE(curr_size[a])
      PROVE  curr_size[a] \in Nat /\ curr_size[a] < size + 7
  <2>1. a \in FreeSet(curr_size) /\ Lists(g_free_region_list, FreeSet(curr_size))
    BY <1>2 DEF IInv, Sound, FreeSet
  <2>2. PICK i \in 1 .. Len(g_free_region_list) : g_free_region_list[i] = a
    BY <2>1 DEF Lists
  <2>3. ~(curr_size[a] >= LIST_NODE_ALIGN(size))
    BY <2>2 DEF Fits
  <2>4. curr_size[a] \in Nat
    BY <1>2, RegionFacts
  <2> QED BY <1>1, <2>3, <2>4
<1>3. first \in DOMAIN curr_size \ {tail} /\ first \in Nat /\ tail \in Nat
  BY DEF IInv, Sound, Tiled, Layout
<1>4. CASE g = Low
  <2>1. g = first + 8 /\ g \in Nat
    BY <1>3, <1>4 DEF Low, DWORD_SIZE
  <2>2. IS_FREE(curr_size[first])
    <3> SUFFICES ASSUME ~IS_FREE(curr_size[first]) PROVE FALSE
      OBVIOUS
    <3>1. g \in DOMAIN held
      BY <1>3, <2>1, UsedFacts
    <3>2. g + (size + 42) <= g \/ EndOf(g) <= g
      BY <3>1 DEF Room
    <3>3. EndOf(g) \in Nat /\ g < EndOf(g)
      BY <3>1, BlockFacts
    <3> QED BY <1>1, <2>1, <3>2, <3>3
  <2>3. g + (size + 42) <= first + 16 + curr_size[first]
    BY <1>1, <1>3, <2>1, <2>2, GapInRegion, SMTT(40)
  <2>4. curr_size[first] \in Nat /\ curr_size[first] < size + 7
    BY <1>2, <1>3, <2>2
  <2> QED BY <1>1, <1>3, <2>1, <2>3, <2>4
<1>5. ASSUME NEW q \in DOMAIN held, g = EndOf(q) PROVE FALSE
  <2> DEFINE a == q - 8
             s == Succ(a)
  <2>1. /\ a \in DOMAIN curr_size \ {tail} /\ g \in Nat /\ g <= s /\ s <= g + 19
    BY <1>5, BlockFacts
  <2>2. s \in DOMAIN curr_size /\ s \in Nat
    BY <2>1, RegionFacts
  <2> HIDE DEF s, a
  <2>3. s # tail
    BY <1>1, <2>1, <2>2 DEF Room
  <2>4. IS_FREE(curr_size[s])
    <3> SUFFICES ASSUME ~IS_FREE(curr_size[s]) PROVE FALSE
      OBVIOUS
    <3>1. s + 8 \in DOMAIN held
      BY <2>2, <2>3, UsedFacts
    <3>2. g + (size + 42) <= s + 8 \/ EndOf(s + 8) <= g
      BY <3>1 DEF Room
    <3>3. EndOf(s + 8) \in Nat /\ s + 8 < EndOf(s + 8)
      BY <3>1, BlockFacts
    <3> QED BY <1>1, <2>1, <2>2, <3>2, <3>3
  <2>5. g + (size + 42) <= s + 16 + curr_size[s]
    <3>1. g <= s + 8
      BY <2>1, <2>2
    <3> QED BY <1>1, <2>1, <2>2, <2>3, <2>4, <3>1, GapInRegion
  <2>6. curr_size[s] \in Nat /\ curr_size[s] < size + 7
    BY <1>2, <2>2, <2>3, <2>4
  <2> QED BY <1>1, <2>1, <2>2, <2>5, <2>6
<1> QED BY <1>4, <1>5

\* A block that malloc() hands out lies in the arena and meets no other.
LEMMA BlockApart ==
    ASSUME IInv, booted = "ok", NEW size \in Sizes, NEW c \in DOMAIN curr_size \ {tail},
           IS_FREE(curr_size[c]), curr_size[c] >= LIST_NODE_ALIGN(size)
    PROVE  /\ Low <= c + 8 /\ c + 8 + size <= tail
           /\ \A q \in DOMAIN held : c + 8 + size <= q \/ EndOf(q) <= c + 8
<1>1. size \in Nat /\ LIST_NODE_ALIGN(size) \in Nat /\ size <= LIST_NODE_ALIGN(size)
  BY AlignFacts
<1>2. /\ c \in Nat /\ first \in Nat /\ tail \in Nat /\ first <= c /\ curr_size[c] \in Nat
      /\ Succ(c) = c + 8 + curr_size[c] /\ Succ(c) \in Nat /\ Succ(c) <= tail
      /\ \A b \in DOMAIN curr_size : c < b => Succ(c) <= b
  BY RegionFacts
<1>3. Low <= c + 8 /\ c + 8 + size <= tail
  BY <1>1, <1>2 DEF Low, DWORD_SIZE
<1>4. ASSUME NEW q \in DOMAIN held PROVE c + 8 + size <= q \/ EndOf(q) <= c + 8
  <2>1. /\ q \in Nat /\ q - 8 \in DOMAIN curr_size \ {tail} /\ ~IS_FREE(curr_size[q - 8])
        /\ EndOf(q) \in Nat /\ EndOf(q) <= Succ(q - 8)
    BY <1>4, BlockFacts
  <2>2. q - 8 \in Nat /\ Succ(q - 8) \in Nat /\ (q - 8 < c => Succ(q - 8) <= c)
    BY <2>1, RegionFacts
  <2>3. q - 8 # c
    BY <2>1
  <2>4. CASE q - 8 < c
    BY <1>2, <2>1, <2>2, <2>4
  <2>5. CASE c < q - 8
    <3>1. Succ(c) <= q - 8
      BY <1>2, <2>1, <2>5
    <3> QED BY <1>1, <1>2, <2>1, <2>2, <3>1
  <2> QED BY <1>2, <2>2, <2>3, <2>4, <2>5
<1> QED BY <1>3, <1>4

-----------------------------------------------------------------------------
(* The steps.                                                              *)

\* heap_init() sets the arena up, or leaves it empty.
LEMMA InitRefines ==
    ASSUME IInv, IInv', NEW b \in HeapBounds, HeapInit(b[1], b[2])
    PROVE  [Abstract!Next]_(Abstract!vars)
<1>1. booted = "no" /\ UNCHANGED <<held, ret>> /\ booted' \in {"ok", "EINVAL"}
  BY DEF HeapInit
<1>2. CASE booted' = "EINVAL"
  BY <1>1, <1>2 DEF Abstract!vars
<1>3. CASE booted' = "ok"
  <2>1. first' \in Nat /\ tail' \in Nat
    BY <1>3 DEF IInv, Sound, Tiled, Layout
  <2>2. held = Abstract!NoBlocks /\ ret.op = "none"
    BY <1>1 DEF IInv, Unused, Abstract!NoBlocks
  <2>3. <<first' + DWORD_SIZE, tail'>> \in Nat \X Nat
    BY <2>1 DEF DWORD_SIZE
  <2>4. Abstract!Setup
    BY <1>1, <1>3, <2>2, <2>3 DEF Abstract!Setup
  <2> QED BY <2>4 DEF Abstract!Next
<1> QED BY <1>1, <1>2, <1>3

\* malloc() that succeeds allocates.
LEMMA MallocRefines ==
    ASSUME IInv, NEW size \in Sizes, Malloc(size)
    PROVE  Abstract!Alloc(size)
<1>1. PICK i \in 1 .. Len(g_free_region_list) :
          /\ Fits(i, LIST_NODE_ALIGN(size))
          /\ held' = Store(held, g_free_region_list[i] + DWORD_SIZE, size)
          /\ ret' = [op |-> "malloc", size |-> size, p |-> g_free_region_list[i] + DWORD_SIZE]
  BY DEF Malloc, FirstFit
<1>2. booted = "ok" /\ UNCHANGED <<booted, first, tail>>
  <2>1. booted # "ok" => g_free_region_list = <<>>
    BY DEF IInv, Unused
  <2> QED BY <1>1, <2>1 DEF Malloc
<1>3. PICK c : c = g_free_region_list[i]
  OBVIOUS
<1>4. /\ c \in DOMAIN curr_size \ {tail} /\ c \in Nat /\ IS_FREE(curr_size[c])
      /\ curr_size[c] >= LIST_NODE_ALIGN(size)
  <2>1. Sound(curr_size, pre_size, g_free_region_list, held)
    BY <1>2 DEF IInv
  <2> QED BY <1>1, <1>3, <2>1, FreeEntry DEF Fits
<1>5. /\ Low <= c + 8 /\ c + 8 + size <= tail
      /\ \A q \in DOMAIN held : c + 8 + size <= q \/ EndOf(q) <= c + 8
  BY <1>2, <1>4, BlockApart
<1>6. /\ held' = [q \in DOMAIN held \cup {c + 8} |-> IF q = c + 8 THEN size ELSE held[q]]
      /\ ret' = [op |-> "malloc", size |-> size, p |-> c + 8] /\ ret'.p = c + 8
  BY <1>1, <1>3 DEF Store, DWORD_SIZE
<1> QED BY <1>2, <1>5, <1>6 DEF Abstract!Alloc, Abstract!End, EndOf, Low

\* malloc() that fails refuses, and with reason.
LEMMA MallocFailRefines ==
    ASSUME IInv, NEW size \in Sizes, MallocFail(size)
    PROVE  Abstract!Refuse(size)
<1> DEFINE ar == IF booted = "ok" THEN <<first + DWORD_SIZE, tail>> ELSE <<0, 0>>
           over == 19 + 2 * DWORD_SIZE + 7
<1>1. /\ UNCHANGED <<booted, first, tail, held>> /\ over = 42
      /\ ret' = [op |-> "malloc", size |-> size, p |-> 0]
  BY DEF MallocFail, region, NULL, DWORD_SIZE
<1>2. size \in Nat
  BY AlignFacts
<1>3. ASSUME NEW g \in {ar[1]} \cup {EndOf(q) : q \in DOMAIN held}
      PROVE  ~(/\ ar[1] <= g /\ g + (size + 42) <= ar[2]
               /\ \A q \in DOMAIN held : g + (size + 42) <= q \/ EndOf(q) <= g)
  <2>1. CASE booted = "ok"
    <3>1. ar[1] = Low /\ ar[2] = tail
      BY <2>1 DEF Low
    <3> HIDE DEF ar
    <3>2. ~Room(g, size + 42)
      BY <1>3, <2>1, <3>1, RefusalJust DEF MallocFail
    <3> QED BY <3>1, <3>2 DEF Room
  <2>2. CASE booted # "ok"
    <3>1. ar[1] = 0 /\ ar[2] = 0 /\ DOMAIN held = {}
      BY <2>2 DEF IInv, Unused
    <3> HIDE DEF ar
    <3>2. g = 0
      BY <1>3, <3>1
    <3> QED BY <1>2, <3>1, <3>2
  <2> QED BY <2>1, <2>2
<1> QED BY <1>1, <1>3 DEF Abstract!Refuse, Abstract!Gap, Abstract!End, EndOf

\* free() releases.
LEMMA FreeRefines ==
    ASSUME NEW p \in DOMAIN held, Free(p)
    PROVE  Abstract!Release(p)
BY DEF Free, Drop, Abstract!Release

\* malloc() and free() keep the promise of Allocator: blocks of the size asked
\* for, in the arena, that never overlap, and a refusal only when no gap holds
\* the request with its overhead.
THEOREM HeapKeepsPromise == Spec => KeepsPromise
<1>1. Init => Abstract!Init
  BY DEF Init, Abstract!Init, Abstract!NoBlocks, NoWords, NULL
<1>2. IInv /\ IInv' /\ [Next]_vars => [Abstract!Next]_(Abstract!vars)
  <2> SUFFICES ASSUME IInv, IInv', [Next]_vars PROVE [Abstract!Next]_(Abstract!vars)
    OBVIOUS
  <2>1. ASSUME NEW b \in HeapBounds, HeapInit(b[1], b[2]) PROVE [Abstract!Next]_(Abstract!vars)
    BY <2>1, InitRefines
  <2>2. ASSUME NEW size \in Sizes, Malloc(size) PROVE Abstract!Next
    BY <2>2, MallocRefines DEF Abstract!Next
  <2>3. ASSUME NEW size \in Sizes, MallocFail(size) PROVE Abstract!Next
    BY <2>3, MallocFailRefines DEF Abstract!Next
  <2>4. ASSUME NEW p \in DOMAIN held, Free(p) PROVE Abstract!Next
    BY <2>4, FreeRefines DEF Abstract!Next
  <2>5. CASE UNCHANGED vars
    BY <2>5 DEF vars, region, Abstract!vars
  <2> QED BY <2>1, <2>2, <2>3, <2>4, <2>5 DEF Next
<1> QED BY <1>1, <1>2, InitIInv, NextIInv, PTL DEF Spec, KeepsPromise, Abstract!Spec
=============================================================================
