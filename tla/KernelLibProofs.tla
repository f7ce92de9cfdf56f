-------------------------- MODULE KernelLibProofs ---------------------------
(***************************************************************************)
(* Services of the kernel for any sequence of calls: the heap, of any size *)
(* and for any sizes asked for; the copies between the kernel and its      *)
(* environments, however many of them share pages after a fork; the kernel *)
(* half of every address space; the page-table window; the loader for      *)
(* images of any segments that share no page; and memcpy, memset and       *)
(* strcmp for any addresses, lengths and strings.                          *)
(***************************************************************************)
EXTENDS Kmalloc, KernelSpace, UserCopy, Vpt, Loader, CString, WellFoundedInduction, FiniteSetTheorems,
        SequenceTheorems, TLAPS

-----------------------------------------------------------------------------
(* Induction: every set of natural numbers that is not empty has a least    *)
(* element, and Min finds it.                                               *)

\* < is well-founded on the natural numbers.
LEMMA LessIsWellFounded ==
    IsWellFoundedOn({p \in Nat \X Nat : p[1] < p[2]}, Nat)
BY NatLessThanWellFounded DEF OpToRel

\* A set of natural numbers has a least element.
LEMMA LeastNat ==
    ASSUME NEW T, T \subseteq Nat, T # {}
    PROVE  \E n \in T : \A m \in T : n <= m
<1>1. PICK R : R = {p \in Nat \X Nat : p[1] < p[2]}
  OBVIOUS
<1>2. IsWellFoundedOn(R, Nat)
  BY <1>1, LessIsWellFounded
<1>3. PICK x \in T : \A y \in T : ~(<<y, x>> \in R)
  BY <1>2, WFMin
<1>4. \A y \in T : ~(y < x)
  BY <1>1, <1>3
<1> QED BY <1>4

\* Min returns it.
LEMMA MinIsLeast ==
    ASSUME NEW T, T \subseteq Nat, T # {}
    PROVE  Min(T) \in T /\ \A m \in T : Min(T) <= m
<1>1. \E n \in T : \A m \in T : n <= m
  BY LeastNat
<1> QED BY <1>1 DEF Min

-----------------------------------------------------------------------------
(* The list of blocks.                                                      *)

Block == [addr : Nat, size : Nat, free : BOOLEAN]

EndOf(b) == b.addr + MBLOCK_SIZE + b.size

\* The blocks of s follow each other from the address low to the address high.
Tiles(s, low, high) ==
    /\ s \in Seq(Block) /\ Len(s) >= 1
    /\ s[1].addr = low /\ EndOf(s[Len(s)]) = high
    /\ \A i \in 1 .. Len(s) - 1 : EndOf(s[i]) = s[i + 1].addr

NoTwoFree(s) == \A i \in 1 .. Len(s) - 1 : ~s[i].free \/ ~s[i + 1].free

Blocks(s) == {s[i] : i \in 1 .. Len(s)}

\* A block ends before any later one begins.
LEMMA TilesSorted ==
    ASSUME NEW s, NEW low, NEW high, Tiles(s, low, high)
    PROVE  \A i, j \in 1 .. Len(s) : i < j => EndOf(s[i]) <= s[j].addr
<1>1. SUFFICES ASSUME NEW i \in 1 .. Len(s), NEW k \in 1 .. Len(s), i < k,
                      ~(EndOf(s[i]) <= s[k].addr)
               PROVE  FALSE
  OBVIOUS
<1>2. PICK T : T = {j \in 1 .. Len(s) : i < j /\ ~(EndOf(s[i]) <= s[j].addr)}
  OBVIOUS
<1>3. Len(s) \in Nat /\ MBLOCK_SIZE \in Nat /\ \A j \in 1 .. Len(s) : s[j] \in Block
  BY KmallocAssumption DEF Tiles
<1>4. \A j \in 1 .. Len(s) : s[j].addr \in Nat /\ s[j].size \in Nat
  BY <1>3 DEF Block
<1>5. T \subseteq Nat /\ k \in T
  BY <1>1, <1>2
<1>6. PICK j \in T : \A m \in T : j <= m
  BY <1>5, LeastNat
<1>7. j \in 2 .. Len(s) /\ i < j /\ ~(EndOf(s[i]) <= s[j].addr)
  BY <1>2, <1>3, <1>6
<1>8. j - 1 \in 1 .. Len(s) - 1 /\ j - 1 \notin T /\ (j - 1) + 1 = j
  BY <1>3, <1>6, <1>7
<1>9. EndOf(s[j - 1]) = s[j].addr
  BY <1>8 DEF Tiles
<1>10. CASE j - 1 = i
  BY <1>10, <1>9, <1>7, <1>4 DEF EndOf
<1>11. CASE j - 1 # i
  <2>1. i < j - 1 /\ j - 1 \in 1 .. Len(s)
    BY <1>11, <1>7, <1>8, <1>3
  <2>2. EndOf(s[i]) <= s[j - 1].addr
    BY <2>1, <1>8, <1>2
  <2>3. PICK b : b = s[j - 1]
    OBVIOUS
  <2>4. b.addr \in Nat /\ b.size \in Nat /\ EndOf(b) = s[j].addr /\ EndOf(s[i]) <= b.addr
    BY <2>1, <2>2, <2>3, <1>4, <1>9
  <2>5. EndOf(s[i]) \in Nat
    BY <1>3, <1>4 DEF EndOf
  <2> QED BY <2>4, <2>5, <1>7, <1>3 DEF EndOf
<1> QED BY <1>10, <1>11

\* No two blocks of the list have the same address.
LEMMA TilesApart ==
    ASSUME NEW s, NEW low, NEW high, Tiles(s, low, high),
           NEW i \in 1 .. Len(s), NEW j \in 1 .. Len(s), s[i].addr = s[j].addr
    PROVE  i = j
<1>1. MBLOCK_SIZE \in Nat \ {0} /\ Len(s) \in Nat /\ s[i] \in Block /\ s[j] \in Block
  BY KmallocAssumption DEF Tiles
<1>2. /\ s[i].addr \in Nat /\ s[i].size \in Nat
      /\ s[j].addr \in Nat /\ s[j].size \in Nat
  BY <1>1 DEF Block
<1>3. CASE i < j
  BY <1>3, <1>1, <1>2, TilesSorted DEF EndOf
<1>4. CASE j < i
  BY <1>4, <1>1, <1>2, TilesSorted DEF EndOf
<1> QED BY <1>1, <1>3, <1>4

-----------------------------------------------------------------------------
(* Replacing the blocks from f to l by others, as kmalloc and kfree do.     *)

Spliced(s, f, l, m) == SubSeq(s, 1, f - 1) \o m \o SubSeq(s, l + 1, Len(s))

\* The blocks before f, the new ones and the blocks after l.
LEMMA SpliceElements ==
    ASSUME NEW s \in Seq(Block), NEW m \in Seq(Block),
           NEW f \in 1 .. Len(s), NEW l \in f .. Len(s)
    PROVE  LET t == Spliced(s, f, l, m) IN
           /\ t \in Seq(Block)
           /\ Len(t) = (f - 1) + Len(m) + (Len(s) - l)
           /\ \A k \in 1 .. f - 1 : t[k] = s[k]
           /\ \A k \in 1 .. Len(m) : t[f - 1 + k] = m[k]
           /\ \A k \in 1 .. Len(s) - l : t[f - 1 + Len(m) + k] = s[l + k]
<1>1. Len(s) \in Nat /\ Len(m) \in Nat /\ f \in Int /\ l \in Int
  OBVIOUS
<1>2. PICK p : p = SubSeq(s, 1, f - 1)
  OBVIOUS
<1>3. \A i \in 1 .. f - 1 : s[i] \in Block
  BY <1>1
<1>4. p \in Seq(Block) /\ Len(p) = f - 1 /\ \A k \in 1 .. f - 1 : p[k] = s[k]
  <2>1. 1 \in Int /\ f - 1 \in Int
    BY <1>1
  <2>2. /\ p \in Seq(Block)
        /\ Len(p) = IF 1 <= f - 1 THEN (f - 1) - 1 + 1 ELSE 0
        /\ \A k \in 1 .. (f - 1) - 1 + 1 : p[k] = s[1 + k - 1]
    BY <2>1, <1>2, <1>3, SubSeqProperties
  <2> QED BY <2>2, <1>1
<1>5. PICK q : q = SubSeq(s, l + 1, Len(s))
  OBVIOUS
<1>6. q \in Seq(Block) /\ Len(q) = Len(s) - l /\ \A k \in 1 .. Len(s) - l : q[k] = s[l + k]
  <2>1. l + 1 \in Int /\ Len(s) \in Int /\ \A i \in l + 1 .. Len(s) : s[i] \in Block
    BY <1>1
  <2>2. /\ q \in Seq(Block)
        /\ Len(q) = IF l + 1 <= Len(s) THEN Len(s) - (l + 1) + 1 ELSE 0
        /\ \A k \in 1 .. Len(s) - (l + 1) + 1 : q[k] = s[(l + 1) + k - 1]
    BY <2>1, <1>5, SubSeqProperties, SMTT(30)
  <2>3. Len(q) = Len(s) - l
    BY <2>2, <1>1
  <2>4. Len(s) - (l + 1) + 1 = Len(s) - l /\ \A k \in Nat : (l + 1) + k - 1 = l + k
    BY <1>1
  <2>5. ASSUME NEW k \in 1 .. Len(s) - l PROVE q[k] = s[l + k]
    <3>1. k \in 1 .. Len(s) - (l + 1) + 1 /\ (l + 1) + k - 1 = l + k
      BY <2>4, <1>1
    <3>2. q[k] = s[(l + 1) + k - 1]
      BY <3>1, <2>2
    <3> QED BY <3>1, <3>2
  <2> QED BY <2>2, <2>3, <2>5
<1>7. PICK u : u = p \o m
  OBVIOUS
<1>8. /\ u \in Seq(Block) /\ Len(u) = f - 1 + Len(m)
      /\ \A k \in 1 .. f - 1 + Len(m) : u[k] = IF k <= f - 1 THEN p[k] ELSE m[k - (f - 1)]
  BY <1>7, <1>4, ConcatProperties
<1>9. PICK t : t = u \o q
  OBVIOUS
<1>10. /\ t \in Seq(Block) /\ Len(t) = Len(u) + Len(q)
       /\ \A k \in 1 .. Len(u) + Len(q) : t[k] = IF k <= Len(u) THEN u[k] ELSE q[k - Len(u)]
  BY <1>9, <1>8, <1>6, ConcatProperties
<1>11. t = Spliced(s, f, l, m)
  BY <1>2, <1>5, <1>7, <1>9 DEF Spliced
<1>12. Len(t) = (f - 1) + Len(m) + (Len(s) - l)
  BY <1>10, <1>8, <1>6
<1>13. ASSUME NEW k \in 1 .. f - 1 PROVE t[k] = s[k]
  <2>1. k \in 1 .. f - 1 + Len(m) /\ k \in 1 .. Len(u) + Len(q) /\ k <= Len(u) /\ k <= f - 1
    BY <1>1, <1>8, <1>6
  <2> QED BY <2>1, <1>10, <1>8, <1>4
<1>14. ASSUME NEW k \in 1 .. Len(m) PROVE t[f - 1 + k] = m[k]
  <2>1. PICK x : x = f - 1 + k
    OBVIOUS
  <2>2. /\ x \in 1 .. f - 1 + Len(m) /\ x \in 1 .. Len(u) + Len(q) /\ x <= Len(u)
        /\ ~(x <= f - 1) /\ x - (f - 1) = k
    BY <2>1, <1>1, <1>8, <1>6
  <2>3. t[x] = u[x] /\ u[x] = m[x - (f - 1)]
    BY <2>2, <1>10, <1>8
  <2> QED BY <2>1, <2>2, <2>3
<1>15. ASSUME NEW k \in 1 .. Len(s) - l PROVE t[f - 1 + Len(m) + k] = s[l + k]
  <2>1. PICK x : x = f - 1 + Len(m) + k
    OBVIOUS
  <2>2. x \in 1 .. Len(u) + Len(q) /\ ~(x <= Len(u)) /\ x - Len(u) = k
    BY <2>1, <1>1, <1>8, <1>6
  <2>3. t[x] = q[x - Len(u)]
    BY <2>2, <1>10
  <2> QED BY <2>1, <2>2, <2>3, <1>6
<1> QED BY <1>10, <1>11, <1>12, <1>13, <1>14, <1>15

MembersFrom(s, f, l, m, t) ==
    /\ \A k \in 1 .. Len(t) :
          \/ \E j \in 1 .. Len(s) : (j < f \/ l < j) /\ t[k] = s[j]
          \/ \E j \in 1 .. Len(m) : t[k] = m[j]
    /\ \A j \in 1 .. Len(s) : (j < f \/ l < j) => \E k \in 1 .. Len(t) : t[k] = s[j]
    /\ \A j \in 1 .. Len(m) : \E k \in 1 .. Len(t) : t[k] = m[j]

\* Where every block of the new list comes from, and where the others went.
LEMMA SpliceMembers ==
    ASSUME NEW s \in Seq(Block), NEW m \in Seq(Block), NEW t,
           NEW f \in 1 .. Len(s), NEW l \in f .. Len(s), t = Spliced(s, f, l, m)
    PROVE  MembersFrom(s, f, l, m, t)
<1>1. Len(s) \in Nat /\ Len(m) \in Nat /\ f \in Int /\ l \in Int
  OBVIOUS
<1>2. /\ Len(t) = (f - 1) + Len(m) + (Len(s) - l)
      /\ \A k \in 1 .. f - 1 : t[k] = s[k]
      /\ \A k \in 1 .. Len(m) : t[f - 1 + k] = m[k]
      /\ \A k \in 1 .. Len(s) - l : t[f - 1 + Len(m) + k] = s[l + k]
  BY SpliceElements
<1>3. ASSUME NEW k \in 1 .. Len(t)
      PROVE  \/ \E j \in 1 .. Len(s) : (j < f \/ l < j) /\ t[k] = s[j]
             \/ \E j \in 1 .. Len(m) : t[k] = m[j]
  <2>1. CASE k < f
    <3>1. k \in 1 .. f - 1 /\ k \in 1 .. Len(s)
      BY <2>1, <1>1
    <3> QED BY <3>1, <2>1, <1>2
  <2>2. CASE f <= k /\ k <= f - 1 + Len(m)
    <3>1. PICK j \in 1 .. Len(m) : j = k - (f - 1)
      BY <2>2, <1>1
    <3>2. f - 1 + j = k
      BY <3>1, <1>1
    <3> QED BY <3>1, <3>2, <1>2
  <2>3. CASE f - 1 + Len(m) < k
    <3>0. PICK d : d = k - (f - 1 + Len(m))
      OBVIOUS
    <3>1. d \in 1 .. Len(s) - l
      BY <3>0, <2>3, <1>1, <1>2
    <3>2. f - 1 + Len(m) + d = k /\ l + d \in 1 .. Len(s) /\ l < l + d
      BY <3>0, <3>1, <1>1
    <3>3. t[k] = s[l + d]
      BY <3>1, <3>2, <1>2
    <3> QED BY <3>2, <3>3
  <2> QED BY <2>1, <2>2, <2>3, <1>1, <1>2
<1>4. ASSUME NEW j \in 1 .. Len(s), j < f \/ l < j
      PROVE  \E k \in 1 .. Len(t) : t[k] = s[j]
  <2>1. CASE j < f
    <3>1. j \in 1 .. f - 1 /\ j \in 1 .. Len(t)
      BY <2>1, <1>1, <1>2
    <3> QED BY <3>1, <1>2
  <2>2. CASE l < j
    <3>1. PICK d \in 1 .. Len(s) - l : d = j - l
      BY <2>2, <1>1
    <3>2. l + d = j /\ f - 1 + Len(m) + d \in 1 .. Len(t)
      BY <3>1, <1>1, <1>2
    <3>3. t[f - 1 + Len(m) + d] = s[l + d]
      BY <3>1, <1>2
    <3> QED BY <3>2, <3>3
  <2> QED BY <1>4, <2>1, <2>2
<1>5. ASSUME NEW j \in 1 .. Len(m) PROVE \E k \in 1 .. Len(t) : t[k] = m[j]
  <2>1. f - 1 + j \in 1 .. Len(t)
    BY <1>1, <1>2
  <2> QED BY <2>1, <1>2
<1> QED BY <1>3, <1>4, <1>5 DEF MembersFrom

NeighboursFrom(s, f, l, m, t) ==
    \A k \in 1 .. Len(t) - 1 :
        \/ \E i \in 1 .. Len(s) - 1 : t[k] = s[i] /\ t[k + 1] = s[i + 1]
        \/ \E i \in 1 .. Len(m) - 1 : t[k] = m[i] /\ t[k + 1] = m[i + 1]
        \/ 1 < f /\ t[k] = s[f - 1] /\ t[k + 1] = m[1]
        \/ l < Len(s) /\ t[k] = m[Len(m)] /\ t[k + 1] = s[l + 1]

\* Two neighbours in the new list were neighbours before, are both new, or
\* meet where the new blocks begin or end.
LEMMA SpliceNeighbours ==
    ASSUME NEW s \in Seq(Block), NEW m \in Seq(Block), NEW t, Len(m) >= 1,
           NEW f \in 1 .. Len(s), NEW l \in f .. Len(s), t = Spliced(s, f, l, m)
    PROVE  NeighboursFrom(s, f, l, m, t)
<1> SUFFICES ASSUME NEW k \in 1 .. Len(t) - 1
             PROVE  \/ \E i \in 1 .. Len(s) - 1 : t[k] = s[i] /\ t[k + 1] = s[i + 1]
                    \/ \E i \in 1 .. Len(m) - 1 : t[k] = m[i] /\ t[k + 1] = m[i + 1]
                    \/ 1 < f /\ t[k] = s[f - 1] /\ t[k + 1] = m[1]
                    \/ l < Len(s) /\ t[k] = m[Len(m)] /\ t[k + 1] = s[l + 1]
  BY DEF NeighboursFrom
<1>1. Len(s) \in Nat /\ Len(m) \in Nat /\ f \in Int /\ l \in Int
  OBVIOUS
<1>2. /\ Len(t) = (f - 1) + Len(m) + (Len(s) - l)
      /\ \A j \in 1 .. f - 1 : t[j] = s[j]
      /\ \A j \in 1 .. Len(m) : t[f - 1 + j] = m[j]
      /\ \A j \in 1 .. Len(s) - l : t[f - 1 + Len(m) + j] = s[l + j]
  BY SpliceElements
<1>3. CASE k + 1 < f
  <2>1. k \in 1 .. f - 1 /\ k + 1 \in 1 .. f - 1 /\ k \in 1 .. Len(s) - 1
    BY <1>3, <1>1, <1>2
  <2>2. t[k] = s[k] /\ t[k + 1] = s[k + 1]
    BY <2>1, <1>2
  <2> QED BY <2>1, <2>2
<1>4. CASE k + 1 = f
  <2>1. k \in 1 .. f - 1 /\ 1 \in 1 .. Len(m) /\ k = f - 1 /\ k + 1 = f - 1 + 1 /\ 1 < f
    BY <1>4, <1>1, <1>2
  <2>2. t[k] = s[k] /\ t[f - 1 + 1] = m[1]
    BY <2>1, <1>2
  <2> QED BY <2>1, <2>2
<1>5. CASE f <= k /\ k < f - 1 + Len(m)
  <2>1. PICK j \in 1 .. Len(m) - 1 : j = k - (f - 1)
    BY <1>5, <1>1
  <2>2. f - 1 + j = k /\ f - 1 + (j + 1) = k + 1 /\ j \in 1 .. Len(m) /\ j + 1 \in 1 .. Len(m)
    BY <2>1, <1>1
  <2>3. t[k] = m[j]
    BY <2>2, <1>2
  <2>4. t[f - 1 + (j + 1)] = m[j + 1]
    BY <2>2, <1>2
  <2> QED BY <2>1, <2>2, <2>3, <2>4
<1>6. CASE k = f - 1 + Len(m)
  <2>1. l < Len(s) /\ Len(m) \in 1 .. Len(m) /\ 1 \in 1 .. Len(s) - l
    BY <1>6, <1>1, <1>2
  <2>2. t[k] = m[Len(m)] /\ t[f - 1 + Len(m) + 1] = s[l + 1]
    BY <2>1, <1>2, <1>6
  <2> QED BY <2>1, <2>2, <1>6
<1>7. CASE f - 1 + Len(m) < k
  <2>1. PICK d \in 1 .. Len(s) - l : d = k - (f - 1 + Len(m))
    BY <1>7, <1>1, <1>2, SMTT(30)
  <2>2. /\ f - 1 + Len(m) + d = k /\ f - 1 + Len(m) + (d + 1) = k + 1
        /\ d + 1 \in 1 .. Len(s) - l /\ l + d \in 1 .. Len(s) - 1 /\ l + (d + 1) = (l + d) + 1
    BY <2>1, <1>1, <1>2
  <2>3. t[k] = s[l + d]
    BY <2>1, <2>2, <1>2
  <2>4. t[f - 1 + Len(m) + (d + 1)] = s[l + (d + 1)]
    BY <2>2, <1>2
  <2>5. t[k + 1] = s[(l + d) + 1]
    BY <2>2, <2>4
  <2> QED BY <2>2, <2>3, <2>5
<1> QED BY <1>1, <1>2, <1>3, <1>4, <1>5, <1>6, <1>7

\* If the new blocks fill the gap, the new list tiles the heap.
LEMMA SpliceTiles ==
    ASSUME NEW s, NEW m, NEW t, NEW low, NEW high, Tiles(s, low, high),
           NEW f \in 1 .. Len(s), NEW l \in f .. Len(s), t = Spliced(s, f, l, m),
           Tiles(m, s[f].addr, EndOf(s[l]))
    PROVE  Tiles(t, low, high)
<1>1. s \in Seq(Block) /\ m \in Seq(Block) /\ Len(m) >= 1 /\ Len(s) >= 1
  BY DEF Tiles
<1>2. Len(s) \in Nat /\ Len(m) \in Nat /\ f \in Int /\ l \in Int
  BY <1>1
<1>3. /\ t \in Seq(Block) /\ Len(t) = (f - 1) + Len(m) + (Len(s) - l)
      /\ \A k \in 1 .. f - 1 : t[k] = s[k]
      /\ \A k \in 1 .. Len(m) : t[f - 1 + k] = m[k]
      /\ \A k \in 1 .. Len(s) - l : t[f - 1 + Len(m) + k] = s[l + k]
  BY <1>1, SpliceElements
<1>4. t[1].addr = low
  <2>1. CASE f = 1
    <3>1. f - 1 + 1 = 1 /\ 1 \in 1 .. Len(m)
      BY <2>1, <1>1, <1>2
    <3>2. t[1] = m[1]
      BY <3>1, <1>3
    <3> QED BY <3>2, <2>1 DEF Tiles
  <2>2. CASE f # 1
    <3>1. 1 \in 1 .. f - 1
      BY <2>2, <1>2
    <3>2. t[1] = s[1]
      BY <3>1, <1>3
    <3> QED BY <3>2 DEF Tiles
  <2> QED BY <2>1, <2>2
<1>5. EndOf(t[Len(t)]) = high
  <2>1. CASE l = Len(s)
    <3>1. f - 1 + Len(m) = Len(t) /\ Len(m) \in 1 .. Len(m)
      BY <2>1, <1>1, <1>2, <1>3
    <3>2. t[Len(t)] = m[Len(m)]
      BY <3>1, <1>3
    <3> QED BY <3>2, <2>1 DEF Tiles
  <2>2. CASE l # Len(s)
    <3>1. PICK d \in 1 .. Len(s) - l : d = Len(s) - l
      BY <2>2, <1>2
    <3>2. f - 1 + Len(m) + d = Len(t) /\ l + d = Len(s)
      BY <3>1, <1>2, <1>3
    <3>3. t[Len(t)] = s[Len(s)]
      BY <3>1, <3>2, <1>3
    <3> QED BY <3>3 DEF Tiles
  <2> QED BY <2>1, <2>2
<1>6. ASSUME NEW k \in 1 .. Len(t) - 1 PROVE EndOf(t[k]) = t[k + 1].addr
  <2>0. NeighboursFrom(s, f, l, m, t)
    BY <1>1, SpliceNeighbours
  <2>1. \/ \E i \in 1 .. Len(s) - 1 : t[k] = s[i] /\ t[k + 1] = s[i + 1]
        \/ \E i \in 1 .. Len(m) - 1 : t[k] = m[i] /\ t[k + 1] = m[i + 1]
        \/ 1 < f /\ t[k] = s[f - 1] /\ t[k + 1] = m[1]
        \/ l < Len(s) /\ t[k] = m[Len(m)] /\ t[k + 1] = s[l + 1]
    BY <2>0 DEF NeighboursFrom
  <2>2. CASE \E i \in 1 .. Len(s) - 1 : t[k] = s[i] /\ t[k + 1] = s[i + 1]
    BY <2>2 DEF Tiles
  <2>3. CASE \E i \in 1 .. Len(m) - 1 : t[k] = m[i] /\ t[k + 1] = m[i + 1]
    BY <2>3 DEF Tiles
  <2>4. CASE 1 < f /\ t[k] = s[f - 1] /\ t[k + 1] = m[1]
    <3>1. f - 1 \in 1 .. Len(s) - 1 /\ (f - 1) + 1 = f
      BY <2>4, <1>2
    <3>2. EndOf(s[f - 1]) = s[f].addr /\ m[1].addr = s[f].addr
      BY <3>1 DEF Tiles
    <3> QED BY <2>4, <3>2
  <2>5. CASE l < Len(s) /\ t[k] = m[Len(m)] /\ t[k + 1] = s[l + 1]
    <3>1. l \in 1 .. Len(s) - 1
      BY <2>5, <1>2
    <3>2. EndOf(s[l]) = s[l + 1].addr /\ EndOf(m[Len(m)]) = EndOf(s[l])
      BY <3>1 DEF Tiles
    <3> QED BY <2>5, <3>2
  <2> QED BY <2>1, <2>2, <2>3, <2>4, <2>5
<1>7. Len(t) >= 1
  BY <1>1, <1>2, <1>3
<1> QED BY <1>3, <1>4, <1>5, <1>6, <1>7 DEF Tiles

\* No two free blocks are side by side if none are at the seams.
LEMMA SpliceNoTwoFree ==
    ASSUME NEW s \in Seq(Block), NEW m \in Seq(Block), NEW t, Len(m) >= 1,
           NEW f \in 1 .. Len(s), NEW l \in f .. Len(s), t = Spliced(s, f, l, m),
           NoTwoFree(s), NoTwoFree(m),
           1 < f => ~s[f - 1].free \/ ~m[1].free,
           l < Len(s) => ~m[Len(m)].free \/ ~s[l + 1].free
    PROVE  NoTwoFree(t)
<1>1. SUFFICES ASSUME NEW k \in 1 .. Len(t) - 1 PROVE ~t[k].free \/ ~t[k + 1].free
  BY DEF NoTwoFree
<1>0. NeighboursFrom(s, f, l, m, t)
  BY SpliceNeighbours
<1>2. \/ \E i \in 1 .. Len(s) - 1 : t[k] = s[i] /\ t[k + 1] = s[i + 1]
      \/ \E i \in 1 .. Len(m) - 1 : t[k] = m[i] /\ t[k + 1] = m[i + 1]
      \/ 1 < f /\ t[k] = s[f - 1] /\ t[k + 1] = m[1]
      \/ l < Len(s) /\ t[k] = m[Len(m)] /\ t[k + 1] = s[l + 1]
  BY <1>0 DEF NeighboursFrom
<1>3. CASE \E i \in 1 .. Len(s) - 1 : t[k] = s[i] /\ t[k + 1] = s[i + 1]
  BY <1>3 DEF NoTwoFree
<1>4. CASE \E i \in 1 .. Len(m) - 1 : t[k] = m[i] /\ t[k + 1] = m[i + 1]
  BY <1>4 DEF NoTwoFree
<1> QED BY <1>2, <1>3, <1>4

-----------------------------------------------------------------------------
(* What the callers hold, and the two operations.                           *)

\* The used blocks of s are the allocations in h, one for each.
Held(s, h) ==
    /\ h \subseteq [ptr : Nat, asked : Nat]
    /\ \A a \in h : \E i \in 1 .. Len(s) :
          /\ ~s[i].free
          /\ a.ptr = s[i].addr + MBLOCK_SIZE
          /\ a.asked <= s[i].size
    /\ \A i \in 1 .. Len(s) : ~s[i].free =>
          \E a \in h : a.ptr = s[i].addr + MBLOCK_SIZE
    /\ \A a, c \in h : a.ptr = c.ptr => a = c

\* The list of blocks and what the callers hold of it.
HeapHeld(s, h) == Tiles(s, 0, KMALLOC_HEAP_SIZE) /\ NoTwoFree(s) /\ Held(s, h)

\* Held part by part.
LEMMA HeldIf ==
    ASSUME NEW t, NEW g, g \subseteq [ptr : Nat, asked : Nat],
           \A a \in g : \E k \in 1 .. Len(t) :
               ~t[k].free /\ a.ptr = t[k].addr + MBLOCK_SIZE /\ a.asked <= t[k].size,
           \A k \in 1 .. Len(t) : ~t[k].free => \E a \in g : a.ptr = t[k].addr + MBLOCK_SIZE,
           \A a, c \in g : a.ptr = c.ptr => a = c
    PROVE  Held(t, g)
BY DEF Held

\* A rounded size is a size, and no smaller.
LEMMA RoundUp == ASSUME NEW n \in Nat PROVE ROUND8(n) \in Nat /\ n <= ROUND8(n)
BY DEF ROUND8

\* Carving a free block: the parts fill it, the first one is used and large
\* enough, what follows is free.
LEMMA CarveFills ==
    ASSUME NEW b \in Block, b.free, NEW size \in Nat, size <= b.size,
           NEW m, m = Carve(b, size)
    PROVE  /\ Tiles(m, b.addr, EndOf(b)) /\ NoTwoFree(m)
           /\ ~m[1].free /\ m[1].addr = b.addr /\ size <= m[1].size
           /\ \A j \in 2 .. Len(m) : m[j].free
<1>1. MBLOCK_SIZE \in Nat \ {0} /\ b.addr \in Nat /\ b.size \in Nat
  BY KmallocAssumption DEF Block
<1>2. CASE b.size - size < MBLOCK_SIZE + 8
  <2>1. PICK c : c = [b EXCEPT !.free = FALSE]
    OBVIOUS
  <2>2. c \in Block /\ c.addr = b.addr /\ c.size = b.size /\ ~c.free
    BY <2>1 DEF Block
  <2>3. m = <<c>>
    BY <1>2, <2>1 DEF Carve
  <2>4. m \in Seq(Block) /\ Len(m) = 1 /\ m[1] = c
    BY <2>2, <2>3
  <2>5. EndOf(c) = EndOf(b)
    BY <2>2 DEF EndOf
  <2> QED BY <2>2, <2>4, <2>5 DEF Tiles, NoTwoFree
<1>3. CASE ~(b.size - size < MBLOCK_SIZE + 8)
  <2>1. PICK c : c = [b EXCEPT !.size = size, !.free = FALSE]
    OBVIOUS
  <2>2. c \in Block /\ c.addr = b.addr /\ c.size = size /\ ~c.free
    BY <2>1 DEF Block
  <2>3. PICK d : d = [addr |-> b.addr + MBLOCK_SIZE + size,
                      size |-> b.size - size - MBLOCK_SIZE, free |-> TRUE]
    OBVIOUS
  <2>4. d \in Block /\ d.free /\ d.addr = b.addr + MBLOCK_SIZE + size
          /\ d.size = b.size - size - MBLOCK_SIZE
    BY <2>3, <1>1, <1>3 DEF Block
  <2>5. m = <<c, d>>
    BY <1>3, <2>1, <2>3 DEF Carve, Split
  <2>6. m \in Seq(Block) /\ Len(m) = 2 /\ m[1] = c /\ m[2] = d
    BY <2>2, <2>4, <2>5
  <2>7. EndOf(c) = d.addr /\ EndOf(d) = EndOf(b)
    BY <2>2, <2>4, <1>1 DEF EndOf
  <2>8. \A j \in 1 .. Len(m) - 1 : j = 1 /\ j + 1 = 2
    BY <2>6
  <2>9. Tiles(m, b.addr, EndOf(b))
    BY <2>2, <2>6, <2>7, <2>8 DEF Tiles
  <2>10. NoTwoFree(m)
    BY <2>2, <2>6, <2>8 DEF NoTwoFree
  <2>11. \A j \in 2 .. Len(m) : m[j].free
    BY <2>4, <2>6
  <2> QED BY <2>2, <2>6, <2>9, <2>10, <2>11
<1> QED BY <1>2, <1>3

\* kmalloc: the list still tiles the heap and the new allocation is a block of
\* its own.
LEMMA MallocHolds ==
    ASSUME NEW s, NEW h, NEW i \in 1 .. Len(s), NEW n \in Nat, NEW m, NEW t,
           NEW new \in [ptr : Nat, asked : Nat], HeapHeld(s, h),
           s[i].free, ROUND8(n) <= s[i].size, m = Carve(s[i], ROUND8(n)),
           t = Spliced(s, i, i, m), new.ptr = s[i].addr + MBLOCK_SIZE, new.asked = n
    PROVE  HeapHeld(t, h \cup {new})
<1>0. Tiles(s, 0, KMALLOC_HEAP_SIZE) /\ NoTwoFree(s) /\ Held(s, h)
  BY DEF HeapHeld
<1>1. s \in Seq(Block) /\ Len(s) \in Nat /\ i \in i .. Len(s)
  BY <1>0 DEF Tiles
<1>2. MBLOCK_SIZE \in Nat /\ \A j \in 1 .. Len(s) : s[j] \in Block
  BY <1>1, KmallocAssumption
<1>3. \A j \in 1 .. Len(s) : s[j].addr \in Nat /\ s[j].size \in Nat
  BY <1>2 DEF Block
<1>4. /\ Tiles(m, s[i].addr, EndOf(s[i])) /\ NoTwoFree(m)
      /\ ~m[1].free /\ m[1].addr = s[i].addr /\ ROUND8(n) <= m[1].size
      /\ \A j \in 2 .. Len(m) : m[j].free
  <2>1. PICK b, z : b = s[i] /\ z = ROUND8(n)
    OBVIOUS
  <2>2. b \in Block /\ b.free /\ z \in Nat /\ z <= b.size /\ m = Carve(b, z)
    BY <2>1, <1>2, RoundUp
  <2>3. /\ Tiles(m, b.addr, EndOf(b)) /\ NoTwoFree(m)
        /\ ~m[1].free /\ m[1].addr = b.addr /\ z <= m[1].size
        /\ \A j \in 2 .. Len(m) : m[j].free
    BY <2>2, CarveFills
  <2> QED BY <2>1, <2>3
<1>5. m \in Seq(Block) /\ Len(m) >= 1 /\ Len(m) \in Nat
  BY <1>4 DEF Tiles
<1>6. m[1] \in Block /\ m[1].size \in Nat
  <2>1. m[1] \in Block
    BY <1>5
  <2> QED BY <2>1 DEF Block
<1>7. Tiles(t, 0, KMALLOC_HEAP_SIZE)
  BY <1>0, <1>1, <1>4, SpliceTiles
<1>8. NoTwoFree(t)
  <2>1. 1 < i => ~s[i - 1].free \/ ~m[1].free
    BY <1>4
  <2>2. i < Len(s) => ~m[Len(m)].free \/ ~s[i + 1].free
    <3>1. i < Len(s) => i \in 1 .. Len(s) - 1
      BY <1>1
    <3> QED BY <3>1, <1>0 DEF NoTwoFree
  <2> QED BY <2>1, <2>2, <1>0, <1>1, <1>4, <1>5, SpliceNoTwoFree
<1>9. MembersFrom(s, i, i, m, t)
  BY <1>1, <1>5, SpliceMembers

<1>11. ASSUME NEW a \in h
       PROVE  \E j \in 1 .. Len(s) : /\ j # i /\ ~s[j].free
                                     /\ a.ptr = s[j].addr + MBLOCK_SIZE /\ a.asked <= s[j].size
  BY <1>0 DEF Held
<1>12. ASSUME NEW a \in h PROVE a.ptr # new.ptr
  <2>1. PICK j \in 1 .. Len(s) : j # i /\ a.ptr = s[j].addr + MBLOCK_SIZE
    BY <1>11
  <2>2. s[j].addr # s[i].addr
    BY <2>1, <1>0, TilesApart
  <2> QED BY <2>1, <2>2, <1>2, <1>3
<1>13. h \cup {new} \subseteq [ptr : Nat, asked : Nat]
  BY <1>0 DEF Held
<1>14. ASSUME NEW a \in h \cup {new}
       PROVE  \E k \in 1 .. Len(t) :
                 ~t[k].free /\ a.ptr = t[k].addr + MBLOCK_SIZE /\ a.asked <= t[k].size
  <2>1. CASE a \in h
    <3>1. PICK j \in 1 .. Len(s) : /\ j # i /\ ~s[j].free
                                   /\ a.ptr = s[j].addr + MBLOCK_SIZE /\ a.asked <= s[j].size
      BY <2>1, <1>11
    <3>2. j < i \/ i < j
      BY <3>1, <1>1
    <3>3. PICK k \in 1 .. Len(t) : t[k] = s[j]
      BY <3>2, <1>9 DEF MembersFrom
    <3> QED BY <3>1, <3>3
  <2>2. CASE a = new
    <3>1. 1 \in 1 .. Len(m)
      BY <1>5
    <3>2. PICK k \in 1 .. Len(t) : t[k] = m[1]
      BY <3>1, <1>9 DEF MembersFrom
    <3>3. n <= m[1].size
      <4>1. PICK z \in Nat : z = ROUND8(n) /\ n <= z
        BY RoundUp
      <4> QED BY <4>1, <1>4, <1>6
    <3> QED BY <2>2, <3>2, <3>3, <1>4
  <2> QED BY <2>1, <2>2
<1>15. ASSUME NEW k \in 1 .. Len(t), ~t[k].free
       PROVE  \E a \in h \cup {new} : a.ptr = t[k].addr + MBLOCK_SIZE
  <2>1. CASE \E j \in 1 .. Len(s) : t[k] = s[j]
    <3>1. PICK j \in 1 .. Len(s) : t[k] = s[j]
      BY <2>1
    <3>2. PICK a \in h : a.ptr = s[j].addr + MBLOCK_SIZE
      BY <3>1, <1>0, <1>15 DEF Held
    <3> QED BY <3>1, <3>2
  <2>2. CASE \E j \in 1 .. Len(m) : t[k] = m[j]
    <3>1. PICK j \in 1 .. Len(m) : t[k] = m[j]
      BY <2>2
    <3>2. j = 1
      BY <3>1, <1>15, <1>4, <1>5
    <3> QED BY <3>1, <3>2, <1>4
  <2> QED BY <2>1, <2>2, <1>9 DEF MembersFrom
<1>16. ASSUME NEW a \in h \cup {new}, NEW c \in h \cup {new}, a.ptr = c.ptr PROVE a = c
  BY <1>0, <1>12, <1>16 DEF Held
<1>17. PICK g : g = h \cup {new}
  OBVIOUS
<1>18. g \subseteq [ptr : Nat, asked : Nat] /\ \A a, c \in g : a.ptr = c.ptr => a = c
  BY <1>13, <1>16, <1>17
<1>19. \A a \in g : \E k \in 1 .. Len(t) :
          ~t[k].free /\ a.ptr = t[k].addr + MBLOCK_SIZE /\ a.asked <= t[k].size
  BY <1>14, <1>17
<1>20. \A k \in 1 .. Len(t) : ~t[k].free => \E a \in g : a.ptr = t[k].addr + MBLOCK_SIZE
  BY <1>15, <1>17
<1>21. Held(t, g)
  BY <1>18, <1>19, <1>20, HeldIf
<1> QED BY <1>7, <1>8, <1>17, <1>21 DEF HeapHeld

\* kfree: the released block and its free neighbours become one.
LEMMA FreeHolds ==
    ASSUME NEW s, NEW h, NEW i \in 1 .. Len(s), NEW a \in h,
           NEW f \in 1 .. i, NEW l \in i .. Len(s), NEW b \in Block, NEW t,
           HeapHeld(s, h), s[i].addr + MBLOCK_SIZE = a.ptr,
           f = IF i > 1 /\ s[i - 1].free THEN i - 1 ELSE i,
           l = IF i < Len(s) /\ s[i + 1].free THEN i + 1 ELSE i,
           b.addr = s[f].addr, EndOf(b) = EndOf(s[l]), b.free, t = Spliced(s, f, l, <<b>>)
    PROVE  HeapHeld(t, h \ {a})
<1>0. Tiles(s, 0, KMALLOC_HEAP_SIZE) /\ NoTwoFree(s) /\ Held(s, h)
  BY DEF HeapHeld
<1>1. s \in Seq(Block) /\ Len(s) \in Nat /\ f \in 1 .. Len(s) /\ l \in f .. Len(s)
  BY <1>0 DEF Tiles
<1>2. MBLOCK_SIZE \in Nat /\ \A j \in 1 .. Len(s) : s[j] \in Block
  BY <1>1, KmallocAssumption
<1>3. \A j \in 1 .. Len(s) : s[j].addr \in Nat /\ s[j].size \in Nat
  BY <1>2 DEF Block
<1>4. PICK m : m = <<b>>
  OBVIOUS
<1>5. m \in Seq(Block) /\ Len(m) = 1 /\ m[1] = b
  BY <1>4
<1>6. Tiles(m, s[f].addr, EndOf(s[l])) /\ NoTwoFree(m)
  BY <1>5 DEF Tiles, NoTwoFree
<1>7. Tiles(t, 0, KMALLOC_HEAP_SIZE)
  BY <1>0, <1>1, <1>4, <1>6, SpliceTiles
<1>8. ~s[i].free
  <2>1. PICK j \in 1 .. Len(s) : ~s[j].free /\ a.ptr = s[j].addr + MBLOCK_SIZE
    BY <1>0 DEF Held
  <2>2. s[i].addr = s[j].addr
    BY <2>1, <1>2, <1>3
  <2>3. i = j
    BY <2>2, <1>0, TilesApart
  <2> QED BY <2>1, <2>3
<1>9. \A j \in f .. l : j = i \/ s[j].free
  BY <1>1
<1>10. NoTwoFree(t)
  <2>1. 1 < f => ~s[f - 1].free
    <3>1. 1 < f => f - 1 \in 1 .. Len(s) - 1 /\ (f - 1) + 1 = f
      BY <1>1
    <3>2. CASE f = i
      BY <3>2
    <3>3. CASE f # i
      <4>1. s[f].free
        BY <3>3
      <4> QED BY <4>1, <3>1, <1>0 DEF NoTwoFree
    <3> QED BY <3>2, <3>3
  <2>2. l < Len(s) => ~s[l + 1].free
    <3>1. l < Len(s) => l \in 1 .. Len(s) - 1
      BY <1>1
    <3>2. CASE l = i
      BY <3>2
    <3>3. CASE l # i
      <4>1. s[l].free
        BY <3>3
      <4> QED BY <4>1, <3>1, <1>0 DEF NoTwoFree
    <3> QED BY <3>2, <3>3
  <2>3. t = Spliced(s, f, l, m) /\ Len(m) >= 1
    BY <1>4, <1>5
  <2>4. 1 < f => ~s[f - 1].free \/ ~m[1].free
    BY <2>1
  <2>5. l < Len(s) => ~m[Len(m)].free \/ ~s[l + 1].free
    BY <2>2
  <2>6. m \in Seq(Block) /\ NoTwoFree(m)
    BY <1>5, <1>6
  <2> QED BY <2>3, <2>4, <2>5, <2>6, <1>0, <1>1, SpliceNoTwoFree
<1>11. MembersFrom(s, f, l, m, t)
  <2>1. t = Spliced(s, f, l, m)
    BY <1>4
  <2> QED BY <2>1, <1>1, <1>5, SpliceMembers
<1>12. ASSUME NEW c \in h \ {a}
       PROVE  \E k \in 1 .. Len(t) :
                 ~t[k].free /\ c.ptr = t[k].addr + MBLOCK_SIZE /\ c.asked <= t[k].size
  <2>1. PICK j \in 1 .. Len(s) :
               ~s[j].free /\ c.ptr = s[j].addr + MBLOCK_SIZE /\ c.asked <= s[j].size
    BY <1>0 DEF Held
  <2>2. c.ptr # a.ptr
    BY <1>0 DEF Held
  <2>3. j # i
    BY <2>1, <2>2
  <2>4. j < f \/ l < j
    BY <2>1, <2>3, <1>1, <1>9
  <2>5. PICK k \in 1 .. Len(t) : t[k] = s[j]
    BY <2>4, <1>11 DEF MembersFrom
  <2> QED BY <2>1, <2>5
<1>13. ASSUME NEW k \in 1 .. Len(t), ~t[k].free
       PROVE  \E c \in h \ {a} : c.ptr = t[k].addr + MBLOCK_SIZE
  <2>1. t[k] # b
    BY <1>13
  <2>2. PICK j \in 1 .. Len(s) : (j < f \/ l < j) /\ t[k] = s[j]
    <3>1. \A j \in 1 .. Len(m) : m[j] = b
      BY <1>5
    <3>2. \/ \E j \in 1 .. Len(s) : (j < f \/ l < j) /\ t[k] = s[j]
          \/ \E j \in 1 .. Len(m) : t[k] = m[j]
      BY <1>11 DEF MembersFrom
    <3> QED BY <2>1, <3>1, <3>2
  <2>3. PICK c \in h : c.ptr = s[j].addr + MBLOCK_SIZE
    BY <2>2, <1>0, <1>13 DEF Held
  <2>4. j # i
    BY <2>2, <1>1
  <2>5. s[j].addr # s[i].addr
    BY <2>4, <1>0, TilesApart
  <2>6. c.ptr # a.ptr
    BY <2>3, <2>5, <1>2, <1>3
  <2> QED BY <2>2, <2>3, <2>6
<1>14. PICK g : g = h \ {a}
  OBVIOUS
<1>15. g \subseteq [ptr : Nat, asked : Nat] /\ \A c, d \in g : c.ptr = d.ptr => c = d
  BY <1>0, <1>14 DEF Held
<1>16. Held(t, g)
  <2>1. \A c \in g : \E k \in 1 .. Len(t) :
            ~t[k].free /\ c.ptr = t[k].addr + MBLOCK_SIZE /\ c.asked <= t[k].size
    BY <1>12, <1>14
  <2>2. \A k \in 1 .. Len(t) : ~t[k].free => \E c \in g : c.ptr = t[k].addr + MBLOCK_SIZE
    BY <1>13, <1>14
  <2> QED BY <2>1, <2>2, <1>15, HeldIf
<1> QED BY <1>7, <1>10, <1>14, <1>16 DEF HeapHeld

-----------------------------------------------------------------------------
(* The invariant of the heap.                                               *)

\* A refused size is one that no free block can hold.
RefusedTooLarge ==
    /\ refused \in Nat \cup {-1}
    /\ refused >= 0 => \A i \in 1 .. Len(mblock_list) :
          mblock_list[i].free => mblock_list[i].size < ROUND8(refused)

HeapInv == HeapHeld(mblock_list, live) /\ RefusedTooLarge

\* kmalloc_init: one free block, nothing held.
LEMMA HeapInitInv == ASSUME kmalloc_init PROVE HeapInv
<1>1. PICK b : b = [addr |-> 0, size |-> KMALLOC_HEAP_SIZE - MBLOCK_SIZE, free |-> TRUE]
  OBVIOUS
<1>2. b \in Block /\ b.addr = 0 /\ EndOf(b) = KMALLOC_HEAP_SIZE /\ b.free
  BY <1>1, KmallocAssumption DEF Block, EndOf
<1>3. PICK s : s = mblock_list
  OBVIOUS
<1>4. s \in Seq(Block) /\ Len(s) = 1 /\ s[1] = b
  BY <1>1, <1>2, <1>3 DEF kmalloc_init
<1>5. Tiles(s, 0, KMALLOC_HEAP_SIZE) /\ NoTwoFree(s)
  BY <1>2, <1>4 DEF Tiles, NoTwoFree
<1>6. PICK h : h = {}
  OBVIOUS
<1>7. Held(s, h)
  BY <1>2, <1>4, <1>6 DEF Held
<1>8. live = h /\ refused = -1
  BY <1>6 DEF kmalloc_init
<1>9. RefusedTooLarge
  BY <1>8 DEF RefusedTooLarge
<1> QED BY <1>3, <1>5, <1>7, <1>8, <1>9 DEF HeapInv, HeapHeld

\* kmalloc keeps the invariant.
LEMMA MallocInv == ASSUME HeapInv, NEW n \in Sizes, kmalloc(n) PROVE HeapInv'
<1>1. PICK s, h : s = mblock_list /\ h = live
  OBVIOUS
<1>2. HeapHeld(s, h)
  BY <1>1 DEF HeapInv
<1>3. /\ n \in Nat /\ ROUND8(n) \in Nat /\ s \in Seq(Block) /\ DOMAIN s = 1 .. Len(s)
      /\ \A i \in 1 .. Len(s) : s[i] \in Block
  BY <1>2, KmallocAssumption, RoundUp DEF Tiles, HeapHeld
<1>4. PICK fits : fits = Fits(ROUND8(n))
  OBVIOUS
<1>5. fits = {i \in 1 .. Len(s) : s[i].free /\ ROUND8(n) <= s[i].size}
  BY <1>1, <1>3, <1>4 DEF Fits
<1>6. \A i \in 1 .. Len(s) : s[i].size \in Nat /\ s[i].addr \in Nat
  BY <1>3 DEF Block
<1>7. CASE fits = {}
  <2>1. refused' = n /\ mblock_list' = s /\ live' = h
    BY <1>1, <1>4, <1>7 DEF kmalloc
  <2>2. \A i \in 1 .. Len(s) : s[i].free => s[i].size < ROUND8(n)
    BY <1>3, <1>5, <1>6, <1>7
  <2>3. RefusedTooLarge'
    BY <2>1, <2>2, <1>3 DEF RefusedTooLarge
  <2> QED BY <2>1, <2>3, <1>2 DEF HeapInv
<1>8. CASE fits # {}
  <2>1. PICK i \in fits : i = Min(fits)
    <3>1. fits \subseteq Nat
      BY <1>5
    <3> QED BY <3>1, <1>8, MinIsLeast
  <2>2. i \in 1 .. Len(s) /\ s[i].free /\ ROUND8(n) <= s[i].size
    BY <2>1, <1>5
  <2>3. PICK m : m = Carve(s[i], ROUND8(n))
    OBVIOUS
  <2>4. PICK t : t = Spliced(s, i, i, m)
    OBVIOUS
  <2>5. PICK new : new = [ptr |-> s[i].addr + MBLOCK_SIZE, asked |-> n]
    OBVIOUS
  <2>6. mblock_list' = t /\ live' = h \cup {new} /\ refused' = -1
    BY <1>1, <1>4, <1>8, <2>1, <2>3, <2>4, <2>5 DEF kmalloc, Spliced
  <2>7. HeapHeld(t, h \cup {new})
    <3>1. s[i].addr \in Nat /\ MBLOCK_SIZE \in Nat
      BY <2>2, <1>6, KmallocAssumption
    <3>2. /\ new \in [ptr : Nat, asked : Nat] /\ new.ptr = s[i].addr + MBLOCK_SIZE
          /\ new.asked = n
      BY <3>1, <2>5, <1>3
    <3> QED BY <3>2, <1>2, <1>3, <2>2, <2>3, <2>4, MallocHolds
  <2>8. RefusedTooLarge'
    BY <2>6 DEF RefusedTooLarge
  <2> QED BY <2>6, <2>7, <2>8 DEF HeapInv
<1> QED BY <1>7, <1>8

\* kfree keeps it: the merged block spans the blocks it replaces.
LEMMA FreeInv == ASSUME HeapInv, NEW a \in live, kfree(a) PROVE HeapInv'
<1>1. PICK s, h : s = mblock_list /\ h = live
  OBVIOUS
<1>2. HeapHeld(s, h) /\ Tiles(s, 0, KMALLOC_HEAP_SIZE) /\ a \in h
  BY <1>1 DEF HeapInv, HeapHeld
<1>3. /\ s \in Seq(Block) /\ DOMAIN s = 1 .. Len(s) /\ Len(s) \in Nat /\ MBLOCK_SIZE \in Nat
      /\ \A j \in 1 .. Len(s) : s[j] \in Block
  BY <1>2, KmallocAssumption DEF Tiles
<1>4. \A j \in 1 .. Len(s) : s[j].addr \in Nat /\ s[j].size \in Nat
  BY <1>3 DEF Block
<1>5. PICK i \in 1 .. Len(s) : s[i].addr + MBLOCK_SIZE = a.ptr /\ mblock_list' = Release(i)
  BY <1>1, <1>3 DEF kfree
<1>6. PICK f : f = IF i > 1 /\ s[i - 1].free THEN i - 1 ELSE i
  OBVIOUS
<1>7. PICK l : l = IF i < Len(s) /\ s[i + 1].free THEN i + 1 ELSE i
  OBVIOUS
<1>8. PICK size : size = s[i].size
          + (IF i < Len(s) /\ s[i + 1].free THEN MBLOCK_SIZE + s[i + 1].size ELSE 0)
          + (IF i > 1 /\ s[i - 1].free THEN MBLOCK_SIZE + s[i - 1].size ELSE 0)
  OBVIOUS
<1>9. PICK b : b = [s[f] EXCEPT !.size = size, !.free = TRUE]
  OBVIOUS
<1>10. mblock_list' = Spliced(s, f, l, <<b>>)
  BY <1>1, <1>5, <1>6, <1>7, <1>8, <1>9 DEF Release, Spliced
<1>11. f \in 1 .. i /\ l \in i .. Len(s) /\ f \in 1 .. Len(s) /\ l \in 1 .. Len(s)
  BY <1>3, <1>6, <1>7
<1>12. size \in Nat
  <2>1. i < Len(s) => s[i + 1].size \in Nat
    BY <1>3, <1>4
  <2>2. i > 1 => s[i - 1].size \in Nat
    BY <1>3, <1>4
  <2> QED BY <2>1, <2>2, <1>3, <1>4, <1>8, SMTT(30)
<1>13. b \in Block /\ b.addr = s[f].addr /\ b.size = size /\ b.free
  BY <1>3, <1>9, <1>11, <1>12 DEF Block
<1>14. i > 1 => EndOf(s[i - 1]) = s[i].addr /\ s[i - 1].addr \in Nat /\ s[i - 1].size \in Nat
  <2>1. i > 1 => i - 1 \in 1 .. Len(s) - 1 /\ i - 1 \in 1 .. Len(s) /\ (i - 1) + 1 = i
    BY <1>3
  <2> QED BY <2>1, <1>2, <1>4 DEF Tiles
<1>15. i < Len(s) => EndOf(s[i]) = s[i + 1].addr /\ s[i + 1].addr \in Nat /\ s[i + 1].size \in Nat
  <2>1. i < Len(s) => i \in 1 .. Len(s) - 1 /\ i + 1 \in 1 .. Len(s)
    BY <1>3
  <2> QED BY <2>1, <1>2, <1>4 DEF Tiles
<1>16. EndOf(b) = EndOf(s[l])
  <2>1. PICK p, c, q : p = s[i - 1] /\ c = s[i] /\ q = s[i + 1]
    OBVIOUS
  <2>6. /\ c.addr \in Nat /\ c.size \in Nat
        /\ i > 1 => EndOf(p) = c.addr /\ p.addr \in Nat /\ p.size \in Nat
        /\ i < Len(s) => EndOf(c) = q.addr /\ q.addr \in Nat /\ q.size \in Nat
    BY <2>1, <1>4, <1>14, <1>15
  <2>2. CASE (i > 1 /\ s[i - 1].free) /\ (i < Len(s) /\ s[i + 1].free)
    <3>1. b.addr = p.addr /\ s[l] = q
      BY <2>1, <2>2, <1>6, <1>7, <1>13
    <3>2. b.size = c.size + (MBLOCK_SIZE + q.size) + (MBLOCK_SIZE + p.size)
      BY <2>1, <2>2, <1>8, <1>13
    <3>3. /\ c.addr \in Nat /\ c.size \in Nat /\ p.addr \in Nat /\ p.size \in Nat
          /\ q.addr \in Nat /\ q.size \in Nat /\ MBLOCK_SIZE \in Nat
      BY <2>2, <2>6, <1>3
    <3>4. p.addr + MBLOCK_SIZE + p.size = c.addr /\ c.addr + MBLOCK_SIZE + c.size = q.addr
      BY <2>2, <2>6 DEF EndOf
    <3>5. EndOf(b) = p.addr + MBLOCK_SIZE + (c.size + (MBLOCK_SIZE + q.size) + (MBLOCK_SIZE + p.size))
      BY <3>1, <3>2 DEF EndOf
    <3>6. EndOf(b) = q.addr + MBLOCK_SIZE + q.size
      <4>1. PICK pa \in Nat, ps \in Nat, cs \in Nat, qs \in Nat, M \in Nat :
               pa = p.addr /\ ps = p.size /\ cs = c.size /\ qs = q.size /\ M = MBLOCK_SIZE
        BY <3>3
      <4>2. q.addr = ((pa + M) + ps) + M + cs
        BY <4>1, <3>4
      <4>3. EndOf(b) = pa + M + (cs + (M + qs) + (M + ps))
        BY <4>1, <3>5
      <4>4. q.addr + MBLOCK_SIZE + q.size = (((pa + M) + ps) + M + cs) + M + qs
        BY <4>1, <4>2
      <4>5. pa + M + (cs + (M + qs) + (M + ps)) = (((pa + M) + ps) + M + cs) + M + qs
        OBVIOUS
      <4> QED BY <4>3, <4>4, <4>5
    <3> QED BY <3>1, <3>6 DEF EndOf
  <2>3. CASE (i > 1 /\ s[i - 1].free) /\ ~(i < Len(s) /\ s[i + 1].free)
    <3>1. b.addr = p.addr /\ s[l] = c
      BY <2>1, <2>3, <1>6, <1>7, <1>13
    <3>2. b.size = c.size + 0 + (MBLOCK_SIZE + p.size)
      BY <2>1, <2>3, <1>8, <1>13
    <3> QED BY <3>1, <3>2, <2>3, <2>6, <1>3, SMTT(30) DEF EndOf
  <2>4. CASE ~(i > 1 /\ s[i - 1].free) /\ (i < Len(s) /\ s[i + 1].free)
    <3>1. b.addr = c.addr /\ s[l] = q
      BY <2>1, <2>4, <1>6, <1>7, <1>13
    <3>2. b.size = c.size + (MBLOCK_SIZE + q.size) + 0
      BY <2>1, <2>4, <1>8, <1>13
    <3> QED BY <3>1, <3>2, <2>4, <2>6, <1>3, SMTT(30) DEF EndOf
  <2>5. CASE ~(i > 1 /\ s[i - 1].free) /\ ~(i < Len(s) /\ s[i + 1].free)
    <3>1. b.addr = c.addr /\ s[l] = c
      BY <2>1, <2>5, <1>6, <1>7, <1>13
    <3>2. b.size = c.size + 0 + 0
      BY <2>1, <2>5, <1>8, <1>13
    <3> QED BY <3>1, <3>2, <2>6, <1>3 DEF EndOf
  <2> QED BY <2>2, <2>3, <2>4, <2>5
<1>17. PICK t : t = Spliced(s, f, l, <<b>>)
  OBVIOUS
<1>18. HeapHeld(t, h \ {a})
  BY <1>2, <1>5, <1>6, <1>7, <1>11, <1>13, <1>16, <1>17, FreeHolds
<1>19. mblock_list' = t /\ live' = h \ {a} /\ refused' = -1
  BY <1>1, <1>10, <1>17 DEF kfree
<1>20. RefusedTooLarge'
  BY <1>19 DEF RefusedTooLarge
<1> QED BY <1>18, <1>19, <1>20 DEF HeapInv

\* The invariant holds after every sequence of kmalloc and kfree.
LEMMA HeapInvariant == HeapSpec => []HeapInv
<1>1. HeapInv /\ [HeapNext]_heapVars => HeapInv'
  <2> SUFFICES ASSUME HeapInv, [HeapNext]_heapVars PROVE HeapInv'
    OBVIOUS
  <2>1. CASE \E n \in Sizes : kmalloc(n)
    BY <2>1, MallocInv
  <2>2. CASE \E a \in live : kfree(a)
    BY <2>2, FreeInv
  <2>3. CASE UNCHANGED heapVars
    BY <2>3 DEF HeapInv, heapVars, RefusedTooLarge
  <2> QED BY <2>1, <2>2, <2>3 DEF HeapNext
<1> QED BY <1>1, HeapInitInv, PTL DEF HeapSpec

-----------------------------------------------------------------------------
(* What allocation_summarize adds up.                                       *)

NoBlocks == [left |-> 0, allocated |-> 0]

\* One round of its loop.
Add(r, b) ==
    IF b.free THEN [left |-> r.left + b.size, allocated |-> r.allocated + MBLOCK_SIZE]
              ELSE [left |-> r.left, allocated |-> r.allocated + MBLOCK_SIZE + b.size]

\* g holds the sums over the first blocks of s, up to n of them.
SumsOf(s, n, g) ==
    g = [i \in 0 .. n |-> IF i = 0 THEN NoBlocks ELSE Add(g[i - 1], s[i])]

\* The sums exist: a list one block longer needs one more round.
LEMMA SumsExist ==
    ASSUME NEW s, NEW k \in Nat
    PROVE  \E g : SumsOf(s, k, g)
<1>1. SUFFICES ASSUME ~\E g : SumsOf(s, k, g) PROVE FALSE
  OBVIOUS
<1>2. PICK T : T = {n \in Nat : ~\E g : SumsOf(s, n, g)}
  OBVIOUS
<1>3. T \subseteq Nat /\ k \in T
  BY <1>1, <1>2
<1>4. PICK n \in T : \A m \in T : n <= m
  BY <1>3, LeastNat
<1>5. n \in Nat /\ ~\E g : SumsOf(s, n, g)
  BY <1>2, <1>4
<1>6. CASE n = 0
  <2>1. PICK g : g = [i \in {0} |-> NoBlocks]
    OBVIOUS
  <2>2. 0 .. n = {0}
    BY <1>6
  <2>3. SumsOf(s, n, g)
    BY <2>1, <2>2 DEF SumsOf
  <2> QED BY <2>3, <1>5
<1>7. CASE n # 0
  <2>1. n - 1 \in Nat /\ n - 1 \notin T
    BY <1>4, <1>5, <1>7
  <2>2. PICK g : SumsOf(s, n - 1, g)
    BY <2>1, <1>2
  <2>3. \A i \in 0 .. n - 1 : g[i] = IF i = 0 THEN NoBlocks ELSE Add(g[i - 1], s[i])
    BY <2>2 DEF SumsOf
  <2>4. PICK h : h = [i \in 0 .. n |-> IF i = n THEN Add(g[n - 1], s[n]) ELSE g[i]]
    OBVIOUS
  <2>5. \A i \in 0 .. n - 1 : h[i] = g[i]
    BY <2>4, <1>5
  <2>6. h[n] = Add(g[n - 1], s[n])
    BY <2>4, <1>5
  <2>7. ASSUME NEW i \in 0 .. n
        PROVE  h[i] = IF i = 0 THEN NoBlocks ELSE Add(h[i - 1], s[i])
    <3>1. CASE i = 0
      <4>1. 0 \in 0 .. n - 1
        BY <1>5, <1>7
      <4> QED BY <3>1, <4>1, <2>3, <2>5
    <3>2. CASE i # 0 /\ i # n
      <4>1. i \in 0 .. n - 1 /\ i - 1 \in 0 .. n - 1
        BY <3>2, <1>5
      <4>2. h[i] = g[i] /\ h[i - 1] = g[i - 1]
        BY <4>1, <2>5
      <4>3. g[i] = Add(g[i - 1], s[i])
        BY <4>1, <3>2, <2>3
      <4> QED BY <3>2, <4>2, <4>3
    <3>3. CASE i # 0 /\ i = n
      <4>1. n - 1 \in 0 .. n - 1
        BY <1>5, <1>7
      <4>2. h[n - 1] = g[n - 1]
        BY <4>1, <2>5
      <4> QED BY <3>3, <4>2, <2>6
    <3> QED BY <3>1, <3>2, <3>3
  <2>8. h = [i \in 0 .. n |-> IF i = 0 THEN NoBlocks ELSE Add(h[i - 1], s[i])]
    BY <2>4, <2>7
  <2>9. SumsOf(s, n, h)
    BY <2>8 DEF SumsOf
  <2> QED BY <2>9, <1>5
<1> QED BY <1>6, <1>7

\* After i blocks the sums reach the end of the last of them.
LEMMA SumsReach ==
    ASSUME NEW s, NEW high, NEW g, Tiles(s, 0, high), SumsOf(s, Len(s), g)
    PROVE  g[Len(s)].left + g[Len(s)].allocated = high
<1> DEFINE Reached(i) == /\ g[i].left \in Nat /\ g[i].allocated \in Nat
                         /\ g[i].left + g[i].allocated
                              = IF i = 0 THEN 0 ELSE EndOf(s[i])
<1>1. Len(s) \in Nat \ {0} /\ MBLOCK_SIZE \in Nat /\ \A j \in 1 .. Len(s) : s[j] \in Block
  BY KmallocAssumption DEF Tiles
<1>2. \A j \in 1 .. Len(s) : s[j].addr \in Nat /\ s[j].size \in Nat
  BY <1>1 DEF Block
<1>3. \A i \in 0 .. Len(s) : g[i] = IF i = 0 THEN NoBlocks ELSE Add(g[i - 1], s[i])
  BY DEF SumsOf
<1>4. PICK T : T = {i \in 0 .. Len(s) : ~Reached(i)}
  OBVIOUS
<1>5. CASE T = {}
  <2>1. Len(s) \in 0 .. Len(s) /\ Len(s) # 0
    BY <1>1
  <2>2. Reached(Len(s))
    BY <2>1, <1>4, <1>5
  <2> QED BY <2>1, <2>2 DEF Tiles
<1>6. CASE T # {}
  <2>1. T \subseteq Nat
    BY <1>1, <1>4
  <2>2. PICK i \in T : \A m \in T : i <= m
    BY <2>1, <1>6, LeastNat
  <2>3. i \in 0 .. Len(s) /\ ~Reached(i)
    BY <2>2, <1>4
  <2>4. CASE i = 0
    <3>1. g[i] = NoBlocks
      BY <2>3, <2>4, <1>3
    <3>2. Reached(i)
      BY <3>1, <2>4 DEF NoBlocks
    <3> QED BY <3>2, <2>3
  <2>5. CASE i # 0
    <3>1. i - 1 \in 0 .. Len(s) /\ i - 1 \notin T /\ i \in 1 .. Len(s)
      BY <2>1, <2>2, <2>3, <2>5, <1>1
    <3>2. Reached(i - 1)
      BY <3>1, <1>4
    <3>3. PICK r, b : r = g[i - 1] /\ b = s[i]
      OBVIOUS
    <3>4. r.left \in Nat /\ r.allocated \in Nat /\ r.left + r.allocated = b.addr
      <4>1. CASE i - 1 = 0
        <5>1. i = 1 /\ s[1].addr = 0
          BY <4>1, <2>3 DEF Tiles
        <5> QED BY <5>1, <4>1, <3>2, <3>3
      <4>2. CASE i - 1 # 0
        <5>1. i - 1 \in 1 .. Len(s) - 1 /\ (i - 1) + 1 = i
          BY <4>2, <3>1, <1>1
        <5>2. EndOf(s[i - 1]) = s[i].addr
          BY <5>1 DEF Tiles
        <5> QED BY <5>2, <4>2, <3>2, <3>3
      <4> QED BY <4>1, <4>2
    <3>5. g[i] = Add(r, b)
      BY <3>1, <3>3, <2>5, <1>3
    <3>6. b.addr \in Nat /\ b.size \in Nat
      BY <3>1, <3>3, <1>2
    <3>7. /\ g[i].left \in Nat /\ g[i].allocated \in Nat
          /\ g[i].left + g[i].allocated = (r.left + r.allocated) + MBLOCK_SIZE + b.size
      <4>1. CASE b.free
        <5>1. g[i].left = r.left + b.size /\ g[i].allocated = r.allocated + MBLOCK_SIZE
          BY <4>1, <3>5 DEF Add
        <5> QED BY <5>1, <3>4, <3>6, <1>1, SMTT(30)
      <4>2. CASE ~b.free
        <5>1. g[i].left = r.left /\ g[i].allocated = r.allocated + MBLOCK_SIZE + b.size
          BY <4>2, <3>5 DEF Add
        <5> QED BY <5>1, <3>4, <3>6, <1>1
      <4> QED BY <4>1, <4>2
    <3>8. Reached(i)
      BY <3>3, <3>4, <3>7, <2>5 DEF EndOf
    <3> QED BY <3>8, <2>3
  <2> QED BY <2>4, <2>5
<1> QED BY <1>5, <1>6

\* The summary accounts for every byte of the heap.
LEMMA SummaryExact ==
    ASSUME Tiles(mblock_list, 0, KMALLOC_HEAP_SIZE)
    PROVE  allocation_summarize.left + allocation_summarize.allocated = KMALLOC_HEAP_SIZE
<1>1. PICK s : s = mblock_list
  OBVIOUS
<1>2. PICK g : g = CHOOSE f : SumsOf(s, Len(s), f)
  OBVIOUS
<1>3. Len(s) \in Nat
  BY <1>1 DEF Tiles
<1>4. SumsOf(s, Len(s), g)
  BY <1>2, <1>3, SumsExist
<1>5. allocation_summarize = g[Len(s)]
  BY <1>1, <1>2 DEF allocation_summarize, SumsOf, Add, NoBlocks
<1> QED BY <1>1, <1>4, <1>5, SumsReach

-----------------------------------------------------------------------------
(* The heap is correct.                                                     *)

\* The used blocks and the allocations are equally many: a block's address
\* says which allocation it is.
LEMMA HeldCounts ==
    ASSUME NEW s, NEW h, NEW U, HeapHeld(s, h), U = {i \in 1 .. Len(s) : ~s[i].free}
    PROVE  Cardinality(U) = Cardinality(h)
<1>1. Tiles(s, 0, KMALLOC_HEAP_SIZE) /\ Held(s, h)
  BY DEF HeapHeld
<1>2. Len(s) \in Nat /\ MBLOCK_SIZE \in Nat /\ \A i \in 1 .. Len(s) : s[i] \in Block
  BY <1>1, KmallocAssumption DEF Tiles
<1>3. \A i \in 1 .. Len(s) : s[i].addr \in Nat
  BY <1>2 DEF Block
<1>4. IsFiniteSet(U)
  <2>1. IsFiniteSet(1 .. Len(s))
    BY <1>2, FS_Interval
  <2>2. U \in SUBSET (1 .. Len(s))
    OBVIOUS
  <2> QED BY <2>1, <2>2, FS_Subset
<1>5. PICK f : f = [i \in U |-> CHOOSE a \in h : a.ptr = s[i].addr + MBLOCK_SIZE]
  OBVIOUS
<1>6. ASSUME NEW i \in U PROVE f[i] \in h /\ f[i].ptr = s[i].addr + MBLOCK_SIZE
  <2>1. \E a \in h : a.ptr = s[i].addr + MBLOCK_SIZE
    BY <1>1 DEF Held
  <2> QED BY <2>1, <1>5
<1>7. f \in [U -> h]
  BY <1>5, <1>6
<1>8. ASSUME NEW i \in U, NEW j \in U, f[i] = f[j] PROVE i = j
  <2>1. s[i].addr = s[j].addr
    BY <1>3, <1>2, <1>6, <1>8
  <2> QED BY <2>1, <1>1, TilesApart
<1>9. ASSUME NEW a \in h PROVE \E i \in U : f[i] = a
  <2>1. PICK i \in 1 .. Len(s) : ~s[i].free /\ a.ptr = s[i].addr + MBLOCK_SIZE
    BY <1>1 DEF Held
  <2>2. i \in U
    BY <2>1
  <2>3. f[i] \in h /\ f[i].ptr = a.ptr
    BY <2>1, <2>2, <1>6
  <2>4. f[i] = a
    BY <2>3, <1>1 DEF Held
  <2> QED BY <2>2, <2>4
<1>10. f \in Bijection(U, h)
  <2>1. f \in Injection(U, h)
    BY <1>7, <1>8 DEF Injection, IsInjective
  <2>2. f \in Surjection(U, h)
    BY <1>7, <1>9 DEF Surjection
  <2> QED BY <2>1, <2>2 DEF Bijection
<1>11. ExistsBijection(U, h)
  BY <1>10 DEF ExistsBijection
<1> QED BY <1>4, <1>11, FS_Bijection

\* The list of blocks tiles the heap, as the property states it.
LEMMA TiledHolds == ASSUME HeapInv PROVE HeapTiled
<1>1. Tiles(mblock_list, 0, KMALLOC_HEAP_SIZE)
  BY DEF HeapInv, HeapHeld
<1>2. PICK s : s = mblock_list
  OBVIOUS
<1>3. /\ s \in Seq(Block) /\ Len(s) \in Nat /\ Len(s) >= 1 /\ DOMAIN s = 1 .. Len(s)
      /\ s[1].addr = 0 /\ \A i \in 1 .. Len(s) : s[i] \in Block
  BY <1>1, <1>2 DEF Tiles
<1>4. \A i \in 1 .. Len(s) : s[i].size \in Nat
  BY <1>3 DEF Block
<1>5. ASSUME NEW i \in 1 .. Len(s)
      PROVE  s[i].addr + MBLOCK_SIZE + s[i].size
               = IF i = Len(s) THEN KMALLOC_HEAP_SIZE ELSE s[i + 1].addr
  <2>1. CASE i = Len(s)
    BY <2>1, <1>1, <1>2 DEF Tiles, EndOf
  <2>2. CASE i # Len(s)
    <3>1. PICK n \in Nat : n = Len(s) /\ i \in 1 .. n /\ i # n
      BY <2>2, <1>3
    <3>2. i \in 1 .. n - 1
      BY <3>1
    <3> QED BY <3>1, <3>2, <2>2, <1>1, <1>2 DEF Tiles, EndOf
  <2> QED BY <2>1, <2>2
<1>6. \A i \in 1 .. Len(s) : s[i].size >= 0
  BY <1>4
<1>7. allocation_summarize.left + allocation_summarize.allocated = KMALLOC_HEAP_SIZE
  BY <1>1, SummaryExact
<1> QED BY <1>2, <1>3, <1>5, <1>6, <1>7 DEF HeapTiled

\* A run of free blocks is a single one, and a refused size did not fit it.
LEMMA NoRoomHolds == ASSUME HeapInv PROVE NullMeansNoRoom
<1>1. PICK s : s = mblock_list
  OBVIOUS
<1>2. Tiles(s, 0, KMALLOC_HEAP_SIZE) /\ NoTwoFree(s)
  BY <1>1 DEF HeapInv, HeapHeld
<1>3. Len(s) \in Nat /\ \A i \in 1 .. Len(s) : s[i] \in Block
  BY <1>2 DEF Tiles
<1>4. \A i \in 1 .. Len(s) : s[i].addr \in Nat /\ s[i].size \in Nat
  BY <1>3 DEF Block
<1>5. SUFFICES ASSUME refused >= 0, NEW from \in 0 .. Len(s), NEW to \in 0 .. Len(s),
                      from < to, \A i \in from + 1 .. to : s[i].free
               PROVE  s[to].addr + s[to].size - s[from + 1].addr < ROUND8(refused)
  BY <1>1 DEF NullMeansNoRoom
<1>6. from + 1 = to
  <2>1. CASE from + 1 < to
    <3>1. /\ from + 1 \in 1 .. Len(s) - 1 /\ from + 1 \in from + 1 .. to
          /\ (from + 1) + 1 \in from + 1 .. to
      BY <2>1, <1>3
    <3>2. s[from + 1].free /\ s[(from + 1) + 1].free
      BY <3>1, <1>5
    <3> QED BY <3>1, <3>2, <1>2 DEF NoTwoFree
  <2> QED BY <2>1, <1>3, <1>5
<1>7. to \in 1 .. Len(s) /\ s[to].free
  BY <1>3, <1>5
<1>8. s[to].size < ROUND8(refused)
  BY <1>1, <1>5, <1>7 DEF HeapInv, RefusedTooLarge
<1>9. PICK x \in Nat, y \in Nat : x = s[to].addr /\ y = s[to].size
  BY <1>4, <1>7
<1>10. x + y - x = y
  OBVIOUS
<1> QED BY <1>6, <1>8, <1>9, <1>10

\* After any sequence of kmalloc and kfree, for any heap and any sizes asked
\* for: the blocks tile the heap, what is handed out is disjoint and large
\* enough, and a call that returns NULL asked for more than any free run holds.
THEOREM HeapIsCorrect == HeapSpec => []HeapCorrect
<1>1. HeapInv => HeapCorrect
  <2> SUFFICES ASSUME HeapInv PROVE HeapCorrect
    OBVIOUS
  <2>1. HeapHeld(mblock_list, live) /\ Held(mblock_list, live)
    BY DEF HeapInv, HeapHeld
  <2>2. DOMAIN mblock_list = 1 .. Len(mblock_list)
    BY <2>1 DEF HeapHeld, Tiles
  <2>3. Cardinality({i \in DOMAIN mblock_list : ~mblock_list[i].free}) = Cardinality(live)
    BY <2>1, <2>2, HeldCounts
  <2>4. \A a \in live : \E i \in DOMAIN mblock_list :
           /\ ~mblock_list[i].free
           /\ a.ptr = mblock_list[i].addr + MBLOCK_SIZE
           /\ a.asked <= mblock_list[i].size
    BY <2>1, <2>2 DEF Held
  <2>5. AllocationsDisjoint
    BY <2>3, <2>4, TiledHolds DEF AllocationsDisjoint
  <2> QED BY <2>5, NoRoomHolds DEF HeapCorrect
<1> QED BY <1>1, HeapInvariant, PTL

-----------------------------------------------------------------------------
(* The page tables of the environments: an entry that can be written is the *)
(* only one of its frame, unless all of them are shared on purpose.         *)

PageEntry == [frame : Frames, perm : Perm]

CopyTables(t) ==
    /\ t \in [Envs -> [Page -> SUBSET PageEntry]]
    /\ \A e \in Envs, v \in Page : \A x, y \in t[e][v] : x = y
    /\ \A e, d \in Envs, v, w \in Page : \A x \in t[e][v], y \in t[d][w] :
          (x.frame = y.frame /\ CanWrite(x))
          => (e = d /\ v = w) \/ (x.perm = "library" /\ y.perm = "library")

\* SharedOnPurpose, of any tables.
SharedIn(t, e, v) ==
    \E x \in t[e][v], d \in Envs \ {e}, w \in Page : \E y \in t[d][w] :
        x.perm = "library" /\ y.perm = "library" /\ x.frame = y.frame

ViewOf(t, m, e, v) ==
    IF t[e][v] = {} THEN "zero" ELSE m[(CHOOSE x \in t[e][v] : TRUE).frame]

\* Memory after stores of h through the table t to the pages W.
Written(m, t, h, W) ==
    [f \in Frames |-> IF \E w \in W : \E y \in t[h][w] : y.frame = f THEN h ELSE m[f]]

Writable(t, h, W) == \A w \in W : t[h][w] # {} /\ \A x \in t[h][w] : CanWrite(x)

\* The table t is p, but for pages of h in W, private now.
OnlyPages(p, t, h, W) ==
    \A e \in Envs, v \in Page :
        t[e][v] = p[e][v] \/ (e = h /\ v \in W /\ \A x \in t[e][v] : x.perm = "rw")

\* A fresh frame leaves every other entry alone and is nobody else's.
LEMMA FreshFrame ==
    ASSUME NEW p, NEW e \in Envs, NEW v \in Page, CopyTables(p), Frames \ InUse(p) # {},
           NEW q \in Perm, NEW t, t = WithFrame(p, e, v, q)
    PROVE  /\ CopyTables(t)
           /\ t[e][v] # {} /\ \A x \in t[e][v] : x.perm = q
           /\ \A d \in Envs, w \in Page : t[d][w] = p[d][w] \/ (d = e /\ w = v)
           /\ FreeFrame(p) \in Frames
           /\ \A d \in Envs, w \in Page : \A x \in p[d][w] : x.frame # FreeFrame(p)
<1>1. PICK f : f = FreeFrame(p)
  OBVIOUS
<1>2. f \in Frames /\ f \notin InUse(p)
  <2>1. Frames \ InUse(p) \subseteq Nat
    BY UserCopyAssumption
  <2> QED BY <1>1, <2>1, MinIsLeast DEF FreeFrame
<1>3. \A d \in Envs, w \in Page : \A x \in p[d][w] : x.frame # f
  <2>1. SUFFICES ASSUME NEW d \in Envs, NEW w \in Page, NEW x \in p[d][w], x.frame = f
                 PROVE  FALSE
    OBVIOUS
  <2>2. PICK F : F = {y.frame : y \in p[d][w]}
    OBVIOUS
  <2>3. f \in F
    BY <2>1, <2>2
  <2>4. F \in {{y.frame : y \in p[c][u]} : c \in Envs, u \in Page}
    BY <2>2
  <2>5. f \in InUse(p)
    BY <2>3, <2>4 DEF InUse
  <2> QED BY <2>5, <1>2
<1>4. PICK n : n = [frame |-> f, perm |-> q]
  OBVIOUS
<1>5. n \in PageEntry /\ n.frame = f /\ n.perm = q
  BY <1>2, <1>4 DEF PageEntry
<1>6. p \in [Envs -> [Page -> SUBSET PageEntry]]
  BY DEF CopyTables
<1>7. t = [p EXCEPT ![e][v] = {n}]
  BY <1>1, <1>4 DEF WithFrame
<1>8. t[e][v] = {n}
  BY <1>6, <1>7
<1>9. \A d \in Envs, w \in Page : t[d][w] = p[d][w] \/ (d = e /\ w = v)
  BY <1>6, <1>7
<1>10. t \in [Envs -> [Page -> SUBSET PageEntry]]
  BY <1>5, <1>6, <1>7
<1>11. \A d \in Envs, w \in Page : \A x, y \in t[d][w] : x = y
  BY <1>8, <1>9 DEF CopyTables
<1>12. ASSUME NEW c \in Envs, NEW d \in Envs, NEW u \in Page, NEW w \in Page,
              NEW x \in t[c][u], NEW y \in t[d][w], x.frame = y.frame, CanWrite(x)
       PROVE  (c = d /\ u = w) \/ (x.perm = "library" /\ y.perm = "library")
  <2>1. CASE (c = e /\ u = v) /\ (d = e /\ w = v)
    BY <2>1
  <2>2. CASE ~(c = e /\ u = v) /\ ~(d = e /\ w = v)
    <3>1. x \in p[c][u] /\ y \in p[d][w]
      BY <2>2, <1>9
    <3> QED BY <3>1, <1>12 DEF CopyTables
  <2>3. CASE (c = e /\ u = v) /\ ~(d = e /\ w = v)
    <3>1. x = n /\ y \in p[d][w]
      BY <2>3, <1>8, <1>9
    <3> QED BY <3>1, <1>3, <1>5, <1>12
  <2>4. CASE ~(c = e /\ u = v) /\ (d = e /\ w = v)
    <3>1. y = n /\ x \in p[c][u]
      BY <2>4, <1>8, <1>9
    <3> QED BY <3>1, <1>3, <1>5, <1>12
  <2> QED BY <2>1, <2>2, <2>3, <2>4
<1>13. CopyTables(t)
  BY <1>10, <1>11, <1>12 DEF CopyTables
<1> QED BY <1>1, <1>2, <1>3, <1>5, <1>8, <1>9, <1>13

\* A store to pages the table lets h write shows at most on pages of h, and
\* on those others share with it on purpose.
LEMMA StoreIsPrivate ==
    ASSUME NEW p, NEW t, NEW h \in Envs, NEW W \in SUBSET Page, NEW m, NEW m2,
           CopyTables(t), Writable(t, h, W), OnlyPages(p, t, h, W), m2 = Written(m, t, h, W),
           NEW e \in Envs, NEW v \in Page
    PROVE  \/ ViewOf(t, m2, e, v) = ViewOf(p, m, e, v)
           \/ e = h /\ ViewOf(t, m2, e, v) = h
           \/ e # h /\ SharedIn(p, e, v)
<1>1. CASE t[e][v] = {}
  <2>1. p[e][v] = {}
    BY <1>1 DEF OnlyPages, Writable
  <2> QED BY <1>1, <2>1 DEF ViewOf
<1>2. CASE t[e][v] # {}
  <2>1. PICK x : x = CHOOSE y \in t[e][v] : TRUE
    OBVIOUS
  <2>2. x \in t[e][v] /\ t[e][v] \in SUBSET PageEntry
    BY <1>2, <2>1 DEF CopyTables
  <2>3. x.frame \in Frames
    BY <2>2 DEF PageEntry
  <2>4. ViewOf(t, m2, e, v) = m2[x.frame]
    BY <1>2, <2>1 DEF ViewOf
  <2>5. CASE \E w \in W : \E y \in t[h][w] : y.frame = x.frame
    <3>0. PICK w \in W : \E y \in t[h][w] : y.frame = x.frame
      BY <2>5
    <3>1. PICK y \in t[h][w] : y.frame = x.frame
      BY <3>0
    <3>2. CanWrite(y) /\ w \in Page
      BY <3>1 DEF Writable
    <3>3. CASE e = h
      <4>1. m2[x.frame] = h
        BY <2>3, <2>5 DEF Written
      <4> QED BY <3>3, <4>1, <2>4
    <3>4. CASE e # h
      <4>1. x.perm = "library" /\ y.perm = "library"
        BY <3>1, <3>2, <3>4, <2>2 DEF CopyTables
      <4>2. x \in p[e][v] /\ y \in p[h][w]
        BY <3>1, <3>2, <3>4, <4>1, <2>2 DEF OnlyPages
      <4> QED BY <3>1, <3>2, <3>4, <4>1, <4>2 DEF SharedIn
    <3> QED BY <3>3, <3>4
  <2>6. CASE ~\E w \in W : \E y \in t[h][w] : y.frame = x.frame
    <3>1. m2[x.frame] = m[x.frame]
      BY <2>3, <2>6 DEF Written
    <3>2. t[e][v] = p[e][v]
      BY <2>2, <2>6 DEF OnlyPages
    <3> QED BY <3>1, <3>2, <2>1, <2>4, <1>2 DEF ViewOf
  <2> QED BY <2>5, <2>6
<1> QED BY <1>1, <1>2

-----------------------------------------------------------------------------
(* The invariant of the copies, and their steps.                            *)

CopyInv ==
    /\ there \subseteq Envs /\ curenv \in there /\ satp = curenv /\ cur_pgdir = curenv
    /\ CopyTables(pt) /\ mem \in [Frames -> Envs \cup {"zero"}]
    /\ got # NoCopy => got[2] = ViewOf(pt, mem, curenv, got[1])

\* What a step may do to the pages of those that do not run.
Isolated ==
    \A e \in Envs \ {curenv}, v \in Page :
        View(e, v)' = View(e, v) \/ View(e, v)' = e \/ SharedOnPurpose(e, v) \/ e \notin there

\* A store of h: at most its own pages and those shared with it show it.
Stored(h) ==
    /\ CopyTables(pt') /\ mem' \in [Frames -> Envs \cup {"zero"}]
    /\ \A e \in Envs, v \in Page :
          \/ ViewOf(pt', mem', e, v) = ViewOf(pt, mem, e, v)
          \/ e = h /\ ViewOf(pt', mem', e, v) = h
          \/ e # h /\ SharedIn(pt, e, v)
    /\ got' = NoCopy \/ UNCHANGED <<pt, mem, got>>

\* View, in terms of the tables and memory.
LEMMA ViewIs ==
    ASSUME NEW e, NEW v
    PROVE  View(e, v) = ViewOf(pt, mem, e, v) /\ View(e, v)' = ViewOf(pt', mem', e, v)
BY DEF View, ViewOf, Entry

\* A copy to a buffer of h goes to the pages of the buffer, or panics.
LEMMA CopyToStores ==
    ASSUME CopyInv, NEW h \in Envs, NEW buf, FrameLeft, copy_to_user(h, h, buf),
           1 \in DOMAIN buf, \A i \in DOMAIN buf : buf[i] \in Page
    PROVE  Stored(h)
<1>1. PICK p, m, W : p = pt /\ m = mem /\ W = {buf[i] : i \in DOMAIN buf}
  OBVIOUS
<1>2. CopyTables(p) /\ m \in [Frames -> Envs \cup {"zero"}] /\ Frames \ InUse(p) # {}
  BY <1>1 DEF CopyInv, FrameLeft
<1>3. W \in SUBSET Page /\ buf[1] \in W
  BY <1>1
<1>4. PICK t : t = IF p[h][buf[1]] = {} THEN WithFrame(p, h, buf[1], "rw") ELSE p
  OBVIOUS
<1>5. CopyTables(t) /\ OnlyPages(p, t, h, W)
  <2>1. CASE p[h][buf[1]] = {}
    <3>1. t = WithFrame(p, h, buf[1], "rw") /\ buf[1] \in Page /\ "rw" \in Perm
      BY <2>1, <1>3, <1>4 DEF Perm
    <3>2. /\ CopyTables(t) /\ \A x \in t[h][buf[1]] : x.perm = "rw"
          /\ \A d \in Envs, w \in Page : t[d][w] = p[d][w] \/ (d = h /\ w = buf[1])
      BY <3>1, <1>2, FreshFrame
    <3> QED BY <3>2, <1>3 DEF OnlyPages
  <2>2. CASE p[h][buf[1]] # {}
    BY <2>2, <1>2, <1>4 DEF OnlyPages
  <2> QED BY <2>1, <2>2
<1>6. Store(t, h, buf)
  BY <1>1, <1>4 DEF copy_to_user
<1>7. CASE do_kernel_exception
  <2>1. pt' = p /\ mem' = m /\ UNCHANGED <<pt, mem, got>>
    BY <1>1, <1>7 DEF do_kernel_exception
  <2> QED BY <2>1, <1>1, <1>2 DEF Stored
<1>8. CASE ~do_kernel_exception
  <2>1. ~\E v \in W : t[h][v] = {} \/ (\E x \in t[h][v] : ~CanWrite(x))
    BY <1>1, <1>6, <1>8 DEF Store
  <2>2. /\ pt' = t /\ got' = NoCopy
        /\ mem' = [f \in Frames |->
                IF \E i \in DOMAIN buf : \E x \in t[h][buf[i]] : x.frame = f
                  THEN h ELSE m[f]]
    BY <1>1, <2>1, <1>6 DEF Store
  <2>3. Writable(t, h, W)
    BY <2>1 DEF Writable
  <2>4. \A f \in Frames : (\E i \in DOMAIN buf : \E x \in t[h][buf[i]] : x.frame = f)
                      <=> (\E w \in W : \E x \in t[h][w] : x.frame = f)
    BY <1>1
  <2>5. PICK m2 : m2 = Written(m, t, h, W)
    OBVIOUS
  <2>6. mem' = m2
    BY <2>2, <2>4, <2>5 DEF Written
  <2>7. m2 \in [Frames -> Envs \cup {"zero"}]
    BY <2>5, <1>2 DEF Written
  <2>8. ASSUME NEW e \in Envs, NEW v \in Page
        PROVE  \/ ViewOf(t, m2, e, v) = ViewOf(p, m, e, v)
               \/ e = h /\ ViewOf(t, m2, e, v) = h
               \/ e # h /\ SharedIn(p, e, v)
    BY <2>3, <2>5, <1>3, <1>5, StoreIsPrivate
  <2> QED BY <2>2, <2>6, <2>7, <2>8, <1>1, <1>5 DEF Stored
<1> QED BY <1>7, <1>8

\* A store of the running environment, through the exceptions that give it a
\* page of its own.
LEMMA UserStoreStores ==
    ASSUME CopyInv, NEW v \in Page, user_store(v)
    PROVE  Stored(curenv)
<1>1. PICK p, m, h : p = pt /\ m = mem /\ h = curenv
  OBVIOUS
<1>2. /\ CopyTables(p) /\ m \in [Frames -> Envs \cup {"zero"}] /\ Frames \ InUse(p) # {}
      /\ h \in Envs
  BY <1>1 DEF CopyInv, FrameLeft, user_store
<1>3. PICK fault \in BOOLEAN :
         fault <=> (p[h][v] = {} \/ (p[h][v] # {} /\ (CHOOSE x \in p[h][v] : TRUE).perm = "cow"))
  OBVIOUS
<1>4. PICK t : t = IF fault THEN WithFrame(p, h, v, "rw") ELSE p
  OBVIOUS
<1>15. CASE p[h][v] # {} /\ (CHOOSE x \in p[h][v] : TRUE).perm = "ro"
  <2>1. pt' = p /\ mem' = m /\ got' = NoCopy
    BY <1>15, <1>1 DEF user_store, Entry
  <2> QED BY <2>1, <1>1, <1>2 DEF Stored
<1>16. SUFFICES ASSUME ~(p[h][v] # {} /\ (CHOOSE x \in p[h][v] : TRUE).perm = "ro")
                PROVE  Stored(curenv)
  BY <1>15
<1>5. /\ pt' = t /\ got' = NoCopy
      /\ mem' = [m EXCEPT ![(CHOOSE x \in t[h][v] : TRUE).frame] = h]
  BY <1>1, <1>3, <1>4, <1>16 DEF user_store, Entry
<1>6. CopyTables(t) /\ OnlyPages(p, t, h, {v}) /\ Writable(t, h, {v})
  <2>1. CASE fault
    <3>1. t = WithFrame(p, h, v, "rw") /\ "rw" \in Perm
      BY <2>1, <1>4 DEF Perm
    <3>2. /\ CopyTables(t) /\ t[h][v] # {} /\ \A x \in t[h][v] : x.perm = "rw"
          /\ \A d \in Envs, w \in Page : t[d][w] = p[d][w] \/ (d = h /\ w = v)
      BY <3>1, <1>2, FreshFrame
    <3> QED BY <3>2 DEF OnlyPages, Writable, CanWrite
  <2>2. CASE ~fault
    <3>0. PICK x : x = CHOOSE y \in p[h][v] : TRUE
      OBVIOUS
    <3>1. t = p /\ p[h][v] # {} /\ x.perm \notin {"cow", "ro"}
      BY <2>2, <1>3, <1>4, <1>16, <3>0
    <3>2. x \in p[h][v] /\ \A y \in p[h][v] : y = x
      BY <1>2, <3>0, <3>1 DEF CopyTables
    <3>3. x \in PageEntry
      BY <1>2, <3>2 DEF CopyTables
    <3>4. CanWrite(x)
      BY <3>1, <3>3 DEF PageEntry, Perm, CanWrite
    <3> QED BY <3>1, <3>2, <3>4, <1>2 DEF OnlyPages, Writable
  <2> QED BY <2>1, <2>2
<1>7. PICK x : x = CHOOSE y \in t[h][v] : TRUE
  OBVIOUS
<1>8. x \in t[h][v] /\ \A y \in t[h][v] : y = x
  BY <1>2, <1>6, <1>7 DEF CopyTables, Writable
<1>9. PICK m2 : m2 = Written(m, t, h, {v})
  OBVIOUS
<1>10. m2 = [f \in Frames |-> IF f = x.frame THEN h ELSE m[f]]
  BY <1>8, <1>9 DEF Written
<1>11. mem' = m2
  BY <1>2, <1>5, <1>7, <1>10
<1>12. m2 \in [Frames -> Envs \cup {"zero"}]
  BY <1>2, <1>10
<1>13. ASSUME NEW e \in Envs, NEW w \in Page
       PROVE  \/ ViewOf(t, m2, e, w) = ViewOf(p, m, e, w)
              \/ e = h /\ ViewOf(t, m2, e, w) = h
              \/ e # h /\ SharedIn(p, e, w)
  <2>1. {v} \in SUBSET Page
    OBVIOUS
  <2> QED BY <2>1, <1>2, <1>6, <1>9, StoreIsPrivate
<1>14. Stored(h)
  <2>1. CopyTables(pt') /\ mem' \in [Frames -> Envs \cup {"zero"}] /\ got' = NoCopy
    BY <1>5, <1>6, <1>11, <1>12
  <2>2. pt' = t /\ mem' = m2 /\ pt = p /\ mem = m
    BY <1>1, <1>5, <1>11
  <2>3. \A e \in Envs, w \in Page :
           \/ ViewOf(pt', mem', e, w) = ViewOf(pt, mem, e, w)
           \/ e = h /\ ViewOf(pt', mem', e, w) = h
           \/ e # h /\ SharedIn(pt, e, w)
    BY <2>2, <1>13
  <2> QED BY <2>1, <2>3 DEF Stored
<1> QED BY <1>1, <1>14

\* After a store the invariant holds and the others see what they saw.
LEMMA StoredIsolated ==
    ASSUME CopyInv, NEW h \in Envs, Stored(h), UNCHANGED <<there, curenv, cur_pgdir>>,
           satp' = curenv
    PROVE  CopyInv' /\ Isolated
<1>1. CopyInv'
  <2>1. /\ there' \subseteq Envs /\ curenv' \in there' /\ satp' = curenv'
        /\ cur_pgdir' = curenv'
    BY DEF CopyInv
  <2>2. CopyTables(pt)' /\ mem' \in [Frames -> Envs \cup {"zero"}]
    BY DEF Stored
  <2>3. got' # NoCopy => got'[2] = ViewOf(pt', mem', curenv', got'[1])
    BY DEF CopyInv, Stored, NoCopy
  <2> QED BY <2>1, <2>2, <2>3 DEF CopyInv, NoCopy
<1>2. Isolated
  <2>1. \A e, v : SharedIn(pt, e, v) => SharedOnPurpose(e, v)
    BY DEF SharedIn, SharedOnPurpose
  <2> QED BY <2>1, ViewIs DEF Isolated, Stored
<1> QED BY <1>1, <1>2

\* sys_mem_alloc: nobody else sees the fresh page.
LEMMA MemAllocIsolated ==
    ASSUME CopyInv, NEW v \in Page, NEW q \in Perm, sys_mem_alloc(v, q)
    PROVE  CopyInv' /\ Isolated
<1>1. PICK p, m, h, f, t : p = pt /\ m = mem /\ h = curenv /\ f = FreeFrame(p)
                           /\ t = WithFrame(p, h, v, q)
  OBVIOUS
<1>2. /\ CopyTables(p) /\ m \in [Frames -> Envs \cup {"zero"}] /\ Frames \ InUse(p) # {}
      /\ h \in Envs
  BY <1>1 DEF CopyInv, FrameLeft, sys_mem_alloc
<1>3. /\ CopyTables(t) /\ f \in Frames
      /\ \A d \in Envs, w \in Page : t[d][w] = p[d][w] \/ (d = h /\ w = v)
      /\ \A d \in Envs, w \in Page : \A x \in p[d][w] : x.frame # f
  BY <1>1, <1>2, FreshFrame
<1>4. pt' = t /\ mem' = [m EXCEPT ![f] = "zero"] /\ got' = NoCopy
      /\ UNCHANGED <<there, curenv, cur_pgdir, satp>>
  BY <1>1 DEF sys_mem_alloc
<1>5. CopyInv'
  <2>1. mem' \in [Frames -> Envs \cup {"zero"}]
    BY <1>2, <1>4
  <2> QED BY <2>1, <1>3, <1>4 DEF CopyInv, NoCopy
<1>6. Isolated
  <2>1. SUFFICES ASSUME NEW e \in Envs \ {curenv}, NEW w \in Page
                 PROVE  View(e, w)' = View(e, w)
    BY DEF Isolated
  <2>2. t[e][w] = p[e][w]
    BY <2>1, <1>1, <1>3
  <2>3. ViewOf(pt', mem', e, w) = ViewOf(pt, mem, e, w)
    <3>1. CASE p[e][w] = {}
      BY <3>1, <2>2, <1>1, <1>4 DEF ViewOf
    <3>2. CASE p[e][w] # {}
      <4>1. PICK x : x = CHOOSE y \in p[e][w] : TRUE
        OBVIOUS
      <4>2. x \in p[e][w] /\ p[e][w] \in SUBSET PageEntry
        BY <3>2, <4>1, <1>2 DEF CopyTables
      <4>3. x.frame \in Frames /\ x.frame # f
        BY <4>2, <1>3 DEF PageEntry
      <4>4. mem'[x.frame] = m[x.frame]
        BY <4>3, <1>2, <1>4
      <4> QED BY <4>1, <4>4, <3>2, <2>2, <1>1, <1>4 DEF ViewOf
    <3> QED BY <3>1, <3>2
  <2> QED BY <2>3, ViewIs
<1> QED BY <1>5, <1>6

\* A copy from the caller's buffer delivers what the caller sees there.
LEMMA CopyFromSeen ==
    ASSUME CopyInv, NEW buf, copy_from_user(buf), UnchangedRun
    PROVE  CopyInv' /\ Isolated
<1>1. pt' = pt /\ mem' = mem
  BY DEF copy_from_user, do_kernel_exception
<1>2. /\ there' \subseteq Envs /\ curenv' \in there' /\ satp' = curenv'
      /\ cur_pgdir' = curenv' /\ curenv' = curenv /\ satp = curenv
  BY DEF CopyInv, UnchangedRun
<1>3. got' = got \/ got' = <<buf[1], View(satp, buf[1])>>
  BY DEF copy_from_user, do_kernel_exception
<1>6. Isolated
  BY <1>1, ViewIs DEF Isolated
<1>4. CASE got' = got
  BY <1>1, <1>2, <1>4, <1>6 DEF CopyInv, NoCopy
<1>5. CASE got' = <<buf[1], View(satp, buf[1])>>
  <2>1. got'[1] = buf[1] /\ got'[2] = ViewOf(pt, mem, curenv, buf[1])
    BY <1>2, <1>5, ViewIs
  <2>2. got'[2] = ViewOf(pt', mem', curenv', got'[1])
    BY <2>1, <1>1, <1>2
  <2> QED BY <2>2, <1>1, <1>2, <1>6 DEF CopyInv, NoCopy
<1> QED BY <1>3, <1>4, <1>5

\* What duppage makes of an entry: the same frame, and writable only if it is
\* shared on purpose.
LEMMA DuppageIs ==
    ASSUME NEW x \in PageEntry
    PROVE  /\ duppage(x) \in PageEntry /\ duppage(x).frame = x.frame
           /\ CanWrite(duppage(x)) => x.perm = "library"
           /\ x.perm = "library" => duppage(x).perm = "library"
BY DEF duppage, PageEntry, Perm, CanWrite

\* fork: what was private to the parent is shared copy-on-write, and what is
\* shared on purpose stays so.
LEMMA ForkIsolated ==
    ASSUME CopyInv, NEW c \in Envs, fork(c)
    PROVE  CopyInv' /\ Isolated
<1>1. PICK p, h : p = pt /\ h = curenv
  OBVIOUS
<1>2. /\ CopyTables(p) /\ h \in Envs /\ h \in there /\ c \notin there /\ h # c
      /\ p \in [Envs -> [Page -> SUBSET PageEntry]]
  BY <1>1 DEF CopyInv, fork, CopyTables
<1>3. PICK shared : shared = [v \in Page |-> IF v = XSTACK THEN {}
                                  ELSE {duppage(x) : x \in p[h][v]}]
  OBVIOUS
<1>4. PICK t : t = pt'
  OBVIOUS
<1>5. t = [p EXCEPT ![c] = shared, ![h] = [shared EXCEPT ![XSTACK] = p[h][XSTACK]]]
  BY <1>1, <1>3, <1>4 DEF fork
<1>6. /\ t[c] = shared /\ t[h] = [shared EXCEPT ![XSTACK] = p[h][XSTACK]]
      /\ \A e \in Envs \ {c, h} : t[e] = p[e]
      /\ t = [e \in Envs |-> t[e]]
  BY <1>2, <1>5
<1>7. ASSUME NEW v \in Page, NEW x \in p[h][v]
      PROVE  /\ duppage(x) \in PageEntry /\ duppage(x).frame = x.frame
             /\ CanWrite(duppage(x)) => x.perm = "library"
             /\ x.perm = "library" => duppage(x).perm = "library"
  <2>1. x \in PageEntry
    BY <1>2
  <2> QED BY <2>1, DuppageIs
<1>8. shared \in [Page -> SUBSET PageEntry]
  BY <1>3, <1>7
<1>9. t[h] \in [Page -> SUBSET PageEntry]
  <2>1. \A v \in Page : t[h][v] = IF v = XSTACK THEN p[h][v] ELSE shared[v]
    BY <1>6, <1>8
  <2>2. t[h] = [v \in Page |-> t[h][v]]
    BY <1>6, <1>8
  <2> QED BY <2>1, <2>2, <1>2, <1>8
<1>10. t \in [Envs -> [Page -> SUBSET PageEntry]]
  BY <1>2, <1>6, <1>8, <1>9
<1>11. ASSUME NEW v \in Page, NEW y \in shared[v]
       PROVE  v # XSTACK /\ \E x \in p[h][v] : y = duppage(x)
  BY <1>3
<1>12. ASSUME NEW e \in Envs, NEW v \in Page, NEW y \in t[e][v]
       PROVE  \/ y \in p[e][v] /\ e # c /\ (e = h => v = XSTACK)
              \/ y \in shared[v] /\ e \in {c, h} /\ v # XSTACK
  <2>1. CASE e = c
    BY <2>1, <1>6, <1>11
  <2>2. CASE e = h
    <3>1. t[h][v] = IF v = XSTACK THEN p[h][v] ELSE shared[v]
      BY <1>6, <1>8
    <3> QED BY <3>1, <2>2, <1>2
  <2>3. CASE e \notin {c, h}
    BY <2>3, <1>6
  <2> QED BY <2>1, <2>2, <2>3
<1>13. ASSUME NEW e \in Envs, NEW v \in Page, NEW x \in t[e][v], NEW y \in t[e][v]
       PROVE  x = y
  <2>1. CASE x \in p[e][v] /\ y \in p[e][v]
    BY <2>1, <1>2 DEF CopyTables
  <2>2. CASE x \in shared[v] /\ y \in shared[v]
    <3>1. PICK x0 \in p[h][v] : x = duppage(x0)
      BY <2>2, <1>11
    <3>2. PICK y0 \in p[h][v] : y = duppage(y0)
      BY <2>2, <1>11
    <3>3. x0 = y0
      BY <1>2 DEF CopyTables
    <3> QED BY <3>1, <3>2, <3>3
  <2> QED BY <2>1, <2>2, <1>12
<1>14. ASSUME NEW e \in Envs, NEW d \in Envs, NEW v \in Page, NEW w \in Page,
              NEW x \in t[e][v], NEW y \in t[d][w], x.frame = y.frame, CanWrite(x)
       PROVE  (e = d /\ v = w) \/ (x.perm = "library" /\ y.perm = "library")
  <2>0. PICK d0 \in Envs : \E z \in p[d0][w] :
          /\ y.frame = z.frame /\ (z.perm = "library" => y.perm = "library")
          /\ \/ y = z /\ d0 = d /\ (d = h => w = XSTACK)
             \/ d0 = h /\ d \in {c, h} /\ w # XSTACK
    <3>1. CASE y \in p[d][w] /\ d # c /\ (d = h => w = XSTACK)
      BY <3>1
    <3>2. CASE y \in shared[w] /\ d \in {c, h} /\ w # XSTACK
      BY <3>2, <1>2, <1>7, <1>11
    <3> QED BY <3>1, <3>2, <1>12
  <2>3. PICK y0 \in p[d0][w] :
          /\ y.frame = y0.frame /\ (y0.perm = "library" => y.perm = "library")
          /\ \/ y = y0 /\ d0 = d /\ (d = h => w = XSTACK)
             \/ d0 = h /\ d \in {c, h} /\ w # XSTACK
    BY <2>0
  <2>1. CASE x \in p[e][v] /\ e # c /\ (e = h => v = XSTACK)
    <3>1. (e = d0 /\ v = w) \/ (x.perm = "library" /\ y0.perm = "library")
      BY <2>3, <2>1, <1>2, <1>14 DEF CopyTables
    <3> QED BY <3>1, <2>3, <2>1
  <2>2. CASE x \in shared[v] /\ e \in {c, h} /\ v # XSTACK
    <3>1. PICK x0 \in p[h][v] : x = duppage(x0)
      BY <2>2, <1>11
    <3>2. x0.perm = "library" /\ x.perm = "library" /\ x0.frame = x.frame
      BY <3>1, <1>7, <1>14
    <3>3. CanWrite(x0)
      BY <3>2 DEF CanWrite
    <3>4. (h = d0 /\ v = w) \/ y0.perm = "library"
      BY <3>2, <3>3, <2>3, <1>2, <1>14 DEF CopyTables
    <3>5. CASE h = d0 /\ v = w
      <4>1. x0 = y0
        BY <3>5, <1>2, <2>3 DEF CopyTables
      <4> QED BY <4>1, <3>2, <2>3
    <3> QED BY <3>2, <3>4, <3>5, <2>3
  <2> QED BY <2>1, <2>2, <1>12
<1>15. CopyTables(t)
  BY <1>10, <1>13, <1>14 DEF CopyTables
<1>16. CopyInv'
  <2>1. /\ there' = there \cup {c} /\ curenv' = curenv /\ cur_pgdir' = cur_pgdir
        /\ satp' = satp /\ mem' = mem /\ got' = NoCopy
    BY DEF fork
  <2>2. /\ there' \subseteq Envs /\ curenv' \in there' /\ satp' = curenv' /\ cur_pgdir' = curenv'
        /\ mem' \in [Frames -> Envs \cup {"zero"}]
    BY <2>1 DEF CopyInv
  <2> QED BY <2>1, <2>2, <1>4, <1>15 DEF CopyInv, NoCopy
<1>17. Isolated
  <2>1. SUFFICES ASSUME NEW e \in Envs \ {curenv}, NEW v \in Page, e \in there
                 PROVE  View(e, v)' = View(e, v)
    BY DEF Isolated
  <2>2. pt'[e] = pt[e] /\ mem' = mem
    BY <1>1, <1>2, <1>4, <1>6, <2>1 DEF fork
  <2>3. ViewOf(pt', mem', e, v) = ViewOf(pt, mem, e, v)
    BY <2>2 DEF ViewOf
  <2> QED BY <2>3, ViewIs
<1> QED BY <1>16, <1>17

\* A buffer of a system call lies in the pages of user space.
LEMMA BufferPages ==
    ASSUME NEW buf \in Buffer
    PROVE  1 \in DOMAIN buf /\ \A i \in DOMAIN buf : buf[i] \in Page
<1>1. CASE buf \in {<<v>> : v \in Page}
  BY <1>1
<1>2. CASE buf \in {<<v, v + 1>> : v \in 0 .. NPAGE - 3}
  <2>1. PICK v \in 0 .. NPAGE - 3 : buf = <<v, v + 1>>
    BY <1>2
  <2>2. v \in Page /\ v + 1 \in Page
    BY UserCopyAssumption DEF Page
  <2>3. DOMAIN buf = {1, 2} /\ buf[1] = v /\ buf[2] = v + 1
    BY <2>1
  <2> QED BY <2>2, <2>3
<1> QED BY <1>1, <1>2 DEF Buffer

\* A copy of the kernel to a buffer of the caller.
LEMMA KernelWriteIsolated ==
    ASSUME CopyInv, NEW buf \in Buffer, FrameLeft, copy_to_user(curenv, satp, buf), UnchangedRun
    PROVE  CopyInv' /\ Isolated
<1>1. PICK h \in Envs : h = curenv /\ h = satp
  BY DEF CopyInv
<1>2. copy_to_user(h, h, buf)
  BY <1>1
<1>3. Stored(h)
  BY <1>2, BufferPages, CopyToStores
<1>4. UNCHANGED <<there, curenv, cur_pgdir>> /\ satp' = curenv
  BY DEF UnchangedRun, CopyInv
<1> QED BY <1>3, <1>4, StoredIsolated

\* Every step of the copies keeps the invariant and the pages of the others.
LEMMA CopyStep ==
    ASSUME CopyInv, CopyNext
    PROVE  CopyInv' /\ Isolated
<1>1. ASSUME NEW v \in Page, user_store(v) PROVE CopyInv' /\ Isolated
  <2>1. PICK h \in Envs : h = curenv
    BY DEF CopyInv
  <2>2. Stored(h)
    BY <2>1, <1>1, UserStoreStores
  <2>3. UNCHANGED <<there, curenv, cur_pgdir>> /\ satp' = curenv
    BY <1>1 DEF user_store, CopyInv
  <2> QED BY <2>2, <2>3, StoredIsolated
<1>2. ASSUME NEW v \in Page, sys_get_physical_address(v) PROVE CopyInv' /\ Isolated
  <2>1. pt' = pt /\ mem' = mem /\ got' = NoCopy /\ UNCHANGED <<there, curenv, cur_pgdir, satp>>
    BY <1>2 DEF sys_get_physical_address, UnchangedRun
  <2>2. CopyInv'
    BY <2>1 DEF CopyInv, NoCopy
  <2>3. Isolated
    BY <2>1, ViewIs DEF Isolated
  <2> QED BY <2>2, <2>3
<1>3. ASSUME NEW v \in Page, sys_set_trapframe(v) PROVE CopyInv' /\ Isolated
  BY <1>3, CopyFromSeen DEF sys_set_trapframe
<1>4. ASSUME NEW e \in Envs, env_run(e) PROVE CopyInv' /\ Isolated
  <2>1. /\ pt' = pt /\ mem' = mem /\ got' = NoCopy /\ there' = there /\ e \in there
        /\ curenv' = e /\ cur_pgdir' = e /\ satp' = e
    BY <1>4 DEF env_run
  <2>2. CopyInv'
    BY <2>1 DEF CopyInv, NoCopy
  <2>3. Isolated
    BY <2>1, ViewIs DEF Isolated
  <2> QED BY <2>2, <2>3
<1>5. ASSUME NEW e \in Envs, copy_user_space_to_env(e) PROVE CopyInv' /\ Isolated
  <2>1. PICK buf : buf = <<XSTACK>>
    OBVIOUS
  <2>2. 1 \in DOMAIN buf /\ \A i \in DOMAIN buf : buf[i] \in Page
    <3>1. XSTACK \in Page
      BY UserCopyAssumption DEF XSTACK, Page
    <3>2. DOMAIN buf = {1} /\ buf[1] = XSTACK
      BY <2>1
    <3> QED BY <3>1, <3>2
  <2>3. FrameLeft /\ copy_to_user(e, e, buf)
    BY <1>5, <2>1 DEF copy_user_space_to_env
  <2>4. Stored(e)
    BY <2>2, <2>3, CopyToStores
  <2>5. UNCHANGED <<there, curenv, cur_pgdir>> /\ satp' = curenv
    BY <1>5 DEF copy_user_space_to_env, table_after, CopyInv
  <2> QED BY <2>4, <2>5, StoredIsolated
<1>6. ASSUME NEW b \in Buffer, sys_print_cons(b) PROVE CopyInv' /\ Isolated
  BY <1>6, CopyFromSeen DEF sys_print_cons
<1>7. ASSUME NEW b \in Buffer, kernel_writes(b) PROVE CopyInv' /\ Isolated
  BY <1>7, KernelWriteIsolated DEF kernel_writes
<1>8. ASSUME NEW n, NEW b \in Buffer, sys_get_process_list(n, b) PROVE CopyInv' /\ Isolated
  BY <1>8, KernelWriteIsolated DEF sys_get_process_list
<1>9. CASE \E v \in Page : user_store(v) \/ sys_set_trapframe(v)
  BY <1>9, <1>1, <1>3
<1>13. CASE \E v \in Page \cap DmaPages : sys_get_physical_address(v)
  BY <1>13, <1>2
<1>14. CASE \E v \in Page, perm \in Perm \ {"cow"} : sys_mem_alloc(v, perm)
  BY <1>14, MemAllocIsolated
<1>10. CASE \E e \in Envs : fork(e) \/ env_run(e) \/ copy_user_space_to_env(e)
  BY <1>10, <1>4, <1>5, ForkIsolated
<1>11. CASE \E b \in Buffer : sys_print_cons(b) \/ kernel_writes(b)
                               \/ find_process_by_name(b) \/ get_envid(b)
  BY <1>11, <1>6, <1>7, <1>8 DEF find_process_by_name, get_envid
<1>12. CASE \E n \in MaxLens, b \in Buffer : get_process_list(n, b)
  BY <1>12, <1>8 DEF get_process_list
<1> QED BY <1>9, <1>10, <1>11, <1>12, <1>13, <1>14 DEF CopyNext

\* The first environment runs, on empty tables.
LEMMA CopyInitInv == ASSUME CopyInit PROVE CopyInv
<1>1. PICK e \in Envs : there = {e}
  BY DEF CopyInit
<1>2. curenv = e /\ cur_pgdir = e /\ satp = e /\ got = NoCopy
  BY <1>1 DEF CopyInit
<1>3. \A d \in Envs, v \in Page : pt[d][v] = {}
  BY DEF CopyInit
<1>4. CopyTables(pt)
  <2>1. pt \in [Envs -> [Page -> SUBSET PageEntry]]
    BY DEF CopyInit
  <2> QED BY <2>1, <1>3 DEF CopyTables
<1>5. mem \in [Frames -> Envs \cup {"zero"}]
  BY DEF CopyInit
<1> QED BY <1>1, <1>2, <1>4, <1>5 DEF CopyInv, NoCopy

\* The invariant holds after every sequence of copies, forks and switches.
LEMMA CopyInvariant == CopySpec => []CopyInv
<1>1. CopyInv /\ [CopyNext]_copyVars => CopyInv'
  <2> SUFFICES ASSUME CopyInv, [CopyNext]_copyVars PROVE CopyInv'
    OBVIOUS
  <2>1. CASE CopyNext
    BY <2>1, CopyStep
  <2>2. CASE UNCHANGED copyVars
    BY <2>2 DEF copyVars, CopyInv, NoCopy
  <2> QED BY <2>1, <2>2
<1> QED BY <1>1, CopyInitInv, PTL DEF CopySpec

\* For any number of environments and pages: between two copies the processor
\* uses the table of the running environment, and what a system call read is
\* what its caller has there.
THEOREM KernelSeesCallerCorrect == CopySpec => []KernelSeesCaller
<1>1. CopyInv => KernelSeesCaller
  BY ViewIs DEF CopyInv, KernelSeesCaller
<1> QED BY <1>1, CopyInvariant, PTL

\* For any number of environments, pages and frames, no step for one
\* environment changes what another one sees, except on the pages both map
\* with PTE_LIBRARY and that the interrupted environment finds its own frame
\* on its stack.
THEOREM CopiesArePrivateCorrect == CopySpec => CopiesArePrivate
<1>1. CopyInv /\ [CopyNext]_copyVars =>
        [\A e \in Envs \ {curenv}, v \in Page :
            \/ View(e, v)' = View(e, v)
            \/ View(e, v)' = e
            \/ SharedOnPurpose(e, v)
            \/ e \notin there]_copyVars
  BY CopyStep DEF Isolated
<1> QED BY <1>1, CopyInvariant, PTL DEF CopySpec, CopiesArePrivate

-----------------------------------------------------------------------------
(* Division and rounding.                                                   *)

\* Quotient and remainder of a division are the only ones.
LEMMA DivModUnique ==
    ASSUME NEW q \in Int, NEW r \in Int, NEW P \in Nat \ {0}, 0 <= r, r < P
    PROVE  (q * P + r) \div P = q /\ (q * P + r) % P = r
<1>1. PICK a \in Int : a = q * P + r
  OBVIOUS
<1>2. a = P * (a \div P) + (a % P) /\ 0 <= a % P /\ a % P < P /\ a \div P \in Int /\ a % P \in Int
  OBVIOUS
<1> QED BY <1>1, <1>2

\* A division rounded up reaches the number and not a step more.
LEMMA RoundedUp ==
    ASSUME NEW a \in Nat \ {0}, NEW P \in Nat \ {0}
    PROVE  LET c == (a + P - 1) \div P
           IN  c \in Nat \ {0} /\ a <= c * P /\ \A j \in Nat : j < c => j * P < a
<1>1. PICK c \in Int : c = (a + P - 1) \div P
  OBVIOUS
<1>2. PICK r \in Int : a + P - 1 = c * P + r /\ 0 <= r /\ r < P
  BY <1>1
<1>3. c \in Nat \ {0} /\ a <= c * P
  BY <1>2
<1>4. ASSUME NEW j \in Nat, j < c PROVE j * P < a
  <2>1. j * P <= (c - 1) * P
    BY <1>3, <1>4
  <2> QED BY <2>1, <1>2, <1>3
<1> QED BY <1>1, <1>3, <1>4

-----------------------------------------------------------------------------
(* The calls elf_load_seg makes for one segment.                            *)

Segment == [va : Nat, filesz : Nat, memsz : Nat, loadable : BOOLEAN]

HeadCalls(seg) == IF seg.va % PAGE = 0 THEN 0 ELSE 1
FileCalls(seg) == Parts(FileFrom(seg), seg.filesz)
BssCalls(seg) == Parts(BssFrom(seg), seg.memsz)
AllCalls(seg) == HeadCalls(seg) + FileCalls(seg) + BssCalls(seg)

\* The parts reach to the end and none begins behind it.
LEMMA PartsReach ==
    ASSUME NEW a \in Nat, NEW b \in Nat
    PROVE  /\ Parts(a, b) \in Nat
           /\ b <= a + Parts(a, b) * PAGE
           /\ \A j \in Nat : j < Parts(a, b) => a + j * PAGE < b
<1>0. PAGE \in Nat \ {0}
  BY LoaderAssumption
<1>1. CASE a < b
  <2>1. b - a \in Nat \ {0}
    BY <1>1
  <2>2. Parts(a, b) = ((b - a) + PAGE - 1) \div PAGE
    BY <1>1 DEF Parts
  <2> HIDE DEF Parts
  <2>3. Parts(a, b) \in Nat \ {0} /\ b - a <= Parts(a, b) * PAGE
    BY <2>1, <2>2, <1>0, RoundedUp
  <2>4. \A j \in Nat : j < Parts(a, b) => j * PAGE < b - a
    BY <2>1, <2>2, <1>0, RoundedUp
  <2>5. Parts(a, b) * PAGE \in Nat /\ \A j \in Nat : j * PAGE \in Nat
    BY <2>3, <1>0
  <2> QED BY <2>3, <2>4, <2>5
<1>2. CASE ~(a < b)
  BY <1>0, <1>2 DEF Parts
<1> QED BY <1>1, <1>2

\* Division with remainder.
LEMMA DivMod ==
    ASSUME NEW a \in Nat, NEW P \in Nat \ {0}
    PROVE  /\ a \div P \in Nat /\ a % P \in Nat /\ a % P < P
           /\ a = (a \div P) * P + (a % P)
<1>1. a = P * (a \div P) + (a % P) /\ 0 <= a % P /\ a % P < P /\ a \div P \in Int /\ a % P \in Int
  OBVIOUS
<1>2. a \div P \in Nat
  BY <1>1
<1> QED BY <1>1, <1>2

\* One page more.
LEMMA OneMore == ASSUME NEW q \in Int, NEW P \in Int PROVE (q + 1) * P = q * P + P /\ (q + 0) * P = q * P
OBVIOUS

\* What three sequences one after another hold.
LEMMA ThreeParts ==
    ASSUME NEW S, NEW a \in Seq(S), NEW b \in Seq(S), NEW c \in Seq(S)
    PROVE  /\ a \o b \o c \in Seq(S) /\ Len(a \o b \o c) = Len(a) + Len(b) + Len(c)
           /\ \A i \in 1 .. Len(a) : (a \o b \o c)[i] = a[i]
           /\ \A i \in 1 .. Len(b) : (a \o b \o c)[Len(a) + i] = b[i]
           /\ \A i \in 1 .. Len(c) : (a \o b \o c)[Len(a) + Len(b) + i] = c[i]
<1>1. /\ a \o b \in Seq(S) /\ Len(a \o b) = Len(a) + Len(b)
      /\ \A i \in 1 .. Len(a) : (a \o b)[i] = a[i]
      /\ \A i \in 1 .. Len(b) : (a \o b)[Len(a) + i] = b[i]
  OBVIOUS
<1>2. PICK d \in Seq(S) : d = a \o b
  BY <1>1
<1>3. /\ d \o c \in Seq(S) /\ Len(d \o c) = Len(d) + Len(c)
      /\ \A i \in 1 .. Len(d) : (d \o c)[i] = d[i]
      /\ \A i \in 1 .. Len(c) : (d \o c)[Len(d) + i] = c[i]
  OBVIOUS
<1>4. Len(a) \in Nat /\ Len(b) \in Nat /\ Len(c) \in Nat
  OBVIOUS
<1>5. \A i \in 1 .. Len(a) : (a \o b \o c)[i] = a[i]
  BY <1>1, <1>2, <1>3, <1>4
<1>6. \A i \in 1 .. Len(b) : (a \o b \o c)[Len(a) + i] = b[i]
  BY <1>1, <1>2, <1>3, <1>4
<1>7. \A i \in 1 .. Len(c) : (a \o b \o c)[Len(a) + Len(b) + i] = c[i]
  BY <1>1, <1>2, <1>3, <1>4
<1> QED BY <1>1, <1>2, <1>3, <1>4, <1>5, <1>6, <1>7

\* The smaller of two numbers.
LEMMA MinOfTwo ==
    ASSUME NEW a \in Nat, NEW b \in Nat
    PROVE  /\ Min({a, b}) \in Nat /\ Min({a, b}) <= a /\ Min({a, b}) <= b
           /\ Min({a, b}) = a \/ Min({a, b}) = b
<1>1. \E x \in {a, b} : \A y \in {a, b} : x <= y
  <2>1. CASE a <= b
    BY <2>1
  <2>2. CASE ~(a <= b)
    BY <2>2
  <2> QED BY <2>1, <2>2
<1>2. Min({a, b}) \in {a, b} /\ \A y \in {a, b} : Min({a, b}) <= y
  BY <1>1 DEF Min
<1> QED BY <1>2

\* The numbers of calls are natural numbers, and the head ends at a page
\* boundary.
LEMMA SegmentNumbers ==
    ASSUME NEW seg \in Segment
    PROVE  /\ seg.va \in Nat /\ seg.filesz \in Nat /\ seg.memsz \in Nat
           /\ seg.va % PAGE \in Nat /\ seg.va % PAGE < PAGE /\ seg.va \div PAGE \in Nat
           /\ seg.va = (seg.va \div PAGE) * PAGE + (seg.va % PAGE)
           /\ FileFrom(seg) \in Nat /\ HeadCalls(seg) \in {0, 1} /\ FileCalls(seg) \in Nat
           /\ BssFrom(seg) \in Nat /\ BssCalls(seg) \in Nat /\ AllCalls(seg) \in Nat
           /\ seg.va + FileFrom(seg) = (seg.va \div PAGE + HeadCalls(seg)) * PAGE
<1>0. PAGE \in Nat \ {0}
  BY LoaderAssumption
<1>1. seg.va \in Nat /\ seg.filesz \in Nat /\ seg.memsz \in Nat
  BY DEF Segment
<1>2. /\ seg.va % PAGE \in Nat /\ seg.va % PAGE < PAGE /\ seg.va \div PAGE \in Nat
      /\ seg.va = (seg.va \div PAGE) * PAGE + (seg.va % PAGE)
  BY <1>0, <1>1, DivMod
<1>3. FileFrom(seg) \in Nat /\ HeadCalls(seg) \in {0, 1}
  BY <1>0, <1>2 DEF FileFrom, Begin, HeadCalls
<1>4. FileCalls(seg) \in Nat
  BY <1>1, <1>3, PartsReach DEF FileCalls
<1>5. BssFrom(seg) \in Nat
  BY <1>0, <1>3, <1>4 DEF BssFrom, FileCalls
<1>6. BssCalls(seg) \in Nat
  BY <1>1, <1>5, PartsReach DEF BssCalls
<1>7. seg.va + FileFrom(seg) = (seg.va \div PAGE + HeadCalls(seg)) * PAGE
  <2>1. PICK q \in Nat, r \in Nat : q = seg.va \div PAGE /\ r = seg.va % PAGE
    BY <1>2
  <2>2. /\ r < PAGE /\ seg.va = q * PAGE + r
        /\ q * PAGE \in Nat
    <3>1. r < PAGE /\ seg.va = q * PAGE + r
      BY ONLY <1>2, <2>1
    <3>2. q * PAGE \in Nat
      BY <1>0
    <3> QED BY <3>1, <3>2
  <2>3. (q + 1) * PAGE = q * PAGE + PAGE /\ (q + 0) * PAGE = q * PAGE
    BY <1>0, OneMore
  <2>4. CASE r = 0
    BY <2>1, <2>2, <2>3, <2>4 DEF FileFrom, HeadCalls
  <2>5. CASE r # 0
    <3>1. FileFrom(seg) = PAGE - r /\ HeadCalls(seg) = 1
      BY <2>1, <2>5 DEF FileFrom, HeadCalls, Begin
    <3> QED BY <3>1, <2>1, <2>2, <2>3, <1>0
  <2> QED BY <2>4, <2>5
<1>8. AllCalls(seg) \in Nat
  BY <1>3, <1>4, <1>6 DEF AllCalls
<1> QED BY <1>1, <1>2, <1>3, <1>4, <1>5, <1>6, <1>7, <1>8

\* The calls, each by its number: the head, the parts of the file, the rest.
LEMMA CallsAre ==
    ASSUME NEW seg \in Segment
    PROVE  /\ Len(elf_load_seg(seg)) = AllCalls(seg)
           /\ DOMAIN elf_load_seg(seg) = 1 .. AllCalls(seg)
           /\ HeadCalls(seg) = 1 => elf_load_seg(seg)[1] = HeadCall(seg)[1]
           /\ \A j \in 0 .. FileCalls(seg) - 1 :
                 elf_load_seg(seg)[HeadCalls(seg) + j + 1] = FileCall(seg, FileFrom(seg) + j * PAGE)
           /\ \A j \in 0 .. BssCalls(seg) - 1 :
                 elf_load_seg(seg)[HeadCalls(seg) + FileCalls(seg) + j + 1] =
                     BssCall(seg, BssFrom(seg) + j * PAGE)
<1> DEFINE file == [k \in 1 .. FileCalls(seg) |-> FileCall(seg, FileFrom(seg) + (k - 1) * PAGE)]
           bss == [k \in 1 .. BssCalls(seg) |-> BssCall(seg, BssFrom(seg) + (k - 1) * PAGE)]
<1>0. PAGE \in Nat \ {0}
  BY LoaderAssumption
<1>1. elf_load_seg(seg) = HeadCall(seg) \o file \o bss
  <2>1. PICK f : f = PageSteps(FileFrom(seg), seg.filesz)
    OBVIOUS
  <2>2. PICK b : b = PageSteps(BssFrom(seg), seg.memsz)
    OBVIOUS
  <2>3. elf_load_seg(seg) = HeadCall(seg) \o [k \in DOMAIN f |-> FileCall(seg, f[k])]
                                         \o [k \in DOMAIN b |-> BssCall(seg, b[k])]
    BY <2>1, <2>2 DEF elf_load_seg
  <2>4. f = [k \in 1 .. FileCalls(seg) |-> FileFrom(seg) + (k - 1) * PAGE]
    BY <2>1 DEF PageSteps, FileCalls
  <2>5. b = [k \in 1 .. BssCalls(seg) |-> BssFrom(seg) + (k - 1) * PAGE]
    BY <2>2 DEF PageSteps, BssCalls
  <2>6. [k \in DOMAIN f |-> FileCall(seg, f[k])] = file
    BY <2>4
  <2>7. [k \in DOMAIN b |-> BssCall(seg, b[k])] = bss
    BY <2>5
  <2> QED BY <2>3, <2>6, <2>7
<1>2. FileCalls(seg) \in Nat /\ BssCalls(seg) \in Nat
  BY SegmentNumbers
<1>3. HeadCalls(seg) \in {0, 1} /\ Len(HeadCall(seg)) = HeadCalls(seg)
  BY DEF HeadCall, HeadCalls
<1>4. PICK S : S = {HeadCall(seg)[1]} \cup Range(file) \cup Range(bss)
  OBVIOUS
<1>5. file \in Seq(S) /\ Len(file) = FileCalls(seg) /\ bss \in Seq(S) /\ Len(bss) = BssCalls(seg)
  BY <1>2, <1>4 DEF Range
<1>6. HeadCall(seg) \in Seq(S)
  <2>1. PICK c : c = HeadCall(seg)[1]
    OBVIOUS
  <2>2. HeadCall(seg) = <<>> \/ HeadCall(seg) = <<c>>
    BY <2>1 DEF HeadCall
  <2>3. c \in S
    BY <2>1, <1>4
  <2>4. <<>> \in Seq(S) /\ <<c>> \in Seq(S)
    BY <2>3
  <2> QED BY ONLY <2>2, <2>4
<1>7. PICK h \in Seq(S), f \in Seq(S), b \in Seq(S) : h = HeadCall(seg) /\ f = file /\ b = bss
  BY <1>5, <1>6
<1>8. PICK all \in Seq(S) : all = h \o f \o b
  BY ThreeParts
<1>9. /\ Len(h) = HeadCalls(seg) /\ Len(f) = FileCalls(seg) /\ Len(b) = BssCalls(seg)
      /\ elf_load_seg(seg) = all
  BY <1>1, <1>3, <1>5, <1>7, <1>8
<1>10. Len(all) = AllCalls(seg)
  <2>1. Len(all) = Len(h) + Len(f) + Len(b)
    BY <1>8, ThreeParts
  <2> QED BY ONLY <2>1, <1>9 DEF AllCalls
<1>11. DOMAIN all = 1 .. AllCalls(seg)
  BY <1>10
<1>12. HeadCalls(seg) = 1 => all[1] = h[1]
  <2>1. \A i \in 1 .. Len(h) : all[i] = h[i]
    BY <1>8, ThreeParts
  <2> QED BY <2>1, <1>9
<1>13. ASSUME NEW j \in 0 .. FileCalls(seg) - 1
       PROVE  all[HeadCalls(seg) + j + 1] = FileCall(seg, FileFrom(seg) + j * PAGE)
  <2>1. j + 1 \in 1 .. FileCalls(seg) /\ (j + 1) - 1 = j
    BY <1>2
  <2>2. all[HeadCalls(seg) + (j + 1)] = f[j + 1]
    <3>1. \A i \in 1 .. Len(f) : all[Len(h) + i] = f[i]
      BY <1>8, ThreeParts
    <3>2. \A i \in 1 .. FileCalls(seg) : all[HeadCalls(seg) + i] = f[i]
      BY ONLY <3>1, <1>9
    <3> QED BY ONLY <2>1, <3>2
  <2>3. HeadCalls(seg) + (j + 1) = HeadCalls(seg) + j + 1
    BY <1>3, <1>2
  <2>4. f[j + 1] = FileCall(seg, FileFrom(seg) + j * PAGE)
    BY <2>1, <1>7
  <2> QED BY <2>2, <2>3, <2>4
<1>14. ASSUME NEW j \in 0 .. BssCalls(seg) - 1
       PROVE  all[HeadCalls(seg) + FileCalls(seg) + j + 1] = BssCall(seg, BssFrom(seg) + j * PAGE)
  <2>1. j + 1 \in 1 .. BssCalls(seg) /\ (j + 1) - 1 = j
    BY <1>2
  <2>2. all[HeadCalls(seg) + FileCalls(seg) + (j + 1)] = b[j + 1]
    <3>1. \A i \in 1 .. Len(b) : all[Len(h) + Len(f) + i] = b[i]
      BY <1>8, ThreeParts
    <3>2. \A i \in 1 .. BssCalls(seg) : all[HeadCalls(seg) + FileCalls(seg) + i] = b[i]
      BY ONLY <3>1, <1>9
    <3> QED BY ONLY <2>1, <3>2
  <2>3. HeadCalls(seg) + FileCalls(seg) + (j + 1) = HeadCalls(seg) + FileCalls(seg) + j + 1
    BY <1>3, <1>2
  <2>4. b[j + 1] = BssCall(seg, BssFrom(seg) + j * PAGE)
    BY <2>1, <1>7
  <2> QED BY <2>2, <2>3, <2>4
<1> QED BY <1>7, <1>9, <1>10, <1>11, <1>12, <1>13, <1>14

\* The segment's pages: the calls are for consecutive ones, from the first on.
FirstPage(seg) == seg.va \div PAGE
SegPages(seg) == FirstPage(seg) .. (IF seg.memsz = 0 THEN seg.va ELSE seg.va + seg.memsz - 1) \div PAGE

\* Byte i behind the head lies in part j, at r: on page j behind the head's.
LEMMA ByteInPart ==
    ASSUME NEW seg \in Segment, NEW j \in Nat, NEW r \in 0 .. PAGE - 1
    PROVE  /\ (seg.va + (FileFrom(seg) + j * PAGE) + r) \div PAGE =
                 FirstPage(seg) + HeadCalls(seg) + j
           /\ (seg.va + (FileFrom(seg) + j * PAGE) + r) % PAGE = r
<1>0. PAGE \in Nat \ {0}
  BY LoaderAssumption
<1>1. PICK v \in Nat, f \in Nat, q \in Nat, h \in Nat :
           /\ v = seg.va /\ f = FileFrom(seg) /\ q = FirstPage(seg) /\ h = HeadCalls(seg)
           /\ v + f = (q + h) * PAGE
  BY SegmentNumbers DEF FirstPage
<1>2. (q + h + j) * PAGE = (q + h) * PAGE + j * PAGE
  BY <1>0
<1>3. PICK m \in Nat, k \in Nat : m = (q + h) * PAGE /\ k = j * PAGE
  BY <1>0
<1>4. v + (f + j * PAGE) + r = (q + h + j) * PAGE + r
  BY <1>1, <1>2, <1>3
<1>5. r \in Int /\ 0 <= r /\ r < PAGE
  BY <1>0
<1>6. PICK x \in Int : x = q + h + j
  OBVIOUS
<1>7. (x * PAGE + r) \div PAGE = x /\ (x * PAGE + r) % PAGE = r
  BY <1>0, <1>5, DivModUnique
<1>8. seg.va + (FileFrom(seg) + j * PAGE) + r = x * PAGE + r
  BY ONLY <1>1, <1>4, <1>6
<1>9. FirstPage(seg) + HeadCalls(seg) + j = x
  BY ONLY <1>1, <1>6
<1> QED BY ONLY <1>7, <1>8, <1>9

\* The k-th call is for the k-th page of the segment.
LEMMA CallPages ==
    ASSUME NEW seg \in Segment, NEW k \in 1 .. AllCalls(seg)
    PROVE  elf_load_seg(seg)[k].va \div PAGE = FirstPage(seg) + k - 1
<1>0. PAGE \in Nat \ {0}
  BY LoaderAssumption
<1>1. PICK h \in {0, 1}, f \in Nat, b \in Nat, q \in Nat :
          /\ h = HeadCalls(seg) /\ f = FileCalls(seg) /\ b = BssCalls(seg) /\ q = FirstPage(seg)
          /\ AllCalls(seg) = h + f + b
  BY SegmentNumbers DEF AllCalls, FirstPage
<1>2. CASE k <= h
  <2>1. h = 1 /\ k = 1
    BY <1>1, <1>2
  <2>2. elf_load_seg(seg)[k] = HeadCall(seg)[1]
    BY <2>1, <1>1, CallsAre
  <2>3. HeadCall(seg)[1].va = seg.va
    BY <2>1, <1>1 DEF HeadCalls, HeadCall
  <2>4. FirstPage(seg) + k - 1 = FirstPage(seg)
    BY <2>1, <1>1
  <2> QED BY <2>2, <2>3, <2>4 DEF FirstPage
<1>3. CASE k > h
  <2>1. PICK j \in Nat : j = k - h - 1
    BY <1>1, <1>3
  <2>2. elf_load_seg(seg)[k].va = seg.va + (FileFrom(seg) + j * PAGE)
    <3>1. CASE j < f
      <4>1. j \in 0 .. FileCalls(seg) - 1 /\ k = HeadCalls(seg) + j + 1
        BY <2>1, <3>1, <1>1
      <4>2. elf_load_seg(seg)[k] = FileCall(seg, FileFrom(seg) + j * PAGE)
        BY <4>1, CallsAre
      <4> QED BY <4>2 DEF FileCall
    <3>2. CASE j >= f
      <4>1. PICK i \in Nat : i = j - f
        BY <3>2, <1>1
      <4>2. i \in 0 .. BssCalls(seg) - 1 /\ k = HeadCalls(seg) + FileCalls(seg) + i + 1
        BY <4>1, <2>1, <3>2, <1>1
      <4>3. elf_load_seg(seg)[k] = BssCall(seg, BssFrom(seg) + i * PAGE)
        BY <4>2, CallsAre
      <4>4. BssFrom(seg) + i * PAGE = FileFrom(seg) + j * PAGE
        <5>1. f * PAGE + i * PAGE = j * PAGE
          BY <4>1, <1>0, <1>1
        <5>2. BssFrom(seg) = FileFrom(seg) + f * PAGE
          BY <1>1 DEF BssFrom, FileCalls
        <5>3. PICK x \in Nat, y \in Nat, z \in Nat : x = f * PAGE /\ y = i * PAGE /\ z = j * PAGE
          BY <1>0
        <5>4. FileFrom(seg) \in Nat
          BY SegmentNumbers
        <5> QED BY <5>1, <5>2, <5>3, <5>4
      <4> QED BY <4>3, <4>4 DEF BssCall
    <3> QED BY <3>1, <3>2, <1>1, <2>1
  <2>3. seg.va + (FileFrom(seg) + j * PAGE) + 0 = seg.va + (FileFrom(seg) + j * PAGE)
    <3>1. j * PAGE \in Nat /\ FileFrom(seg) \in Nat /\ seg.va \in Nat
      BY <1>0, SegmentNumbers
    <3> QED BY <3>1
  <2>4. elf_load_seg(seg)[k].va \div PAGE = FirstPage(seg) + HeadCalls(seg) + j
    <3>1. 0 \in 0 .. PAGE - 1
      BY <1>0
    <3> QED BY <3>1, <2>2, <2>3, ByteInPart
  <2> QED BY <2>4, <2>1, <1>1
<1> QED BY <1>1, <1>2, <1>3

\* A smaller number has no larger quotient.
LEMMA DivMonotone ==
    ASSUME NEW a \in Nat, NEW b \in Nat, NEW P \in Nat \ {0}, a <= b
    PROVE  a \div P <= b \div P
<1>1. PICK q \in Nat, r \in Nat : q = a \div P /\ r < P /\ a = q * P + r
  BY DivMod
<1>2. PICK u \in Nat, v \in Nat : u = b \div P /\ v < P /\ b = u * P + v
  BY DivMod
<1>3. SUFFICES ASSUME u + 1 <= q PROVE FALSE
  BY <1>1, <1>2
<1>4. (u + 1) * P <= q * P
  BY <1>3
<1>5. (u + 1) * P = u * P + P
  BY OneMore
<1>6. PICK x \in Nat, y \in Nat : x = u * P /\ y = q * P
  OBVIOUS
<1> QED BY <1>1, <1>2, <1>4, <1>5, <1>6

\* All of them are pages of the segment.
LEMMA CallsStayInside ==
    ASSUME NEW seg \in Segment, seg.filesz <= seg.memsz, NEW k \in 1 .. AllCalls(seg)
    PROVE  FirstPage(seg) + k - 1 \in SegPages(seg)
<1>0. PAGE \in Nat \ {0}
  BY LoaderAssumption
<1>1. PICK c \in Nat : c = elf_load_seg(seg)[k].va /\ seg.va <= c
                      /\ c <= (IF seg.memsz = 0 THEN seg.va ELSE seg.va + seg.memsz - 1)
  <2>0. seg.va \in Nat /\ seg.memsz \in Nat /\ seg.filesz \in Nat /\ FileFrom(seg) \in Nat /\ BssFrom(seg) \in Nat
    BY SegmentNumbers
  <2>1. PICK h \in {0, 1}, f \in Nat, b \in Nat :
            /\ h = HeadCalls(seg) /\ f = FileCalls(seg) /\ b = BssCalls(seg)
            /\ AllCalls(seg) = h + f + b
    BY SegmentNumbers DEF AllCalls
  <2>2. CASE k <= h
    <3>1. h = 1 /\ k = 1
      BY <2>1, <2>2
    <3>2. elf_load_seg(seg)[k] = HeadCall(seg)[1]
      BY <3>1, <2>1, CallsAre
    <3>3. HeadCall(seg)[1].va = seg.va
      BY <3>1, <2>1 DEF HeadCalls, HeadCall
    <3> QED BY <3>2, <3>3, <2>0
  <2>3. CASE k > h /\ k <= h + f
    <3>1. PICK j \in Nat : j = k - h - 1
      BY <2>1, <2>3
    <3>2. j \in 0 .. FileCalls(seg) - 1 /\ k = HeadCalls(seg) + j + 1 /\ j < Parts(FileFrom(seg), seg.filesz)
      BY <3>1, <2>3, <2>1 DEF FileCalls
    <3>3. elf_load_seg(seg)[k] = FileCall(seg, FileFrom(seg) + j * PAGE)
      BY <3>2, CallsAre
    <3>4. PICK x \in Nat : x = FileFrom(seg) + j * PAGE
      <4>1. j * PAGE \in Nat
        BY <1>0
      <4> QED BY <4>1, <2>0
    <3>5. x < seg.filesz
      BY <3>2, <3>4, <2>0, PartsReach
    <3>6. elf_load_seg(seg)[k].va = seg.va + x
      BY <3>3, <3>4 DEF FileCall
    <3> QED BY <3>5, <3>6, <2>0
  <2>4. CASE k > h + f
    <3>1. PICK j \in Nat : j = k - h - f - 1
      BY <2>1, <2>4
    <3>2. j \in 0 .. BssCalls(seg) - 1 /\ k = HeadCalls(seg) + FileCalls(seg) + j + 1
          /\ j < Parts(BssFrom(seg), seg.memsz)
      BY <3>1, <2>4, <2>1 DEF BssCalls
    <3>3. elf_load_seg(seg)[k] = BssCall(seg, BssFrom(seg) + j * PAGE)
      BY <3>2, CallsAre
    <3>4. PICK x \in Nat : x = BssFrom(seg) + j * PAGE
      <4>1. j * PAGE \in Nat
        BY <1>0
      <4> QED BY <4>1, <2>0
    <3>5. x < seg.memsz
      BY <3>2, <3>4, <2>0, PartsReach
    <3>6. elf_load_seg(seg)[k].va = seg.va + x
      BY <3>3, <3>4 DEF BssCall
    <3> QED BY <3>5, <3>6, <2>0
  <2> QED BY <2>1, <2>2, <2>3, <2>4
<1>2. PICK e \in Nat : e = IF seg.memsz = 0 THEN seg.va ELSE seg.va + seg.memsz - 1
  BY SegmentNumbers
<1>3. seg.va \div PAGE <= c \div PAGE /\ c \div PAGE <= e \div PAGE
  BY <1>0, <1>1, <1>2, DivMonotone, SegmentNumbers
<1>4. c \div PAGE = FirstPage(seg) + k - 1
  BY <1>1, CallPages
<1>5. c \div PAGE \in Int /\ e \div PAGE \in Int /\ seg.va \div PAGE \in Int
  BY <1>0, <1>1, <1>2, SegmentNumbers
<1> QED BY <1>2, <1>3, <1>4, <1>5 DEF SegPages, FirstPage

\* What the page of a segment holds at an address of the segment.
LEMMA SegmentLoaded ==
    ASSUME NEW seg \in Segment, seg.filesz <= seg.memsz, NEW n,
           NEW i \in Nat, i < seg.memsz
    PROVE  \E k \in 1 .. AllCalls(seg) :
              /\ (seg.va + i) \div PAGE = FirstPage(seg) + k - 1
              /\ (seg.va + i) % PAGE \in 0 .. PAGE - 1
              /\ load_icode_mapper(n, elf_load_seg(seg)[k])[(seg.va + i) % PAGE] =
                     IF i < seg.filesz THEN <<n, i>> ELSE ZeroByte
<1>0. PAGE \in Nat \ {0}
  BY LoaderAssumption
<1>1. PICK v \in Nat, f \in Nat, m \in Nat, o \in Nat, q \in Nat, g \in Nat :
          /\ v = seg.va /\ f = seg.filesz /\ m = seg.memsz /\ o = seg.va % PAGE
          /\ q = FirstPage(seg) /\ g = FileFrom(seg) /\ o < PAGE /\ v = q * PAGE + o
          /\ f <= m /\ i < m
  BY SegmentNumbers DEF FirstPage
<1>2. PICK h \in {0, 1}, fc \in Nat, bc \in Nat :
          /\ h = HeadCalls(seg) /\ fc = FileCalls(seg) /\ bc = BssCalls(seg)
          /\ AllCalls(seg) = h + fc + bc
  BY SegmentNumbers DEF AllCalls
<1>3. CASE i < g
  <2>1. o # 0 /\ g = PAGE - o /\ h = 1
    <3>1. g = IF o = 0 THEN 0 ELSE PAGE - o
      BY <1>1 DEF FileFrom, Begin
    <3>2. h = IF o = 0 THEN 0 ELSE 1
      BY <1>1, <1>2 DEF HeadCalls
    <3> QED BY <3>1, <3>2, <1>3
  <2>2. o + i \in Int /\ 0 <= o + i /\ o + i < PAGE /\ q \in Int
    BY <1>0, <1>1, <1>3, <2>1
  <2>3. PICK r \in Int : r = o + i /\ 0 <= r /\ r < PAGE
    BY <2>2
  <2>4. v + i = q * PAGE + r
    <3>1. PICK y \in Nat : y = q * PAGE
      BY <1>0
    <3>2. v = y + o
      BY <1>1, <3>1
    <3>3. v + i = y + r
      BY <3>2, <2>3
    <3> QED BY <3>1, <3>3
  <2>5. (v + i) \div PAGE = q /\ (v + i) % PAGE = r
    <3>1. (q * PAGE + r) \div PAGE = q /\ (q * PAGE + r) % PAGE = r
      BY <1>0, <2>2, <2>3, DivModUnique
    <3> QED BY ONLY <3>1, <2>4
  <2>6. 1 \in 1 .. AllCalls(seg)
    BY <1>2, <2>1
  <2>7. elf_load_seg(seg)[1] = [va |-> v, offset |-> o, from |-> 0, len |-> Min({f, PAGE - o})]
    <3>1. elf_load_seg(seg)[1] = HeadCall(seg)[1]
      BY <2>1, <1>2, CallsAre
    <3> QED BY <3>1, <2>1, <1>1 DEF HeadCall
  <2>8. PICK l \in Nat : l = Min({f, PAGE - o}) /\ l <= f /\ l <= PAGE - o /\ (l = f \/ l = PAGE - o)
    <3>1. PAGE - o \in Nat
      BY <1>0, <1>1
    <3> QED BY <3>1, MinOfTwo
  <2>9. r \in 0 .. PAGE - 1
    BY <1>0, <2>3
  <2>10. load_icode_mapper(n, elf_load_seg(seg)[1])[r] =
            IF r \in o .. o + l - 1 THEN <<n, 0 + r - o>> ELSE ZeroByte
    BY <2>7, <2>8, <2>9 DEF load_icode_mapper
  <2>11. (r \in o .. o + l - 1) <=> (i < f)
    BY <2>1, <2>3, <2>8, <1>1, <1>3, <1>0
  <2>12. 0 + r - o = i
    BY <2>3, <1>1
  <2>13. FirstPage(seg) + 1 - 1 = q
    BY <1>1
  <2>14. load_icode_mapper(n, elf_load_seg(seg)[1])[r] = IF i < f THEN <<n, i>> ELSE ZeroByte
    BY <2>10, <2>11, <2>12
  <2> QED BY <2>5, <2>6, <2>9, <2>13, <2>14, <1>1
<1>4. CASE i >= g
  <2>1. i - g \in Nat
    BY <1>1, <1>4
  <2>2. PICK j \in Nat, r \in Nat : r < PAGE /\ i - g = j * PAGE + r
    BY <2>1, <1>0, DivMod
  <2>3. PICK x \in Nat : x = j * PAGE /\ i = g + x + r
    <3>1. PICK y \in Nat : y = j * PAGE
      BY <1>0
    <3>2. i - g = y + r
      BY <2>2, <3>1
    <3> QED BY <3>1, <3>2
  <2>4. r \in 0 .. PAGE - 1
    BY <2>2, <1>0
  <2>5. v + i = v + (g + j * PAGE) + r
    BY <2>3, <1>1
  <2>6. (v + i) \div PAGE = q + h + j /\ (v + i) % PAGE = r
    <3>1. /\ (v + (g + j * PAGE) + r) \div PAGE = q + h + j
          /\ (v + (g + j * PAGE) + r) % PAGE = r
      <4>1. /\ (seg.va + (FileFrom(seg) + j * PAGE) + r) \div PAGE =
                   FirstPage(seg) + HeadCalls(seg) + j
            /\ (seg.va + (FileFrom(seg) + j * PAGE) + r) % PAGE = r
        BY <2>4, ByteInPart
      <4> QED BY ONLY <4>1, <1>1, <1>2
    <3> QED BY ONLY <3>1, <2>5
  <2>7. CASE j < fc
    <3>1. j \in 0 .. FileCalls(seg) - 1 /\ h + j + 1 \in 1 .. AllCalls(seg)
      BY <2>7, <1>2
    <3>2. elf_load_seg(seg)[h + j + 1] =
              [va |-> seg.va + (g + x), offset |-> 0, from |-> g + x, len |-> Min({f - (g + x), PAGE})]
      BY <3>1, <1>1, <1>2, <2>3, CallsAre DEF FileCall
    <3>3. g + x < f
      BY <2>7, <2>3, <1>1, <1>2, PartsReach DEF FileCalls
    <3>4. PICK l \in Nat : l = Min({f - (g + x), PAGE}) /\ l <= f - (g + x) /\ l <= PAGE
                          /\ (l = f - (g + x) \/ l = PAGE)
      <4>1. f - (g + x) \in Nat
        BY <3>3, <1>1
      <4> QED BY <4>1, <1>0, MinOfTwo
    <3>5. load_icode_mapper(n, elf_load_seg(seg)[h + j + 1])[r] =
              IF r \in 0 .. 0 + l - 1 THEN <<n, (g + x) + r - 0>> ELSE ZeroByte
      <4>1. g + x >= 0
        BY <1>1, <2>3
      <4> QED BY <3>2, <3>4, <2>4, <4>1 DEF load_icode_mapper
    <3>6. (r \in 0 .. 0 + l - 1) <=> (i < f)
      BY <3>4, <2>3, <2>2, <1>1, <1>0
    <3>7. (g + x) + r - 0 = i
      BY <2>3, <1>1
    <3>8. q + h + j = q + (h + j + 1) - 1
      BY <1>1, <1>2
    <3>9. load_icode_mapper(n, elf_load_seg(seg)[h + j + 1])[r] = IF i < f THEN <<n, i>> ELSE ZeroByte
      BY <3>5, <3>6, <3>7
    <3> QED BY <2>6, <2>4, <3>1, <3>8, <3>9, <1>1
  <2>8. CASE j >= fc
    <3>1. PICK k \in Nat : k = j - fc
      BY <2>8, <1>2
    <3>2. BssFrom(seg) = g + fc * PAGE /\ fc * PAGE \in Nat /\ k * PAGE \in Nat /\ bc * PAGE \in Nat
      BY <1>0, <1>1, <1>2 DEF BssFrom, FileCalls
    <3>3. x = fc * PAGE + k * PAGE
      BY <3>1, <2>3, <1>0, <1>2
    <3>4. f <= g + fc * PAGE
      BY <1>1, <1>2, PartsReach DEF FileCalls
    <3>5. m <= (g + fc * PAGE) + bc * PAGE
      <4>1. g + fc * PAGE \in Nat
        BY <3>2, <1>1
      <4> QED BY <4>1, <3>2, <1>1, <1>2, PartsReach DEF BssCalls
    <3>6. k * PAGE < bc * PAGE
      BY <3>2, <3>3, <3>5, <2>3, <1>1
    <3>7. k < bc
      <4>1. SUFFICES ASSUME bc <= k PROVE FALSE
        BY <1>2
      <4>2. bc * PAGE <= k * PAGE
        BY <4>1, <1>0
      <4> QED BY <4>2, <3>2, <3>6
    <3>8. k \in 0 .. BssCalls(seg) - 1 /\ h + j + 1 \in 1 .. AllCalls(seg)
          /\ h + j + 1 = HeadCalls(seg) + FileCalls(seg) + k + 1
      BY <3>7, <3>1, <1>2, <2>8
    <3>9. elf_load_seg(seg)[h + j + 1].from = -1
      <4>1. elf_load_seg(seg)[h + j + 1] = BssCall(seg, BssFrom(seg) + k * PAGE)
        BY <3>8, CallsAre
      <4> QED BY <4>1 DEF BssCall
    <3>10. load_icode_mapper(n, elf_load_seg(seg)[h + j + 1])[r] = ZeroByte
      BY <3>9, <2>4 DEF load_icode_mapper
    <3>11. ~(i < f)
      BY <3>2, <3>3, <3>4, <2>3, <1>1
    <3>12. q + h + j = q + (h + j + 1) - 1
      BY <1>1, <1>2
    <3> QED BY <2>6, <2>4, <3>8, <3>10, <3>11, <3>12, <1>1
  <2> QED BY <2>7, <2>8, <1>2
<1> QED BY <1>1, <1>3, <1>4

-----------------------------------------------------------------------------
(* The pages of several segments.                                           *)

LoadSpec == LoadInit(Images, FreePages) /\ [][load_icode]_loadVars

\* What elf_load_seg and load_icode_mapper require of the image: a segment's
\* file part fits its memory, and no page belongs to two segments.
ImageOk(im) ==
    /\ im \in Seq(Segment)
    /\ \A n \in 1 .. Len(im) : im[n].filesz <= im[n].memsz
    /\ \A n, k \in 1 .. Len(im) :
          n # k /\ im[n].loadable /\ im[k].loadable => SegPages(im[n]) \cap SegPages(im[k]) = {}

ImagesOk == \A im \in Images : ImageOk(im)

\* The bytes of segment n are in place.
Loaded(n) == \A i \in 0 .. image[n].memsz - 1 :
    ByteAt(image[n].va + i) = {IF i < image[n].filesz THEN <<n, i>> ELSE ZeroByte}

LoadInv ==
    /\ ImageOk(image) /\ next \in 1 .. Len(image) + 1
    /\ ended = "loaded" => next = Len(image) + 1
    /\ \A n \in 1 .. next - 1 : image[n].loadable => Loaded(n)

\* The greatest of a set with one element.
LEMMA MaxOfOne == ASSUME NEW k \in Int PROVE Max({k}) = k
BY DEF Max

\* page_insert_all puts the page of call k where the call says.
LEMMA InsertedAt ==
    ASSUME NEW seg \in Segment, NEW n, NEW space, NEW k \in 1 .. AllCalls(seg)
    PROVE  /\ FirstPage(seg) + k - 1 \in DOMAIN page_insert_all(space, n, elf_load_seg(seg))
           /\ page_insert_all(space, n, elf_load_seg(seg))[FirstPage(seg) + k - 1] =
                 load_icode_mapper(n, elf_load_seg(seg)[k])
<1>1. PICK calls : calls = elf_load_seg(seg)
  OBVIOUS
<1>2. DOMAIN calls = 1 .. AllCalls(seg) /\ AllCalls(seg) \in Nat /\ FirstPage(seg) \in Nat
  BY <1>1, CallsAre, SegmentNumbers DEF FirstPage
<1>3. \A j \in 1 .. AllCalls(seg) : calls[j].va \div PAGE = FirstPage(seg) + j - 1
  BY <1>1, CallPages
<1>4. PICK v \in Int : v = FirstPage(seg) + k - 1
  BY <1>2
<1>5. {j \in DOMAIN calls : calls[j].va \div PAGE = v} = {k}
  BY <1>2, <1>3, <1>4
<1>6. v \in DOMAIN space \cup {calls[j].va \div PAGE : j \in DOMAIN calls}
  BY <1>2, <1>3, <1>4
<1>7. Max({k}) = k
  BY MaxOfOne
<1>8. /\ v \in DOMAIN page_insert_all(space, n, calls)
      /\ page_insert_all(space, n, calls)[v] = load_icode_mapper(n, calls[k])
  BY <1>5, <1>6, <1>7 DEF page_insert_all
<1> QED BY <1>1, <1>4, <1>8

\* Pages of other segments keep what they hold.
LEMMA InsertedElsewhere ==
    ASSUME NEW seg \in Segment, seg.filesz <= seg.memsz, NEW n, NEW space,
           NEW v, v \notin SegPages(seg)
    PROVE  /\ v \in DOMAIN page_insert_all(space, n, elf_load_seg(seg)) <=> v \in DOMAIN space
           /\ v \in DOMAIN space => page_insert_all(space, n, elf_load_seg(seg))[v] = space[v]
<1>1. PICK calls : calls = elf_load_seg(seg)
  OBVIOUS
<1>2. DOMAIN calls = 1 .. AllCalls(seg)
  BY <1>1, CallsAre
<1>3. \A j \in DOMAIN calls : calls[j].va \div PAGE \in SegPages(seg)
  BY <1>1, <1>2, CallPages, CallsStayInside
<1>4. \A j \in DOMAIN calls : calls[j].va \div PAGE # v
  BY <1>3
<1>5. {j \in DOMAIN calls : calls[j].va \div PAGE = v} = {}
  BY <1>4
<1>6. v \notin {calls[j].va \div PAGE : j \in DOMAIN calls}
  BY <1>4
<1>7. /\ v \in DOMAIN page_insert_all(space, n, calls) <=> v \in DOMAIN space
      /\ v \in DOMAIN space => page_insert_all(space, n, calls)[v] = space[v]
  BY <1>5, <1>6 DEF page_insert_all
<1> QED BY <1>1, <1>7

\* The addresses of a segment lie on its pages.
LEMMA AddressOnPage ==
    ASSUME NEW seg \in Segment, NEW i \in Nat, i < seg.memsz
    PROVE  (seg.va + i) \div PAGE \in SegPages(seg)
<1>0. PAGE \in Nat \ {0}
  BY LoaderAssumption
<1>1. PICK v \in Nat, m \in Nat : v = seg.va /\ m = seg.memsz
  BY SegmentNumbers
<1>2. v + i \in Nat /\ v + m - 1 \in Nat /\ v <= v + i /\ v + i <= v + m - 1 /\ m # 0
  BY <1>1
<1>3. v \div PAGE <= (v + i) \div PAGE /\ (v + i) \div PAGE <= (v + m - 1) \div PAGE
  BY <1>0, <1>2, DivMonotone
<1>4. v \div PAGE \in Int /\ (v + i) \div PAGE \in Int /\ (v + m - 1) \div PAGE \in Int
  BY <1>0, <1>2
<1>5. SegPages(seg) = v \div PAGE .. (v + m - 1) \div PAGE
  BY <1>1, <1>2 DEF SegPages, FirstPage
<1>6. (v + i) \div PAGE \in v \div PAGE .. (v + m - 1) \div PAGE
  BY <1>3, <1>4
<1> QED BY <1>1, <1>5, <1>6

\* One program header.
LEMMA LoadStep == ASSUME LoadInv, load_icode PROVE LoadInv'
<1> USE DEF LoadInv
<1>1. image' = image /\ ImageOk(image) /\ Len(image) \in Nat /\ next \in Nat
  <2>1. image' = image
    BY DEF load_icode
  <2>2. ImageOk(image) /\ next \in 1 .. Len(image) + 1
    OBVIOUS
  <2>3. image \in Seq(Segment)
    BY <2>2 DEF ImageOk
  <2>4. Len(image) \in Nat
    BY ONLY <2>3
  <2> QED BY ONLY <2>1, <2>2, <2>4
<1>0. CASE ~elf_from
  <2>1. next' = next /\ as' = as /\ ended' = "panic"
    BY <1>0 DEF load_icode
  <2> QED BY <2>1, <1>1 DEF Loaded, ByteAt
<1>2. CASE elf_from /\ next > Len(image)
  <2>1. next' = next /\ as' = as /\ ended' = "loaded" /\ next = Len(image) + 1
    BY <1>1, <1>2 DEF load_icode
  <2> QED BY <2>1, <1>1 DEF Loaded, ByteAt
<1>3. CASE elf_from /\ ~(next > Len(image)) /\ ~image[next].loadable
  <2>1. next' = next + 1 /\ as' = as /\ ended' = ended /\ ended = "loading"
    BY ONLY load_icode, <1>3, Zenon DEF load_icode
  <2>2. next \in 1 .. Len(image)
    BY <1>1, <1>3
  <2>3. next' - 1 = next /\ next' \in 1 .. Len(image) + 1
    BY <1>1, <2>1, <2>2
  <2>4. \A n \in 1 .. next' - 1 : image[n].loadable => n \in 1 .. next - 1
    <3>1. ASSUME NEW n \in 1 .. next' - 1, image[n].loadable PROVE n \in 1 .. next - 1
      <4>1. n # next
        BY <1>3, <3>1, Zenon
      <4>2. n \in 1 .. next
        BY <2>3
      <4> QED BY <4>1, <4>2, <1>1
    <3> QED BY <3>1, Zenon
  <2>5. \A n \in 1 .. next' - 1 : image[n].loadable => Loaded(n)'
    BY <1>1, <2>1, <2>4 DEF Loaded, ByteAt
  <2> QED BY <1>1, <2>1, <2>3, <2>5
<1>4. CASE /\ elf_from /\ ~(next > Len(image)) /\ image[next].loadable
           /\ Taken(as, elf_load_seg(image[next])) > left
  <2>1. next' = next /\ as' = as /\ ended' = "panic"
    BY ONLY load_icode, <1>4, Zenon DEF load_icode
  <2> QED BY <2>1, <1>1 DEF Loaded, ByteAt
<1>5. CASE /\ elf_from /\ ~(next > Len(image)) /\ image[next].loadable
           /\ ~(Taken(as, elf_load_seg(image[next])) > left)
  <2>0. PICK seg \in Segment : seg = image[next] /\ seg.filesz <= seg.memsz
    BY <1>1, <1>5 DEF ImageOk
  <2>1. /\ next' = next + 1 /\ ended' = "loading" /\ next \in 1 .. Len(image)
        /\ as' = page_insert_all(as, next, elf_load_seg(seg))
    <3>1. next' = next + 1 /\ ended' = ended /\ ended = "loading"
          /\ as' = page_insert_all(as, next, elf_load_seg(image[next]))
      BY ONLY load_icode, <1>5, Zenon DEF load_icode
    <3>2. next \in 1 .. Len(image)
      BY <1>1, <1>5
    <3> QED BY <3>1, <3>2, <2>0
  <2>2. ASSUME NEW n \in 1 .. next' - 1, image[n].loadable
        PROVE  Loaded(n)'
    <3>1. n \in 1 .. next /\ n \in 1 .. Len(image) /\ image[n] \in Segment
      BY <1>1, <2>1 DEF ImageOk
    <3>2. SUFFICES ASSUME NEW i \in 0 .. image[n].memsz - 1, NEW a, a = image[n].va + i
                   PROVE  ByteAt(a)' = {IF i < image[n].filesz THEN <<n, i>> ELSE ZeroByte}
      BY <1>1 DEF Loaded, ByteAt
    <3>3. i \in Nat /\ i < image[n].memsz
      <4>1. image[n].memsz \in Nat
        BY <3>1 DEF Segment
      <4> QED BY ONLY <4>1, i \in 0 .. image[n].memsz - 1
    <3>4. a = image[n].va + i
      BY <3>2
    <3>5. CASE n = next
      <4>1. PICK k \in 1 .. AllCalls(seg) :
              /\ a \div PAGE = FirstPage(seg) + k - 1
              /\ load_icode_mapper(next, elf_load_seg(seg)[k])[a % PAGE] =
                     IF i < seg.filesz THEN <<next, i>> ELSE ZeroByte
        BY <3>3, <3>4, <3>5, <2>0, SegmentLoaded, SMTT(30)
      <4>2. a \div PAGE \in DOMAIN as' /\ as'[a \div PAGE] = load_icode_mapper(next, elf_load_seg(seg)[k])
        BY <4>1, <2>1, InsertedAt
      <4>3. ByteAt(a)' = {IF i < seg.filesz THEN <<next, i>> ELSE ZeroByte}
        BY <4>1, <4>2 DEF ByteAt
      <4> QED BY <4>3, <3>4, <3>5, <2>0
    <3>6. CASE n # next
      <4>1. n \in 1 .. next - 1
        BY <3>1, <3>6, <1>1
      <4>2. ByteAt(a) = {IF i < image[n].filesz THEN <<n, i>> ELSE ZeroByte}
        BY <4>1, <3>4, <2>2 DEF Loaded
      <4>3. a \div PAGE \in SegPages(image[n])
        BY <3>1, <3>3, <3>4, AddressOnPage
      <4>4. a \div PAGE \notin SegPages(seg)
        BY <4>3, <3>1, <3>6, <2>0, <2>1, <2>2, <1>1, <1>5 DEF ImageOk
      <4>5. /\ a \div PAGE \in DOMAIN as' <=> a \div PAGE \in DOMAIN as
            /\ a \div PAGE \in DOMAIN as => as'[a \div PAGE] = as[a \div PAGE]
        <5>1. PICK b : b = a \div PAGE
          OBVIOUS
        <5>2. /\ b \in DOMAIN page_insert_all(as, next, elf_load_seg(seg)) <=> b \in DOMAIN as
              /\ b \in DOMAIN as => page_insert_all(as, next, elf_load_seg(seg))[b] = as[b]
          <6>1. b \notin SegPages(seg) /\ seg.filesz <= seg.memsz
            BY <5>1, <4>4, <2>0
          <6>2. PICK sp, m : sp = as /\ m = next
            OBVIOUS
          <6>3. /\ b \in DOMAIN page_insert_all(sp, m, elf_load_seg(seg)) <=> b \in DOMAIN sp
                /\ b \in DOMAIN sp => page_insert_all(sp, m, elf_load_seg(seg))[b] = sp[b]
            BY ONLY <6>1, seg \in Segment, InsertedElsewhere
          <6> QED BY ONLY <6>2, <6>3
        <5> QED BY <5>1, <5>2, <2>1
      <4>6. ByteAt(a)' = ByteAt(a)
        BY <4>5 DEF ByteAt
      <4> QED BY <4>2, <4>6, <3>4
    <3> QED BY <3>5, <3>6
  <2> QED BY <2>1, <2>2, <1>1
<1> QED BY <1>0, <1>1, <1>2, <1>3, <1>4, <1>5

\* Where the pages of a program's segments are apart, every byte of its file is
\* where its segment says and the rest of its memory is zero, for pages of any
\* size and segments of any alignment and length.
THEOREM LoadedExactCorrect == ImagesOk => (LoadSpec => []LoadedExact)
<1>1. ASSUME ImagesOk, LoadInit(Images, FreePages) PROVE LoadInv
  <2>1. image \in Images /\ next = 1 /\ ended = "loading"
    BY <1>1 DEF LoadInit
  <2>2. ImageOk(image)
    BY <1>1, <2>1 DEF ImagesOk
  <2>3. Len(image) \in Nat
    BY <2>2 DEF ImageOk
  <2> QED BY <2>1, <2>2, <2>3 DEF LoadInv
<1>2. LoadInv /\ [load_icode]_loadVars => LoadInv'
  <2>1. CASE load_icode
    BY <2>1, LoadStep
  <2>2. CASE UNCHANGED loadVars
    BY <2>2 DEF loadVars, LoadInv, Loaded, ByteAt
  <2> QED BY <2>1, <2>2
<1>3. LoadInv => LoadedExact
  <2>1. SUFFICES ASSUME LoadInv, ended = "loaded" PROVE \A n \in DOMAIN image : image[n].loadable => Loaded(n)
    BY DEF LoadedExact, Loaded
  <2>2. DOMAIN image = 1 .. Len(image) /\ Len(image) \in Nat
    BY <2>1 DEF LoadInv, ImageOk
  <2> QED BY <2>1, <2>2 DEF LoadInv
<1>4. SUFFICES ASSUME ImagesOk PROVE LoadSpec => []LoadedExact
  OBVIOUS
<1> QED BY <1>1, <1>2, <1>3, <1>4, PTL DEF LoadSpec

-----------------------------------------------------------------------------
(* The stores of memcpy and memset.                                         *)

WordStore == [at : Nat, size : Nat \ {0}]

\* The stores of st that write byte b.
Writes(st, b) == {i \in 1 .. Len(st) : b \in st[i].at .. st[i].at + st[i].size - 1}

\* Each of the bytes 0 .. p - 1 is written once and no other is.
Exact(st, p) ==
    /\ st \in Seq(WordStore)
    /\ \A i \in 1 .. Len(st) : st[i].at + st[i].size <= p
    /\ \A b \in 0 .. p - 1 : \E i \in 1 .. Len(st) : Writes(st, b) = {i}

\* Every store is aligned, for a buffer that begins at a.
Aligned(a, st) == \A i \in 1 .. Len(st) : (a + st[i].at) % st[i].size = 0

\* The words themselves.
LEMMA WordsAre ==
    ASSUME NEW p \in Nat, NEW w \in Nat \ {0}, NEW c \in Nat
    PROVE  /\ Words(p, w, c) \in Seq(WordStore) /\ Len(Words(p, w, c)) = c
           /\ \A i \in 1 .. c : /\ Words(p, w, c)[i].at = p + (i - 1) * w
                                /\ Words(p, w, c)[i].size = w
<1>1. \A i \in 1 .. c : p + (i - 1) * w \in Nat
  <2>1. SUFFICES ASSUME NEW i \in 1 .. c PROVE p + (i - 1) * w \in Nat
    OBVIOUS
  <2>2. PICK k \in Nat : k = i - 1
    OBVIOUS
  <2>3. k * w \in Nat
    OBVIOUS
  <2> QED BY <2>2, <2>3
<1>2. \A i \in 1 .. c : [at |-> p + (i - 1) * w, size |-> w] \in WordStore
  BY <1>1 DEF WordStore
<1>3. Words(p, w, c) = [i \in 1 .. c |-> [at |-> p + (i - 1) * w, size |-> w]]
  BY DEF Words
<1>4. \A i \in 1 .. c : Words(p, w, c)[i] = [at |-> p + (i - 1) * w, size |-> w]
  BY <1>3
<1>5. Words(p, w, c) \in [1 .. c -> WordStore]
  BY <1>2, <1>3
<1>6. Words(p, w, c) \in Seq(WordStore) /\ Len(Words(p, w, c)) = c
  BY <1>5
<1> QED BY <1>4, <1>6

\* One of them.
LEMMA WordIs ==
    ASSUME NEW p, NEW w, NEW c, NEW i \in 1 .. c
    PROVE  Words(p, w, c)[i].at = p + (i - 1) * w /\ Words(p, w, c)[i].size = w
BY DEF Words

\* A run of words writes each byte of its range once.
LEMMA WordOf ==
    ASSUME NEW p \in Nat, NEW w \in Nat \ {0}, NEW c \in Nat, NEW b \in Nat, p <= b, b < p + w * c
    PROVE  \E i \in 1 .. c : Writes(Words(p, w, c), b) = {i}
<1>1. b - p \in Nat
  OBVIOUS
<1>2. PICK q \in Nat, r \in Nat : r < w /\ b - p = q * w + r
  BY <1>1, DivMod
<1>3. PICK x \in Nat, y \in Nat : x = q * w /\ y = w * c /\ b = p + x + r /\ x + r < y
  <2>1. PICK x \in Nat, y \in Nat : x = q * w /\ y = w * c
    OBVIOUS
  <2>2. b - p = x + r
    BY <1>2, <2>1
  <2>3. b < p + y
    BY <2>1
  <2> QED BY <2>1, <2>2, <2>3
<1>4. q < c
  <2>1. SUFFICES ASSUME c <= q PROVE FALSE
    OBVIOUS
  <2>2. w * c <= q * w
    BY <2>1
  <2> QED BY <2>2, <1>3
<1>5. PICK k \in 1 .. c : k = q + 1
  BY <1>4
<1>6. Writes(Words(p, w, c), b) = {i \in 1 .. c : b \in p + (i - 1) * w .. p + (i - 1) * w + w - 1}
  <2>1. \A i \in 1 .. c : /\ Words(p, w, c)[i].at = p + (i - 1) * w
                           /\ Words(p, w, c)[i].size = w
    <3>1. ASSUME NEW i \in 1 .. c
          PROVE  Words(p, w, c)[i].at = p + (i - 1) * w /\ Words(p, w, c)[i].size = w
      BY WordIs
    <3> QED BY <3>1
  <2>2. Len(Words(p, w, c)) = c
    BY WordsAre
  <2>3. Writes(Words(p, w, c), b) = {i \in 1 .. c :
            b \in Words(p, w, c)[i].at .. Words(p, w, c)[i].at + Words(p, w, c)[i].size - 1}
    BY <2>2 DEF Writes
  <2> QED BY ONLY <2>1, <2>3
<1>7. ASSUME NEW i \in 1 .. c PROVE b \in p + (i - 1) * w .. p + (i - 1) * w + w - 1 <=> i = k
  <2>1. PICK j \in Nat : j = i - 1
    OBVIOUS
  <2>2. PICK z \in Nat : z = j * w
    OBVIOUS
  <2>3. b \in p + (i - 1) * w .. p + (i - 1) * w + w - 1 <=> z <= x + r /\ x + r < z + w
    BY <1>3, <2>1, <2>2
  <2>4. CASE j = q
    BY <2>1, <2>2, <2>3, <2>4, <1>2, <1>3, <1>5
  <2>5. CASE j < q
    <3>1. (j + 1) * w <= q * w
      BY <2>5
    <3>2. (j + 1) * w = z + w
      BY <2>2
    <3> QED BY <3>1, <3>2, <2>1, <2>3, <2>5, <1>2, <1>3, <1>5
  <2>6. CASE q < j
    <3>1. (q + 1) * w <= j * w
      BY <2>6
    <3>2. (q + 1) * w = x + w
      BY <1>3
    <3> QED BY <3>1, <3>2, <2>1, <2>2, <2>3, <2>6, <1>2, <1>3, <1>5
  <2> QED BY <2>4, <2>5, <2>6
<1>8. Writes(Words(p, w, c), b) = {k}
  BY <1>6, <1>7
<1> QED BY <1>8

\* Where a run of words ends.
LEMMA WordEnds ==
    ASSUME NEW p \in Nat, NEW w \in Nat \ {0}, NEW c \in Nat, NEW i \in 1 .. c
    PROVE  /\ p <= Words(p, w, c)[i].at
           /\ Words(p, w, c)[i].at + Words(p, w, c)[i].size <= p + w * c
<1>1. PICK j \in Nat : j = i - 1 /\ j + 1 <= c
  OBVIOUS
<1>2. PICK z \in Nat : z = j * w
  OBVIOUS
<1>3. (j + 1) * w <= c * w
  BY <1>1
<1>4. (j + 1) * w = z + w /\ c * w = w * c
  BY <1>2
<1>5. Words(p, w, c)[i].at = p + z /\ Words(p, w, c)[i].size = w
  <2>1. Words(p, w, c)[i].at = p + (i - 1) * w /\ Words(p, w, c)[i].size = w
    BY WordsAre
  <2> QED BY ONLY <1>1, <1>2, <2>1
<1>6. w * c \in Nat
  OBVIOUS
<1> QED BY <1>3, <1>4, <1>5, <1>6

\* Stores that follow others without a gap.
LEMMA ExactAppend ==
    ASSUME NEW st, NEW p \in Nat, Exact(st, p), NEW w \in Nat \ {0}, NEW c \in Nat
    PROVE  p + w * c \in Nat /\ Exact(st \o Words(p, w, c), p + w * c)
<1>1. PICK ws \in Seq(WordStore) : ws = Words(p, w, c) /\ Len(ws) = c
  BY WordsAre
<1>2. st \in Seq(WordStore) /\ Len(st) \in Nat
  BY DEF Exact
<1>3. PICK e \in Nat : e = p + w * c /\ p <= e
  OBVIOUS
<1>4. PICK l \in Nat : l = Len(st)
  BY <1>2
<1>5. PICK all \in Seq(WordStore) :
          /\ all = st \o ws /\ Len(all) = l + c
          /\ \A i \in 1 .. l : all[i] = st[i]
          /\ \A i \in 1 .. c : all[l + i] = ws[i]
  <2>1. /\ st \o ws \in Seq(WordStore) /\ Len(st \o ws) = Len(st) + Len(ws)
        /\ \A i \in 1 .. Len(st) : (st \o ws)[i] = st[i]
        /\ \A i \in 1 .. Len(ws) : (st \o ws)[Len(st) + i] = ws[i]
    BY <1>2
  <2> QED BY <2>1, <1>1, <1>4
<1>6. \A i \in 1 .. c : p <= ws[i].at /\ ws[i].at + ws[i].size <= e
  BY <1>1, <1>3, WordEnds
<1>7. \A i \in 1 .. l : st[i].at + st[i].size <= p
  BY <1>4 DEF Exact
<1>8. /\ \A i \in 1 .. l : st[i].at \in Nat /\ st[i].size \in Nat
      /\ \A i \in 1 .. c : ws[i].at \in Nat /\ ws[i].size \in Nat
  <2>1. /\ \A i \in 1 .. l : st[i] \in WordStore
        /\ \A i \in 1 .. c : ws[i] \in WordStore
    BY <1>1, <1>2, <1>4
  <2> QED BY <2>1 DEF WordStore
<1>9. \A i \in 1 .. l + c : i \in 1 .. l \/ \E k \in 1 .. c : i = l + k
  <2>1. SUFFICES ASSUME NEW i \in 1 .. l + c, i \notin 1 .. l PROVE \E k \in 1 .. c : i = l + k
    OBVIOUS
  <2>2. i - l \in 1 .. c /\ i = l + (i - l)
    BY <2>1
  <2> QED BY <2>2
<1>10. ASSUME NEW i \in 1 .. Len(all) PROVE all[i].at + all[i].size <= e
  <2>1. CASE i \in 1 .. l
    <3>1. all[i] = st[i] /\ st[i].at + st[i].size <= p /\ st[i].at \in Nat /\ st[i].size \in Nat
      BY <2>1, <1>5, <1>7, <1>8
    <3> QED BY <3>1, <1>3, SMTT(30)
  <2>2. CASE \E k \in 1 .. c : i = l + k
    BY <2>2, <1>5, <1>6
  <2> QED BY <2>1, <2>2, <1>5, <1>9
<1>11. ASSUME NEW b \in 0 .. e - 1 PROVE \E i \in 1 .. Len(all) : Writes(all, b) = {i}
  <2>1. CASE b < p
    <3>1. b \in 0 .. p - 1
      BY <2>1
    <3>2. PICK k \in 1 .. l : Writes(st, b) = {k}
      BY <3>1, <1>4 DEF Exact
    <3>3. \A i \in 1 .. l : b \in all[i].at .. all[i].at + all[i].size - 1 <=> i = k
      BY <3>2, <1>4, <1>5 DEF Writes
    <3>4. \A i \in 1 .. c : ~(b \in all[l + i].at .. all[l + i].at + all[l + i].size - 1)
      <4>1. SUFFICES ASSUME NEW i \in 1 .. c, NEW x, x = all[l + i]
                     PROVE  ~(b \in x.at .. x.at + x.size - 1)
        OBVIOUS
      <4>2. x.at \in Nat /\ p <= x.at
        BY <4>1, <1>5, <1>6, <1>8
      <4> QED BY <4>2, <2>1
    <3>5. ASSUME NEW i \in 1 .. l + c
          PROVE  b \in all[i].at .. all[i].at + all[i].size - 1 <=> i = k
      <4>1. CASE i \in 1 .. l
        BY <4>1, <3>3
      <4>2. CASE \E j \in 1 .. c : i = l + j
        <5>1. PICK j \in 1 .. c : i = l + j
          BY <4>2
        <5>2. i # k
          BY <5>1
        <5> QED BY <5>1, <5>2, <3>4
      <4> QED BY <4>1, <4>2, <1>9
    <3>6. Writes(all, b) = {k} /\ k \in 1 .. Len(all)
      <4>1. Len(all) = l + c /\ k \in 1 .. l + c
        BY <1>5
      <4> QED BY ONLY <3>5, <4>1, SMTT(30) DEF Writes
    <3> QED BY <3>6
  <2>2. CASE ~(b < p)
    <3>1. b \in Nat /\ p <= b /\ b < p + w * c
      BY <2>2, <1>3
    <3>2. PICK k \in 1 .. c : Writes(ws, b) = {k}
      BY <3>1, <1>1, WordOf
    <3>3. \A i \in 1 .. c : b \in ws[i].at .. ws[i].at + ws[i].size - 1 <=> i = k
      BY <3>2, <1>1 DEF Writes
    <3>4. \A i \in 1 .. l : ~(b \in all[i].at .. all[i].at + all[i].size - 1)
      <4>1. SUFFICES ASSUME NEW i \in 1 .. l, NEW x, x = all[i]
                     PROVE  ~(b \in x.at .. x.at + x.size - 1)
        OBVIOUS
      <4>2. x.at \in Nat /\ x.size \in Nat /\ x.at + x.size <= p
        BY <4>1, <1>5, <1>7, <1>8
      <4> QED BY <4>2, <2>2
    <3>5. ASSUME NEW i \in 1 .. l + c
          PROVE  b \in all[i].at .. all[i].at + all[i].size - 1 <=> i = l + k
      <4>1. CASE i \in 1 .. l
        BY <4>1, <3>4
      <4>2. CASE \E j \in 1 .. c : i = l + j
        <5>1. PICK j \in 1 .. c : i = l + j
          BY <4>2
        <5>2. all[i] = ws[j] /\ (i = l + k <=> j = k)
          <6>1. all[i] = ws[j]
            BY <5>1, <1>5
          <6> QED BY ONLY <6>1, <5>1, l \in Nat, j \in 1 .. c, k \in 1 .. c, c \in Nat
        <5> QED BY <5>2, <3>3
      <4> QED BY <4>1, <4>2, <1>9
    <3>6. Writes(all, b) = {l + k} /\ l + k \in 1 .. Len(all)
      <4>1. Len(all) = l + c /\ l + k \in 1 .. l + c
        BY <1>5
      <4> QED BY ONLY <3>5, <4>1, SMTT(30) DEF Writes
    <3> QED BY <3>6
  <2> QED BY <2>1, <2>2
<1> QED BY <1>1, <1>3, <1>5, <1>10, <1>11 DEF Exact

\* Words from an aligned address on are aligned.
LEMMA AlignedAppend ==
    ASSUME NEW st \in Seq(WordStore), NEW a \in Nat, NEW p \in Nat, NEW w \in Nat \ {0}, NEW c \in Nat,
           Aligned(a, st), c > 0 => (a + p) % w = 0
    PROVE  Aligned(a, st \o Words(p, w, c))
<1>1. PICK ws \in Seq(WordStore) : ws = Words(p, w, c) /\ Len(ws) = c
  BY WordsAre
<1>2. PICK l \in Nat : l = Len(st)
  OBVIOUS
<1>3. PICK all \in Seq(WordStore) :
          /\ all = st \o ws /\ Len(all) = l + c
          /\ \A i \in 1 .. l : all[i] = st[i]
          /\ \A i \in 1 .. c : all[l + i] = ws[i]
  <2>1. /\ st \o ws \in Seq(WordStore) /\ Len(st \o ws) = Len(st) + Len(ws)
        /\ \A i \in 1 .. Len(st) : (st \o ws)[i] = st[i]
        /\ \A i \in 1 .. Len(ws) : (st \o ws)[Len(st) + i] = ws[i]
    OBVIOUS
  <2> QED BY <2>1, <1>1, <1>2
<1>4. ASSUME NEW i \in 1 .. c PROVE (a + ws[i].at) % ws[i].size = 0
  <2>1. ws[i].at = p + (i - 1) * w /\ ws[i].size = w
    <3>1. Words(p, w, c)[i].at = p + (i - 1) * w /\ Words(p, w, c)[i].size = w
      BY WordIs
    <3> QED BY ONLY <3>1, <1>1
  <2>2. PICK q \in Nat : a + p = q * w
    <3>1. a + p \in Nat
      OBVIOUS
    <3>2. (a + p) % w = 0
      OBVIOUS
    <3>3. (a + p) \div w \in Nat /\ a + p = ((a + p) \div w) * w + ((a + p) % w)
      BY <3>1, DivMod
    <3>4. PICK q \in Nat : q = (a + p) \div w
      BY <3>3
    <3>5. a + p = q * w + 0
      BY ONLY <3>2, <3>3, <3>4
    <3>6. q * w \in Nat
      OBVIOUS
    <3> QED BY <3>5, <3>6
  <2>3. PICK j \in Nat : j = i - 1
    OBVIOUS
  <2>4. (q + j) * w = q * w + j * w
    OBVIOUS
  <2>5. PICK x \in Nat, y \in Nat : x = q * w /\ y = j * w
    OBVIOUS
  <2>6. a + (p + j * w) = (q + j) * w + 0
    BY <2>2, <2>4, <2>5
  <2>7. ((q + j) * w + 0) % w = 0
    <3>1. PICK z \in Int : z = q + j
      OBVIOUS
    <3>2. 0 \in Int /\ 0 <= 0 /\ 0 < w
      OBVIOUS
    <3>3. (z * w + 0) % w = 0
      BY <3>2, DivModUnique
    <3> QED BY ONLY <3>1, <3>3
  <2> QED BY ONLY <2>1, <2>3, <2>6, <2>7
<1>5. ASSUME NEW i \in 1 .. l + c PROVE (a + all[i].at) % all[i].size = 0
  <2>1. CASE i \in 1 .. l
    <3>1. all[i] = st[i] /\ (a + st[i].at) % st[i].size = 0
      BY <2>1, <1>2, <1>3 DEF Aligned
    <3> QED BY ONLY <3>1
  <2>2. CASE i \notin 1 .. l
    <3>1. PICK k \in 1 .. c : i = l + k
      <4>1. i - l \in 1 .. c /\ i = l + (i - l)
        BY <2>2
      <4> QED BY <4>1
    <3>2. all[i] = ws[k]
      BY <3>1, <1>3
    <3>3. (a + ws[k].at) % ws[k].size = 0
      BY <1>4
    <3> QED BY ONLY <3>2, <3>3
  <2> QED BY <2>1, <2>2
<1> QED BY <1>1, <1>3, <1>5 DEF Aligned

\* Single bytes are aligned anywhere.
LEMMA AlignedBytes ==
    ASSUME NEW st \in Seq(WordStore), NEW a \in Nat, NEW p \in Nat, NEW c \in Nat, Aligned(a, st)
    PROVE  Aligned(a, st \o Words(p, 1, c))
<1>1. (a + p) % 1 = 0
  OBVIOUS
<1> QED BY <1>1, AlignedAppend

-----------------------------------------------------------------------------
(* One width: bytes to the boundary, then words.                            *)

\* The widths of memcpy, with literals for the provers.
LEMMA Boundary ==
    ASSUME NEW w \in {1, 2, 4, 8}, NEW s \in Nat, NEW n \in Nat
    PROVE  LET h == ToBoundary(s, w, n)
           IN  /\ h \in Nat /\ h <= n
               /\ Rounds(n - h, w) \in Nat /\ w * Rounds(n - h, w) <= n - h
               /\ n - h - w * Rounds(n - h, w) < w
               /\ Rounds(n - h, w) > 0 => (s + h) % w = 0
<1>1. PICK m \in Nat : m = (w - (s % w)) % w /\ (s + m) % w = 0
  <2>1. CASE w = 1
    BY <2>1
  <2>2. CASE w = 2
    BY <2>2
  <2>3. CASE w = 4
    BY <2>3
  <2>4. CASE w = 8
    BY <2>4
  <2> QED BY <2>1, <2>2, <2>3, <2>4
<1>2. PICK h \in Nat : h = ToBoundary(s, w, n) /\ h <= n /\ (h = m \/ h = n)
  BY <1>1, MinOfTwo DEF ToBoundary
<1>3. PICK r \in Nat : r = n - h
  BY <1>2
<1>4. PICK k \in Nat : k = Rounds(r, w) /\ w * k <= r /\ r - w * k < w
  <2>1. CASE w = 1
    BY <2>1 DEF Rounds
  <2>2. CASE w = 2
    BY <2>2 DEF Rounds
  <2>3. CASE w = 4
    BY <2>3 DEF Rounds
  <2>4. CASE w = 8
    BY <2>4 DEF Rounds
  <2> QED BY <2>1, <2>2, <2>3, <2>4
<1>5. ASSUME k > 0 PROVE (s + h) % w = 0
  <2>1. r > 0
    <3>1. CASE w = 1
      BY <3>1, <1>4, <1>5
    <3>2. CASE w = 2
      BY <3>2, <1>4, <1>5
    <3>3. CASE w = 4
      BY <3>3, <1>4, <1>5
    <3>4. CASE w = 8
      BY <3>4, <1>4, <1>5
    <3> QED BY <3>1, <3>2, <3>3, <3>4
  <2>2. h = m
    BY <2>1, <1>2, <1>3
  <2> QED BY <2>2, <1>1
<1>6. /\ Rounds(n - h, w) = k /\ n - h = r
  BY <1>3, <1>4
<1>7. /\ h \in Nat /\ h <= n
      /\ Rounds(n - h, w) \in Nat /\ w * Rounds(n - h, w) <= n - h
      /\ n - h - w * Rounds(n - h, w) < w
      /\ Rounds(n - h, w) > 0 => (s + h) % w = 0
  BY <1>2, <1>4, <1>5, <1>6
<1> QED BY <1>2, <1>7

\* The stores of one width extend what is done without a gap.
LEMMA OneWidth ==
    ASSUME NEW st, NEW p \in Nat, Exact(st, p), NEW w \in {1, 2, 4, 8}, NEW h \in Nat, NEW k \in Nat
    PROVE  /\ Exact(st \o Words(p, 1, h) \o Words(p + h, w, k), p + h + w * k)
           /\ \A a \in Nat : Aligned(a, st) /\ (k > 0 => (a + p + h) % w = 0) =>
                 Aligned(a, st \o Words(p, 1, h) \o Words(p + h, w, k))
<1>1. PICK s1 : s1 = st \o Words(p, 1, h)
  OBVIOUS
<1>2. p + 1 * h = p + h /\ p + h \in Nat /\ w \in Nat \ {0} /\ 1 \in Nat \ {0}
  OBVIOUS
<1>3. Exact(s1, p + h)
  BY <1>1, <1>2, ExactAppend
<1>4. Exact(s1 \o Words(p + h, w, k), p + h + w * k)
  BY <1>2, <1>3, ExactAppend
<1>5. ASSUME NEW a \in Nat, Aligned(a, st), k > 0 => (a + p + h) % w = 0
      PROVE  Aligned(a, s1 \o Words(p + h, w, k))
  <2>1. st \in Seq(WordStore) /\ s1 \in Seq(WordStore)
    BY <1>3 DEF Exact
  <2>2. Aligned(a, s1)
    BY <2>1, <1>1, <1>5, AlignedBytes
  <2>3. a + (p + h) = a + p + h
    OBVIOUS
  <2>4. k > 0 => (a + (p + h)) % w = 0
    BY ONLY <2>3, <1>5
  <2> QED BY <2>1, <2>2, <2>4, <1>2, AlignedAppend
<1> QED BY <1>1, <1>4, <1>5

-----------------------------------------------------------------------------
(* The calls.                                                               *)

StringSpec == StringInit(Jobs) /\ [][StringNext]_stringVars

CopyJob == job.op = "memcpy" /\ job.d \in Nat /\ job.s \in Nat /\ job.n \in Nat
SetJob == job.op = "memset" /\ job.d \in Nat /\ job.n \in Nat
StringJob == job.op = "string" /\ job.p \in Seq(Nat \ {0}) /\ job.q \in Seq(Nat \ {0})

\* memcpy: what is done is done exactly, at every width it leaves; the width
\* of one byte leaves nothing.
CopyDone ==
    /\ width \in {0, 1, 2, 4, 8} /\ pos \in Nat /\ togo \in Nat /\ pos + togo = job.n
    /\ Exact(stores, pos) /\ Aligned(job.d, stores) /\ Aligned(job.s, stores)
    /\ width = 0 => togo = 0

SetDone ==
    \/ width = 8 /\ togo = job.n
    \/ width = 0 /\ Exact(stores, job.n) /\ Aligned(job.d, stores)

StringDone ==
    width = 0 => result = [len |-> strlen(job.p), copy |-> strcpy(job.p),
                           at |-> strchr(job.p, 1), cmp |-> strcmp(job.p, job.q)]

StringInv ==
    \/ CopyJob /\ CopyDone
    \/ SetJob /\ SetDone
    \/ StringJob /\ StringDone

\* Nothing is stored at first.
LEMMA NothingStored ==
    /\ Exact(<<>>, 0)
    /\ \A a \in Nat : Aligned(a, <<>>)
BY DEF Exact, Aligned

\* The first state.
LEMMA StringInitInv == ASSUME StringInit(Jobs) PROVE StringInv
<1>1. job \in Jobs /\ pos = 0 /\ stores = <<>> /\ width = 8
      /\ togo = IF job.op = "string" THEN 0 ELSE job.n
  BY DEF StringInit
<1>2. CopyJob \/ SetJob \/ StringJob
  BY <1>1, CStringAssumption DEF CopyJob, SetJob, StringJob
<1>3. CASE CopyJob
  <2>1. togo = job.n /\ job.n \in Nat /\ 0 + job.n = job.n
    BY <1>1, <1>3 DEF CopyJob
  <2>2. Exact(stores, 0) /\ Aligned(job.d, stores) /\ Aligned(job.s, stores)
    BY <1>1, <1>3, NothingStored DEF CopyJob
  <2> QED BY <1>1, <1>3, <2>1, <2>2 DEF StringInv, CopyDone
<1>4. CASE SetJob
  BY <1>1, <1>4 DEF SetJob, StringInv, SetDone
<1>5. CASE StringJob
  BY <1>1, <1>5 DEF StringInv, StringDone
<1> QED BY <1>2, <1>3, <1>4, <1>5

\* When two addresses agree modulo the width, both reach the boundary at once.
LEMMA SameBoundary ==
    ASSUME NEW w \in {1, 2, 4, 8}, NEW s \in Nat, NEW d \in Nat, NEW h \in Nat,
           s % w = d % w, (s + h) % w = 0
    PROVE  (d + h) % w = 0
<1>1. CASE w = 1
  BY <1>1
<1>2. CASE w = 2
  BY <1>2
<1>3. CASE w = 4
  BY <1>3
<1>4. CASE w = 8
  BY <1>4
<1> QED BY <1>1, <1>2, <1>3, <1>4

\* memcpy at one width.
LEMMA MemcpyStep == ASSUME StringInv, memcpy PROVE StringInv'
<1>1. CopyJob /\ CopyDone /\ job' = job
  BY DEF memcpy, StringInv, SetJob, StringJob
<1>2. width \in {1, 2, 4, 8} /\ pos \in Nat /\ togo \in Nat /\ pos + togo = job.n
      /\ job.s \in Nat /\ job.d \in Nat /\ job.n \in Nat
  BY <1>1 DEF CopyJob, CopyDone, memcpy
<1>3. PICK s \in Nat, d \in Nat : s = job.s + pos /\ d = job.d + pos
  BY <1>2
<1>4. PICK tries \in BOOLEAN :
          tries = ((s % width) = (d % width) /\ (width \in {1, 8} \/ togo >= width))
  OBVIOUS
<1>5. PICK h, k :
          /\ h = (IF tries THEN ToBoundary(s, width, togo) ELSE 0)
          /\ k = (IF tries THEN Rounds(togo - h, width) ELSE 0)
  OBVIOUS
<1>6. /\ stores' = stores \o Words(pos, 1, h) \o Words(pos + h, width, k)
      /\ pos' = pos + h + width * k
      /\ togo' = togo - h - width * k
      /\ width' = width \div 2
  BY <1>3, <1>4, <1>5 DEF memcpy
<1>7. /\ h \in Nat /\ k \in Nat /\ width * k \in Nat /\ h + width * k <= togo
      /\ k > 0 => tries /\ (s + h) % width = 0
  <2>1. CASE tries
    <3>1. /\ h \in Nat /\ h <= togo
          /\ k \in Nat /\ width * k <= togo - h
          /\ k > 0 => (s + h) % width = 0
      <4>1. /\ ToBoundary(s, width, togo) \in Nat /\ ToBoundary(s, width, togo) <= togo
            /\ Rounds(togo - ToBoundary(s, width, togo), width) \in Nat
            /\ width * Rounds(togo - ToBoundary(s, width, togo), width) <= togo - ToBoundary(s, width, togo)
            /\ Rounds(togo - ToBoundary(s, width, togo), width) > 0
                  => (s + ToBoundary(s, width, togo)) % width = 0
        BY <1>2, Boundary, ZenonT(30)
      <4>2. h = ToBoundary(s, width, togo) /\ k = Rounds(togo - h, width)
        BY <2>1, <1>5
      <4> QED BY ONLY <4>1, <4>2
    <3>2. PICK x \in Nat : x = width * k
      BY <3>1, <1>2
    <3> QED BY <3>1, <3>2, <2>1, <1>2
  <2>2. CASE ~tries
    BY <2>2, <1>2, <1>5
  <2> QED BY <2>1, <2>2
<1>8. PICK x \in Nat : x = width * k
  BY <1>7
<1>9. pos' = pos + h + x /\ togo' = togo - h - x /\ pos' \in Nat /\ togo' \in Nat /\ pos' + togo' = job.n
  BY <1>2, <1>6, <1>7, <1>8
<1>10. Exact(stores, pos) /\ Aligned(job.d, stores) /\ Aligned(job.s, stores)
  BY <1>1 DEF CopyDone
<1>11. Exact(stores', pos')
  BY <1>2, <1>6, <1>7, <1>10, OneWidth
<1>12. k > 0 => (job.s + pos + h) % width = 0 /\ (job.d + pos + h) % width = 0
  <2>1. SUFFICES ASSUME k > 0 PROVE (job.s + pos + h) % width = 0 /\ (job.d + pos + h) % width = 0
    OBVIOUS
  <2>2. (s + h) % width = 0 /\ (s % width) = (d % width)
    BY <2>1, <1>4, <1>7
  <2>3. (d + h) % width = 0
    BY <2>2, <1>2, <1>7, SameBoundary
  <2> QED BY ONLY <2>2, <2>3, <1>3
<1>13. Aligned(job.d, stores') /\ Aligned(job.s, stores')
  BY <1>2, <1>6, <1>7, <1>10, <1>12, OneWidth
<1>14. width' \in {0, 1, 2, 4, 8} /\ (width' = 0 => width = 1)
  BY <1>2, <1>6
<1>15. width = 1 => togo' = 0
  <2>1. SUFFICES ASSUME width = 1 PROVE togo' = 0
    OBVIOUS
  <2>2. s % 1 = 0 /\ d % 1 = 0
    OBVIOUS
  <2>3. tries
    BY <2>1, <2>2, <1>4
  <2>4. togo - h - width * k < 1
    BY <2>1, <2>3, <1>2, <1>5, Boundary
  <2> QED BY <2>4, <1>6, <1>9
<1>16. CopyDone' /\ CopyJob'
  BY <1>1, <1>9, <1>11, <1>13, <1>14, <1>15 DEF CopyDone, CopyJob
<1> QED BY <1>16 DEF StringInv

\* memset.
LEMMA MemsetStep == ASSUME StringInv, memset PROVE StringInv'
<1>1. SetJob /\ SetDone /\ job' = job /\ width = 8 /\ width' = 0
  BY DEF memset, StringInv, CopyJob, StringJob
<1>2. togo = job.n /\ job.n \in Nat /\ job.d \in Nat
  BY <1>1 DEF SetDone, SetJob
<1>3. PICK h, k :
          h = ToBoundary(job.d, 8, togo) /\ k = Rounds(togo - h, 8)
  OBVIOUS
<1>4. PICK e : e = togo - h - 8 * k
  OBVIOUS
<1>5. stores' = Words(0, 1, h) \o Words(h, 8, k) \o Words(h + 8 * k, 1, e)
  BY <1>3, <1>4 DEF memset
<1>6. /\ h \in Nat /\ k \in Nat /\ e \in Nat /\ h + 8 * k + e = job.n
      /\ k > 0 => (job.d + h) % 8 = 0
  <2>1. /\ h \in Nat /\ h <= togo /\ k \in Nat /\ 8 * k <= togo - h
        /\ k > 0 => (job.d + h) % 8 = 0
    <3>1. 8 \in {1, 2, 4, 8}
      OBVIOUS
    <3> QED BY <3>1, <1>2, <1>3, Boundary
  <2> QED BY <2>1, <1>2, <1>4
<1>7. PICK s0 : s0 = <<>> \o Words(0, 1, h) \o Words(0 + h, 8, k)
  OBVIOUS
<1>8. Exact(<<>>, 0) /\ Aligned(job.d, <<>>)
  BY <1>2, NothingStored
<1>9. 0 + h = h /\ job.d + 0 + h = job.d + h /\ 0 + h + 8 * k = h + 8 * k /\ h + 8 * k \in Nat
      /\ 0 \in Nat /\ 8 \in {1, 2, 4, 8}
  BY <1>2, <1>6
<1>10. Exact(s0, h + 8 * k)
  <2>1. Exact(s0, 0 + h + 8 * k)
    BY <1>6, <1>7, <1>8, <1>9, OneWidth
  <2> QED BY <2>1, <1>9
<1>11. Aligned(job.d, s0)
  <2>1. k > 0 => (job.d + 0 + h) % 8 = 0
    BY <1>6, <1>9
  <2> QED BY <2>1, <1>2, <1>6, <1>7, <1>8, <1>9, OneWidth
<1>12. s0 = Words(0, 1, h) \o Words(h, 8, k) /\ s0 \in Seq(WordStore)
  <2>1. Words(0, 1, h) \in Seq(WordStore)
    BY <1>6, <1>9, WordsAre
  <2>2. <<>> \o Words(0, 1, h) = Words(0, 1, h)
    BY <2>1
  <2> QED BY <2>2, <1>7, <1>9, <1>10 DEF Exact
<1>13. Exact(s0 \o Words(h + 8 * k, 1, e), (h + 8 * k) + 1 * e)
  BY <1>6, <1>9, <1>10, ExactAppend
<1>14. (h + 8 * k) + 1 * e = job.n
  BY <1>6
<1>15. Aligned(job.d, s0 \o Words(h + 8 * k, 1, e))
  BY <1>2, <1>6, <1>9, <1>11, <1>12, AlignedBytes
<1>16. stores' = s0 \o Words(h + 8 * k, 1, e)
  BY <1>5, <1>12
<1>17. SetDone' /\ SetJob'
  BY <1>1, <1>13, <1>14, <1>15, <1>16 DEF SetDone, SetJob
<1> QED BY <1>17 DEF StringInv

\* The string functions.
LEMMA StringStep == ASSUME StringInv, string PROVE StringInv'
<1>1. StringJob /\ job' = job
  BY DEF string, StringInv, CopyJob, SetJob
<1>2. StringDone'
  BY <1>1 DEF string, StringDone
<1> QED BY <1>1, <1>2 DEF StringInv, StringJob

-----------------------------------------------------------------------------
(* What the string functions return.                                        *)

Str == Seq(Nat \ {0})

\* A character of a string is not the NUL, the one behind its end is.
LEMMA CharIs ==
    ASSUME NEW s \in Str, NEW k \in Nat \ {0}
    PROVE  /\ Char(s, k) \in Nat /\ (Char(s, k) = 0 <=> k > Len(s))
           /\ k \in 1 .. Len(s) => Char(s, k) = s[k]
           /\ Len(s) \in Nat /\ DOMAIN s = 1 .. Len(s)
<1>1. Len(s) \in Nat /\ DOMAIN s = 1 .. Len(s)
  BY DEF Str
<1>2. CASE k > Len(s)
  BY <1>1, <1>2 DEF Char
<1>3. CASE ~(k > Len(s))
  <2>1. k \in 1 .. Len(s)
    BY <1>1, <1>3
  <2>2. s[k] \in Nat \ {0}
    BY <2>1 DEF Str
  <2> QED BY <2>1, <2>2, <1>1, <1>3 DEF Char
<1> QED BY <1>2, <1>3

\* strlen finds the end.
LEMMA StrlenIs == ASSUME NEW s \in Str PROVE strlen(s) = Len(s)
<1>1. Len(s) \in Nat
  BY DEF Str
<1>2. \A i \in 0 .. Len(s) : Char(s, i + 1) = 0 <=> i = Len(s)
  <2>1. SUFFICES ASSUME NEW i \in 0 .. Len(s) PROVE Char(s, i + 1) = 0 <=> i = Len(s)
    OBVIOUS
  <2>2. i + 1 \in Nat \ {0}
    BY <1>1
  <2>3. Char(s, i + 1) = 0 <=> i + 1 > Len(s)
    BY <2>2, CharIs
  <2> QED BY <2>3, <1>1
<1>3. {i \in 0 .. Len(s) : Char(s, i + 1) = 0} = {Len(s)}
  BY <1>1, <1>2
<1>4. Min({Len(s)}) = Len(s)
  BY <1>1 DEF Min
<1> QED BY <1>3, <1>4 DEF strlen

\* strcpy stores the string and its NUL.
LEMMA StrcpyIs == ASSUME NEW s \in Str PROVE strcpy(s) = s \o <<0>>
<1>1. Len(s) \in Nat /\ DOMAIN s = 1 .. Len(s) /\ s \in Seq(Nat)
  BY DEF Str
<1>2. strcpy(s) = [i \in 1 .. Len(s) + 1 |-> Char(s, i)]
  BY StrlenIs DEF strcpy
<1>3. /\ s \o <<0>> \in Seq(Nat) /\ Len(s \o <<0>>) = Len(s) + 1
      /\ \A i \in 1 .. Len(s) : (s \o <<0>>)[i] = s[i]
      /\ (s \o <<0>>)[Len(s) + 1] = 0
  BY <1>1
<1>4. s \o <<0>> = [i \in 1 .. Len(s) + 1 |-> (s \o <<0>>)[i]]
  BY <1>3
<1>5. \A i \in 1 .. Len(s) + 1 : Char(s, i) = (s \o <<0>>)[i]
  <2>1. SUFFICES ASSUME NEW i \in 1 .. Len(s) + 1 PROVE Char(s, i) = (s \o <<0>>)[i]
    OBVIOUS
  <2>2. CASE i = Len(s) + 1
    BY <2>2, <1>1, <1>3 DEF Char
  <2>3. CASE i # Len(s) + 1
    <3>1. i \in 1 .. Len(s) /\ ~(i > Len(s))
      BY <2>3, <1>1
    <3> QED BY <3>1, <1>3 DEF Char
  <2> QED BY <2>2, <2>3
<1> QED BY <1>2, <1>4, <1>5

\* strchr finds a character exactly when it is there.
LEMMA StrchrIs ==
    ASSUME NEW s \in Str, NEW c
    PROVE  (strchr(s, c) > 0) = (c \in ToSet(s))
<1>1. Len(s) \in Nat /\ DOMAIN s = 1 .. Len(s) /\ strlen(s) = Len(s)
  BY StrlenIs DEF Str
<1>2. PICK at : at = {i \in 1 .. Len(s) : s[i] = c}
  OBVIOUS
<1>3. strchr(s, c) = IF at = {} THEN 0 ELSE Min(at)
  BY <1>1, <1>2 DEF strchr
<1>4. CASE at = {}
  <2>1. c \notin ToSet(s)
    BY <1>1, <1>2, <1>4 DEF ToSet
  <2>2. strchr(s, c) = 0
    BY <1>3, <1>4
  <2> QED BY <2>1, <2>2
<1>5. CASE at # {}
  <2>1. c \in ToSet(s)
    BY <1>1, <1>2, <1>5 DEF ToSet
  <2>2. at \subseteq Nat
    BY <1>1, <1>2
  <2>3. Min(at) \in at
    BY <2>2, <1>5, MinIsLeast
  <2>4. strchr(s, c) \in 1 .. Len(s)
    BY <2>3, <1>2, <1>3, <1>5
  <2> QED BY <2>1, <2>4, <1>1
<1> QED BY <1>4, <1>5

\* The first place where one string ends or the two differ.
FirstDifference(p, q, i) ==
    /\ i \in 1 .. Len(p) + 1
    /\ Char(p, i) = 0 \/ Char(p, i) # Char(q, i)
    /\ \A k \in 1 .. i - 1 : k <= Len(p) /\ k <= Len(q) /\ p[k] = q[k]

\* strcmp compares there.
LEMMA StrcmpLooks ==
    ASSUME NEW p \in Str, NEW q \in Str
    PROVE  \E i \in Nat \ {0} :
              /\ FirstDifference(p, q, i)
              /\ strcmp(p, q) = IF Char(p, i) < Char(q, i) THEN -1
                                ELSE IF Char(p, i) > Char(q, i) THEN 1 ELSE 0
<1>1. Len(p) \in Nat /\ Len(q) \in Nat
  BY DEF Str
<1>2. PICK K : K = {k \in 1 .. Len(p) + 1 : Char(p, k) = 0 \/ Char(p, k) # Char(q, k)}
  OBVIOUS
<1>3. K \subseteq Nat
  BY <1>1, <1>2
<1>4. Len(p) + 1 \in K
  <2>1. Len(p) + 1 \in Nat \ {0} /\ Len(p) + 1 > Len(p) /\ Len(p) + 1 \in 1 .. Len(p) + 1
    BY <1>1
  <2>2. Char(p, Len(p) + 1) = 0
    BY <2>1, CharIs
  <2> QED BY <2>1, <2>2, <1>2
<1>5. PICK i : i = Min(K)
  OBVIOUS
<1>6. i \in K /\ \A m \in K : i <= m
  BY <1>3, <1>4, <1>5, MinIsLeast
<1>7. i \in Nat \ {0} /\ i \in 1 .. Len(p) + 1 /\ (Char(p, i) = 0 \/ Char(p, i) # Char(q, i))
  BY <1>1, <1>2, <1>6
<1>8. ASSUME NEW k \in 1 .. i - 1 PROVE k <= Len(p) /\ k <= Len(q) /\ p[k] = q[k]
  <2>1. k \in 1 .. Len(p) + 1 /\ k \in Nat \ {0} /\ k < i
    BY <1>1, <1>7
  <2>2. k \notin K
    BY <2>1, <1>6, <1>3
  <2>3. Char(p, k) # 0 /\ Char(p, k) = Char(q, k)
    BY <2>1, <2>2, <1>2
  <2>4. k <= Len(p) /\ k <= Len(q)
    BY <2>1, <2>3, <1>1, CharIs
  <2>5. k \in 1 .. Len(p) /\ k \in 1 .. Len(q)
    BY <2>1, <2>4
  <2>6. Char(p, k) = p[k] /\ Char(q, k) = q[k]
    BY <2>1, <2>5, CharIs
  <2> QED BY <2>3, <2>4, <2>6
<1>9. FirstDifference(p, q, i)
  BY <1>7, <1>8 DEF FirstDifference
<1>10. strcmp(p, q) = IF Char(p, i) < Char(q, i) THEN -1
                      ELSE IF Char(p, i) > Char(q, i) THEN 1 ELSE 0
  BY <1>2, <1>5 DEF strcmp
<1> QED BY <1>7, <1>9, <1>10

\* Equal beginnings, character by character.
LEMMA SameBeginning ==
    ASSUME NEW p \in Str, NEW q \in Str, NEW n \in Nat, n <= Len(p), n <= Len(q)
    PROVE  SubSeq(p, 1, n) = SubSeq(q, 1, n) <=> \A k \in 1 .. n : p[k] = q[k]
<1>1. Len(p) \in Nat /\ Len(q) \in Nat
  BY DEF Str
<1>2. SubSeq(p, 1, n) = [k \in 1 .. n |-> p[k]] /\ SubSeq(q, 1, n) = [k \in 1 .. n |-> q[k]]
  BY <1>1 DEF Str
<1>3. ASSUME SubSeq(p, 1, n) = SubSeq(q, 1, n), NEW k \in 1 .. n PROVE p[k] = q[k]
  <2>1. [j \in 1 .. n |-> p[j]][k] = [j \in 1 .. n |-> q[j]][k]
    BY ONLY <1>2, <1>3
  <2> QED BY <2>1
<1>4. ASSUME \A k \in 1 .. n : p[k] = q[k] PROVE SubSeq(p, 1, n) = SubSeq(q, 1, n)
  BY <1>2, <1>4
<1> QED BY <1>3, <1>4

\* The first string is smaller exactly when its character there is.
LEMMA SmallerIs ==
    ASSUME NEW p \in Str, NEW q \in Str, NEW i \in Nat \ {0},
           \A k \in 1 .. i - 1 : k <= Len(p) /\ k <= Len(q) /\ p[k] = q[k],
           i <= Len(p) + 1, i <= Len(q) + 1,
           (Char(p, i) = 0 /\ Char(q, i) = 0) \/ Char(p, i) # Char(q, i)
    PROVE  Smaller(p, q) <=> Char(p, i) < Char(q, i)
<1>1. Len(p) \in Nat /\ Len(q) \in Nat /\ DOMAIN p = 1 .. Len(p) /\ DOMAIN q = 1 .. Len(q)
  BY DEF Str
<1>2. /\ Char(p, i) \in Nat /\ (Char(p, i) = 0 <=> i > Len(p)) /\ (i \in 1 .. Len(p) => Char(p, i) = p[i])
      /\ Char(q, i) \in Nat /\ (Char(q, i) = 0 <=> i > Len(q)) /\ (i \in 1 .. Len(q) => Char(q, i) = q[i])
  BY CharIs
<1>3. ASSUME Char(p, i) < Char(q, i) PROVE Smaller(p, q)
  <2>1. i \in 1 .. Len(q) /\ Char(q, i) = q[i]
    BY <1>1, <1>2, <1>3
  <2>2. CASE i > Len(p)
    <3>1. i = Len(p) + 1 /\ Len(p) < Len(q) /\ 1 .. i - 1 = 1 .. Len(p)
      BY <2>1, <2>2, <1>1
    <3>2. \A k \in 1 .. Len(p) : p[k] = q[k]
      BY <3>1
    <3>3. SubSeq(p, 1, Len(p)) = SubSeq(q, 1, Len(p))
      BY <3>1, <3>2, <1>1, SameBeginning
    <3>4. p # q
      BY <3>1, <1>1
    <3>5. Len(p) <= Len(q)
      BY <3>1, <1>1
    <3> QED BY <3>3, <3>4, <3>5 DEF Smaller, IsStrictPrefix, IsPrefix
  <2>3. CASE ~(i > Len(p))
    <3>1. i \in 1 .. Len(p) /\ Char(p, i) = p[i]
      BY <2>3, <1>1, <1>2
    <3>2. i - 1 \in Nat /\ i - 1 <= Len(p) /\ i - 1 <= Len(q)
      BY <2>1, <3>1, <1>1
    <3>3. SubSeq(p, 1, i - 1) = SubSeq(q, 1, i - 1)
      BY <3>2, SameBeginning
    <3>4. i \in DOMAIN p \cap DOMAIN q /\ p[i] < q[i]
      BY <2>1, <3>1, <1>1, <1>3
    <3> QED BY <3>3, <3>4 DEF Smaller
  <2> QED BY <2>2, <2>3
<1>4. ASSUME Smaller(p, q) PROVE Char(p, i) < Char(q, i)
  <2>1. CASE IsStrictPrefix(p, q)
    <3>1. Len(p) <= Len(q) /\ SubSeq(p, 1, Len(p)) = SubSeq(q, 1, Len(p)) /\ p # q
      BY <2>1 DEF IsStrictPrefix, IsPrefix
    <3>2. \A k \in 1 .. Len(p) : p[k] = q[k]
      BY <3>1, <1>1, SameBeginning
    <3>3. Len(p) # Len(q)
      <4>1. SUFFICES ASSUME Len(p) = Len(q) PROVE p = q
        BY <3>1
      <4> QED BY <4>1, <3>2, <1>1 DEF Str
    <3>4. i > Len(p)
      <4>1. SUFFICES ASSUME i \in 1 .. Len(p) PROVE FALSE
        BY <1>1
      <4>2. i \in 1 .. Len(q)
        BY <4>1, <3>1, <1>1
      <4>3. Char(p, i) = Char(q, i)
        BY <4>1, <4>2, <3>2, <1>2
      <4> QED BY <4>1, <4>3, <1>1, <1>2
    <3>5. i = Len(p) + 1 /\ ~(i \in 1 .. Len(p))
      BY <3>4, <1>1
    <3>6. i \in 1 .. Len(q)
      <4>1. PICK a \in Nat, b \in Nat : a = Len(p) /\ b = Len(q)
        BY <1>1
      <4>2. a < b
        BY ONLY <3>1, <3>3, <4>1
      <4>3. i = a + 1
        BY ONLY <3>5, <4>1
      <4> QED BY ONLY <4>1, <4>2, <4>3
    <3>7. Char(p, i) = 0 /\ Char(q, i) # 0
      BY <3>5, <3>6, <1>1, <1>2
    <3> QED BY <3>7, <1>2
  <2>2. CASE \E j \in DOMAIN p \cap DOMAIN q : SubSeq(p, 1, j - 1) = SubSeq(q, 1, j - 1) /\ p[j] < q[j]
    <3>1. PICK j \in DOMAIN p \cap DOMAIN q : SubSeq(p, 1, j - 1) = SubSeq(q, 1, j - 1) /\ p[j] < q[j]
      BY <2>2
    <3>2. j \in 1 .. Len(p) /\ j \in 1 .. Len(q) /\ j - 1 \in Nat /\ j - 1 <= Len(p) /\ j - 1 <= Len(q)
      BY <3>1, <1>1
    <3>3. \A k \in 1 .. j - 1 : p[k] = q[k]
      BY <3>1, <3>2, SameBeginning
    <3>4. p[j] \in Nat /\ q[j] \in Nat /\ p[j] # q[j]
      BY <3>1, <3>2 DEF Str
    <3>5. ~(j < i)
      BY <3>4, <3>2
    <3>6. ~(i < j)
      <4>1. SUFFICES ASSUME i < j PROVE FALSE
        OBVIOUS
      <4>2. i \in 1 .. j - 1 /\ i \in 1 .. Len(p) /\ i \in 1 .. Len(q)
        BY <4>1, <3>2, <1>1
      <4>3. Char(p, i) = Char(q, i) /\ Char(p, i) # 0
        BY <4>2, <3>3, <1>1, <1>2
      <4> QED BY <4>3
    <3>7. i = j
      BY <3>2, <3>5, <3>6, <1>1
    <3> QED BY <3>1, <3>2, <3>7, <1>2
  <2> QED BY <1>4, <2>1, <2>2 DEF Smaller
<1> QED BY <1>3, <1>4

\* strcmp agrees with the order of strings.
LEMMA StrcmpIs ==
    ASSUME NEW p \in Str, NEW q \in Str
    PROVE  strcmp(p, q) = IF Smaller(p, q) THEN -1 ELSE IF Smaller(q, p) THEN 1 ELSE 0
<1>1. Len(p) \in Nat /\ Len(q) \in Nat
  BY DEF Str
<1>2. PICK i \in Nat \ {0} :
          /\ FirstDifference(p, q, i)
          /\ strcmp(p, q) = IF Char(p, i) < Char(q, i) THEN -1
                            ELSE IF Char(p, i) > Char(q, i) THEN 1 ELSE 0
  BY StrcmpLooks
<1>3. /\ i <= Len(p) + 1
      /\ \A k \in 1 .. i - 1 : k <= Len(p) /\ k <= Len(q) /\ p[k] = q[k]
      /\ Char(p, i) = 0 \/ Char(p, i) # Char(q, i)
  BY <1>1, <1>2 DEF FirstDifference
<1>4. i <= Len(q) + 1
  <2>1. CASE i = 1
    BY <2>1, <1>1
  <2>2. CASE i # 1
    <3>1. i - 1 \in 1 .. i - 1
      BY <2>2
    <3>2. i - 1 <= Len(q)
      BY <3>1, <1>3
    <3> QED BY <3>2, <1>1
  <2> QED BY <2>1, <2>2
<1>5. Char(p, i) \in Nat /\ Char(q, i) \in Nat
  BY CharIs
<1>6. (Char(p, i) = 0 /\ Char(q, i) = 0) \/ Char(p, i) # Char(q, i)
  BY <1>3
<1>7. Smaller(p, q) <=> Char(p, i) < Char(q, i)
  BY <1>3, <1>4, <1>6, SmallerIs
<1>8. Smaller(q, p) <=> Char(q, i) < Char(p, i)
  BY <1>3, <1>4, <1>6, SmallerIs
<1> QED BY <1>2, <1>5, <1>7, <1>8

-----------------------------------------------------------------------------

\* One store for each byte.
LEMMA ExactCounts ==
    ASSUME NEW st, NEW n \in Nat, Exact(st, n), NEW b \in 0 .. n - 1
    PROVE  Cardinality({i \in DOMAIN st : b \in st[i].at .. st[i].at + st[i].size - 1}) = 1
<1>1. st \in Seq(WordStore) /\ DOMAIN st = 1 .. Len(st)
  BY DEF Exact
<1>2. PICK i \in 1 .. Len(st) : Writes(st, b) = {i}
  BY DEF Exact
<1>3. {k \in DOMAIN st : b \in st[k].at .. st[k].at + st[k].size - 1} = {i}
  BY <1>1, <1>2 DEF Writes
<1> QED BY <1>3, FS_Singleton

\* memcpy and memset store every byte once, none outside, all aligned, for all
\* addresses and lengths, and the string functions return what they should for
\* all strings.
THEOREM StringsExactCorrect == StringSpec => []StringsExact
<1>1. StringInit(Jobs) => StringInv
  BY StringInitInv
<1>2. StringInv /\ [StringNext]_stringVars => StringInv'
  <2>1. SUFFICES ASSUME StringInv, [StringNext]_stringVars PROVE StringInv'
    OBVIOUS
  <2>2. CASE memcpy
    BY <2>1, <2>2, MemcpyStep
  <2>3. CASE memset
    BY <2>1, <2>3, MemsetStep
  <2>4. CASE string
    BY <2>1, <2>4, StringStep
  <2>5. CASE UNCHANGED stringVars
    BY <2>1, <2>5 DEF stringVars, StringInv, CopyJob, SetJob, StringJob, CopyDone, SetDone, StringDone
  <2> QED BY <2>1, <2>2, <2>3, <2>4, <2>5 DEF StringNext
<1>3. StringInv => StringsExact
  <2>1. SUFFICES ASSUME StringInv, width = 0 PROVE StringsExact
    BY DEF StringsExact
  <2>2. CASE CopyJob /\ CopyDone
    <3>1. /\ job.op = "memcpy" /\ job.n \in Nat /\ Exact(stores, job.n)
          /\ Aligned(job.d, stores) /\ Aligned(job.s, stores)
      BY <2>1, <2>2 DEF CopyJob, CopyDone
    <3>2. DOMAIN stores = 1 .. Len(stores)
      BY <3>1 DEF Exact
    <3>3. \A b \in 0 .. job.n - 1 :
             Cardinality({i \in DOMAIN stores : b \in stores[i].at .. stores[i].at + stores[i].size - 1}) = 1
      BY <3>1, ExactCounts
    <3>4. \A i \in DOMAIN stores :
             /\ stores[i].at + stores[i].size <= job.n
             /\ (job.d + stores[i].at) % stores[i].size = 0
             /\ (job.s + stores[i].at) % stores[i].size = 0
      BY <3>1, <3>2 DEF Exact, Aligned
    <3> QED BY <3>1, <3>3, <3>4 DEF StringsExact
  <2>3. CASE SetJob /\ SetDone
    <3>1. /\ job.op = "memset" /\ job.n \in Nat /\ Exact(stores, job.n) /\ Aligned(job.d, stores)
      BY <2>1, <2>3 DEF SetJob, SetDone
    <3>2. DOMAIN stores = 1 .. Len(stores)
      BY <3>1 DEF Exact
    <3>3. \A b \in 0 .. job.n - 1 :
             Cardinality({i \in DOMAIN stores : b \in stores[i].at .. stores[i].at + stores[i].size - 1}) = 1
      BY <3>1, ExactCounts
    <3>4. \A i \in DOMAIN stores :
             /\ stores[i].at + stores[i].size <= job.n
             /\ (job.d + stores[i].at) % stores[i].size = 0
      BY <3>1, <3>2 DEF Exact, Aligned
    <3> QED BY <3>1, <3>3, <3>4 DEF StringsExact
  <2>4. CASE StringJob /\ StringDone
    <3>1. job.op = "string" /\ job.p \in Str /\ job.q \in Str
      BY <2>4 DEF StringJob, Str
    <3>2. /\ result.len = strlen(job.p) /\ result.copy = strcpy(job.p)
          /\ result.at = strchr(job.p, 1) /\ result.cmp = strcmp(job.p, job.q)
      BY <2>1, <2>4 DEF StringDone
    <3>3. result.len = Len(job.p) /\ result.copy = job.p \o <<0>>
      BY <3>1, <3>2, StrlenIs, StrcpyIs
    <3>4. (result.at > 0) = (1 \in ToSet(job.p))
      BY <3>1, <3>2, StrchrIs
    <3>5. result.cmp = IF Smaller(job.p, job.q) THEN -1 ELSE IF Smaller(job.q, job.p) THEN 1 ELSE 0
      BY <3>1, <3>2, StrcmpIs
    <3> QED BY <3>1, <3>3, <3>4, <3>5 DEF StringsExact
  <2> QED BY <2>1, <2>2, <2>3, <2>4 DEF StringInv
<1> QED BY <1>1, <1>2, <1>3, PTL DEF StringSpec

-----------------------------------------------------------------------------
(* The page-table window.                                                   *)

VptSpec == VptInit /\ [][VptNext]_vptVars

Third == 0 .. NSLOT * SUB - 1
PageOrNone == TablePages \cup {0}
TheTables == ({vp1} \cup {vp2[s] : s \in UserSlot} \cup {vp3[x] : x \in Third}) \ {0}

VptTypes ==
    /\ vp1 \in PageOrNone /\ vp2 \in [UserSlot -> PageOrNone] /\ vp3 \in [Third -> PageOrNone]
    /\ window \in [Place -> PageOrNone] /\ pp_ref \in [TablePages -> Int]

\* The window shows tables of the environment, in their places, or nothing.
InPlace ==
    /\ window[FirstPlace] \in {0, vp1}
    /\ \A s \in UserSlot : window[SecondPlace(s)] \in {0, vp2[s]}
    /\ \A x \in Third : window[x] \in {0, vp3[x]}
    /\ \A w \in Place : window[w] \in TheTables \cup {0}

RefsExact == \A f \in TheTables : pp_ref[f] = 1 + Cardinality(Places(window, f))

NobodyThere ==
    vp1 = 0 => /\ \A s \in UserSlot : vp2[s] = 0
               /\ \A x \in Third : vp3[x] = 0
               /\ \A w \in Place : window[w] = 0

VptInv == VptTypes /\ InPlace /\ RefsExact /\ NobodyThere

\* The places are in the window and no two tables share one.
LEMMA VptPlaces ==
    /\ NSLOT \in Nat \ {0} /\ SUB \in Nat \ {0} /\ UVPT_SLOT \in Nat /\ NSLOT <= UVPT_SLOT /\ UVPT_SLOT < SUB
    /\ FirstPlace \in Place
    /\ \A s \in UserSlot : SecondPlace(s) \in Place /\ SecondPlace(s) # FirstPlace
    /\ \A s, t \in UserSlot : SecondPlace(s) = SecondPlace(t) => s = t
    /\ \A x \in Third : x \in Place /\ x # FirstPlace /\ \A s \in UserSlot : x # SecondPlace(s)
<1>1. NSLOT \in Nat \ {0} /\ SUB \in Nat \ {0} /\ UVPT_SLOT \in Nat /\ NSLOT <= UVPT_SLOT /\ UVPT_SLOT < SUB
  BY VptAssumption
<1>2. PICK a \in Nat : a = SUB * UVPT_SLOT
  BY <1>1
<1>3. NSLOT * SUB \in Nat /\ NSLOT * SUB <= a
  <2>1. PICK d \in Nat : UVPT_SLOT = NSLOT + d
    BY <1>1
  <2>2. a = SUB * NSLOT + SUB * d /\ SUB * NSLOT \in Nat /\ SUB * d \in Nat
    BY <1>1, <1>2, <2>1
  <2>3. SUB * NSLOT = NSLOT * SUB
    BY <1>1
  <2> QED BY <2>2, <2>3
<1>4. SUB * SUB \in Nat /\ a + SUB <= SUB * SUB
  <2>1. PICK d \in Nat : SUB = (UVPT_SLOT + 1) + d
    BY <1>1
  <2>2. SUB * SUB = SUB * (UVPT_SLOT + 1) + SUB * d
    BY <1>1, <2>1
  <2>3. SUB * (UVPT_SLOT + 1) = a + SUB /\ SUB * d \in Nat
    BY <1>1, <1>2
  <2> QED BY <1>1, <1>2, <2>2, <2>3
<1>5. FirstPlace = a + UVPT_SLOT /\ \A s \in UserSlot : SecondPlace(s) = a + s /\ s \in Nat /\ s < NSLOT
  BY <1>1, <1>2 DEF FirstPlace, SecondPlace, UserSlot
<1>6. \A x \in Third : x \in Nat /\ x < NSLOT * SUB
  BY <1>3 DEF Third
<1>7. PICK n \in Nat, m \in Nat : n = NSLOT * SUB /\ m = SUB * SUB
  BY <1>3, <1>4
<1>8. Place = 0 .. m - 1 /\ n <= a /\ a + SUB <= m /\ \A x \in Third : x \in Nat /\ x < n
  BY <1>3, <1>4, <1>6, <1>7 DEF Place
<1>9. FirstPlace \in Place
  BY <1>1, <1>5, <1>8
<1>10. ASSUME NEW s \in UserSlot
       PROVE  /\ SecondPlace(s) \in Place /\ SecondPlace(s) # FirstPlace
              /\ \A t \in UserSlot : SecondPlace(s) = SecondPlace(t) => s = t
  BY <1>1, <1>5, <1>8
<1>11. ASSUME NEW x \in Third
       PROVE  x \in Place /\ x # FirstPlace /\ \A s \in UserSlot : x # SecondPlace(s)
  BY <1>1, <1>5, <1>8
<1> QED BY <1>1, <1>9, <1>10, <1>11

\* How often the window shows a page is a number.
LEMMA PlacesCount ==
    ASSUME NEW win, NEW f PROVE Cardinality(Places(win, f)) \in Nat
<1>1. SUB * SUB - 1 \in Int
  BY VptAssumption
<1>2. IsFiniteSet(Place)
  BY <1>1, FS_Interval DEF Place
<1>3. Places(win, f) \in SUBSET Place
  BY DEF Places
<1>4. IsFiniteSet(Places(win, f))
  BY <1>2, <1>3, FS_Subset
<1> QED BY <1>4, FS_CardinalityType

\* A page that nothing shows.
LEMMA NotShown ==
    ASSUME NEW win, NEW f, \A w \in Place : win[w] # f PROVE Cardinality(Places(win, f)) = 0
<1>1. Places(win, f) = {}
  BY DEF Places
<1> QED BY <1>1, FS_EmptySet

\* With room there are two pages to hand out.
LEMMA RoomForTwo ==
    ASSUME VptTypes, Room
    PROVE  /\ IsFiniteSet(Unused(pp_ref)) /\ Unused(pp_ref) \subseteq TablePages /\ TablePages \subseteq Nat \ {0}
           /\ NSLOT + 3 <= Cardinality(Unused(pp_ref))
           /\ Min(Unused(pp_ref)) \in Unused(pp_ref)
           /\ \A f : Min(Unused(pp_ref) \ {f}) \in Unused(pp_ref) /\ Min(Unused(pp_ref) \ {f}) # f
<1>1. /\ IsFiniteSet(TablePages) /\ TablePages \subseteq Nat \ {0} /\ NSLOT \in Nat \ {0}
  BY VptAssumption
<1>2. Unused(pp_ref) \in SUBSET TablePages
  BY DEF Unused
<1>3. PICK U : U = Unused(pp_ref)
  OBVIOUS
<1>4. IsFiniteSet(U) /\ Cardinality(U) \in Nat /\ NSLOT + 3 <= Cardinality(U)
  <2>1. IsFiniteSet(U)
    BY <1>1, <1>2, <1>3, FS_Subset
  <2>2. Cardinality(U) \in Nat
    BY <2>1, FS_CardinalityType
  <2> QED BY <2>1, <2>2, <1>1, <1>3 DEF Room
<1>5. U # {}
  BY <1>1, <1>4, FS_EmptySet
<1>6. U \subseteq Nat
  BY <1>1, <1>2, <1>3
<1>7. Min(U) \in U
  BY <1>5, <1>6, MinIsLeast
<1>8. ASSUME NEW f PROVE Min(U \ {f}) \in U /\ Min(U \ {f}) # f
  <2>1. IsFiniteSet(U \ {f}) /\ Cardinality(U \ {f}) = IF f \in U THEN Cardinality(U) - 1 ELSE Cardinality(U)
    BY <1>4, FS_RemoveElement
  <2>2. Cardinality(U \ {f}) # 0
    BY <2>1, <1>1, <1>4
  <2>3. U \ {f} # {}
    BY <2>2, FS_EmptySet
  <2>4. U \ {f} \subseteq Nat
    BY <1>6
  <2>5. Min(U \ {f}) \in U \ {f}
    BY <2>3, <2>4, MinIsLeast
  <2> QED BY <2>5
<1> QED BY <1>1, <1>2, <1>3, <1>4, <1>7, <1>8

\* A set fits into one that is not smaller.
LEMMA InjectionExists ==
    ASSUME NEW A, NEW B, IsFiniteSet(A), IsFiniteSet(B), Cardinality(A) <= Cardinality(B)
    PROVE  \E g \in [A -> B] : \A j, k \in A : g[j] = g[k] => j = k
<1>1. PICK n \in Nat, m \in Nat : n = Cardinality(A) /\ m = Cardinality(B) /\ n <= m
  BY FS_CardinalityType
<1>2. ExistsBijection(1 .. n, A) /\ ExistsBijection(1 .. m, B)
  BY <1>1, FS_CardinalityType
<1>3. PICK a \in [1 .. n -> A] : \A x \in A : \E i \in 1 .. n : a[i] = x
  BY <1>2 DEF ExistsBijection, Bijection, Surjection
<1>4. PICK b \in [1 .. m -> B] : \A i, j \in 1 .. m : b[i] = b[j] => i = j
  BY <1>2 DEF ExistsBijection, Bijection, Injection, IsInjective
<1>5. PICK c : c = [x \in A |-> CHOOSE i \in 1 .. n : a[i] = x]
  OBVIOUS
<1>6. \A x \in A : c[x] \in 1 .. n /\ a[c[x]] = x
  BY <1>3, <1>5
<1>7. \A x \in A : c[x] \in 1 .. m
  BY <1>1, <1>6
<1>8. PICK g : g = [x \in A |-> b[c[x]]]
  OBVIOUS
<1>9. g \in [A -> B]
  BY <1>4, <1>7, <1>8
<1>10. \A j, k \in A : g[j] = g[k] => j = k
  BY <1>4, <1>6, <1>7, <1>8
<1> QED BY <1>9, <1>10

\* What map_user_vpt shows where.
LEMMA ShownIs ==
    ASSUME VptTypes
    PROVE  /\ Shown(FirstPlace) = vp1
           /\ \A s \in UserSlot : Shown(SecondPlace(s)) = vp2[s]
           /\ \A x \in Third : Shown(x) = vp3[x]
           /\ \A w \in Place : \/ Shown(w) = 0
                               \/ w = FirstPlace
                               \/ \E s \in UserSlot : w = SecondPlace(s)
                               \/ w \in Third
<1>0. DOMAIN vp3 = Third /\ Third \subseteq Int /\ UserSlot \subseteq Int /\ \A x : ThirdPlace(x) = x
  BY DEF VptTypes, ThirdPlace, Third, UserSlot
<1>1. Shown(FirstPlace) = vp1
  <2>1. {x \in DOMAIN vp3 : vp3[x] # 0 /\ ThirdPlace(x) = FirstPlace} = {}
    BY <1>0, VptPlaces
  <2>2. {s \in UserSlot : vp2[s] # 0 /\ SecondPlace(s) = FirstPlace} = {}
    BY VptPlaces
  <2> QED BY <2>1, <2>2 DEF Shown
<1>2. ASSUME NEW s \in UserSlot PROVE Shown(SecondPlace(s)) = vp2[s]
  <2>1. {x \in DOMAIN vp3 : vp3[x] # 0 /\ ThirdPlace(x) = SecondPlace(s)} = {}
    BY <1>0, VptPlaces
  <2>2. SecondPlace(s) # FirstPlace
    BY VptPlaces
  <2>3. CASE vp2[s] = 0
    <3>1. {t \in UserSlot : vp2[t] # 0 /\ SecondPlace(t) = SecondPlace(s)} = {}
      BY <2>3, VptPlaces
    <3> QED BY <2>1, <2>2, <2>3, <3>1 DEF Shown
  <2>4. CASE vp2[s] # 0
    <3>1. {t \in UserSlot : vp2[t] # 0 /\ SecondPlace(t) = SecondPlace(s)} = {s}
      BY <2>4, VptPlaces
    <3>2. Max({s}) = s
      BY <1>0, MaxOfOne
    <3> QED BY <2>1, <2>2, <2>4, <3>1, <3>2 DEF Shown
  <2> QED BY <2>3, <2>4
<1>3. ASSUME NEW x \in Third PROVE Shown(x) = vp3[x]
  <2>1. {s \in UserSlot : vp2[s] # 0 /\ SecondPlace(s) = x} = {}
    BY VptPlaces
  <2>2. x # FirstPlace
    BY VptPlaces
  <2>3. CASE vp3[x] = 0
    <3>1. {y \in DOMAIN vp3 : vp3[y] # 0 /\ ThirdPlace(y) = x} = {}
      BY <2>3, <1>0
    <3> QED BY <2>1, <2>2, <2>3, <3>1 DEF Shown
  <2>4. CASE vp3[x] # 0
    <3>1. {y \in DOMAIN vp3 : vp3[y] # 0 /\ ThirdPlace(y) = x} = {x}
      BY <2>4, <1>0
    <3>2. Max({x}) = x
      BY <1>0, MaxOfOne
    <3> QED BY <2>1, <2>2, <2>4, <3>1, <3>2 DEF Shown
  <2> QED BY <2>3, <2>4
<1>4. ASSUME NEW w \in Place, w # FirstPlace, \A s \in UserSlot : w # SecondPlace(s), w \notin Third
      PROVE  Shown(w) = 0
  <2>1. {x \in DOMAIN vp3 : vp3[x] # 0 /\ ThirdPlace(x) = w} = {}
    BY <1>0, <1>4
  <2>2. {s \in UserSlot : vp2[s] # 0 /\ SecondPlace(s) = w} = {}
    BY <1>4
  <2> QED BY <2>1, <2>2, <1>4 DEF Shown
<1> QED BY <1>1, <1>2, <1>3, <1>4

\* The tables of the environment are pages that are in use.
LEMMA TablesInUse ==
    ASSUME VptInv
    PROVE  /\ TheTables \subseteq TablePages
           /\ \A f \in TheTables : pp_ref[f] \in Int /\ pp_ref[f] >= 1 /\ f \notin Unused(pp_ref)
<1>1. TheTables \subseteq TablePages
  BY DEF VptInv, VptTypes, TheTables, PageOrNone
<1>2. ASSUME NEW f \in TheTables PROVE pp_ref[f] \in Int /\ pp_ref[f] >= 1
  <2>1. pp_ref[f] = 1 + Cardinality(Places(window, f))
    BY DEF VptInv, RefsExact
  <2>2. Cardinality(Places(window, f)) \in Nat
    BY PlacesCount
  <2> QED BY <2>1, <2>2
<1> QED BY <1>1, <1>2 DEF Unused

\* A page that is not in use is nowhere in the window.
LEMMA UnusedNotShown ==
    ASSUME VptInv, NEW f \in Unused(pp_ref)
    PROVE  f \in TablePages /\ f # 0 /\ pp_ref[f] = 0 /\ Cardinality(Places(window, f)) = 0
<1>1. f \in TablePages /\ pp_ref[f] = 0 /\ f # 0
  BY VptAssumption DEF Unused
<1>2. \A w \in Place : window[w] # f
  BY <1>1, TablesInUse DEF VptInv, InPlace
<1> QED BY <1>1, <1>2, NotShown

\* Initially there is no environment.
LEMMA VptInitInv == ASSUME VptInit PROVE VptInv
<1>1. /\ vp1 = 0 /\ vp2 = [s \in UserSlot |-> 0] /\ vp3 = [x \in Third |-> 0]
      /\ window = [w \in Place |-> 0] /\ pp_ref = [f \in TablePages |-> 0]
  BY DEF VptInit, Third
<1>2. VptTypes
  BY <1>1 DEF VptTypes, PageOrNone
<1>3. TheTables = {}
  BY <1>1 DEF TheTables
<1>4. InPlace
  BY <1>1, VptPlaces DEF InPlace
<1> QED BY <1>1, <1>2, <1>3, <1>4 DEF VptInv, RefsExact, NobodyThere

\* The environment's first table.
LEMMA SetupVmStep == ASSUME VptInv, setup_vm PROVE VptInv'
<1>1. PICK f : f = Min(Unused(pp_ref))
  OBVIOUS
<1>2. f \in Unused(pp_ref)
  BY <1>1, RoomForTwo DEF VptInv, setup_vm
<1>3. /\ vp1 = 0 /\ vp1' = f /\ pp_ref' = [pp_ref EXCEPT ![f] = 1]
      /\ vp2' = vp2 /\ vp3' = vp3 /\ window' = window
  BY <1>1 DEF setup_vm
<1>4. f \in TablePages /\ f # 0 /\ pp_ref[f] = 0 /\ Cardinality(Places(window, f)) = 0
  BY <1>2, UnusedNotShown
<1>5. /\ \A s \in UserSlot : vp2[s] = 0
      /\ \A x \in Third : vp3[x] = 0
      /\ \A w \in Place : window[w] = 0
  BY <1>3 DEF VptInv, NobodyThere
<1>6. VptTypes'
  BY <1>3, <1>4 DEF VptInv, VptTypes, PageOrNone
<1>7. TheTables' = {f}
  BY <1>3, <1>4, <1>5 DEF TheTables
<1>8. InPlace'
  <2>1. /\ window'[FirstPlace] = 0
        /\ \A s \in UserSlot : window'[SecondPlace(s)] = 0
        /\ \A x \in Third : window'[x] = 0
        /\ \A w \in Place : window'[w] = 0
    BY <1>3, <1>5, VptPlaces
  <2> QED BY <2>1 DEF InPlace, FirstPlace, SecondPlace
<1>9. RefsExact'
  <2>1. pp_ref'[f] = 1
    BY <1>3, <1>4 DEF VptInv, VptTypes
  <2>2. Cardinality(Places(window', f)) = 0
    BY <1>3, <1>4
  <2>3. \A g \in TheTables' : g = f
    BY <1>7
  <2>4. \A g \in TheTables' : pp_ref'[g] = 1 + Cardinality(Places(window', g))
    BY <2>1, <2>2, <2>3
  <2> QED BY <2>4 DEF RefsExact
<1>10. NobodyThere'
  BY <1>3, <1>4 DEF NobodyThere
<1> QED BY <1>6, <1>8, <1>9, <1>10 DEF VptInv

\* The slot of a third-level table.
LEMMA ThirdSlot == ASSUME NEW x \in Third PROVE x \div SUB \in UserSlot
<1>1. x \in Nat /\ x < NSLOT * SUB /\ SUB \in Nat \ {0} /\ NSLOT \in Nat \ {0}
  BY VptPlaces DEF Third
<1>2. PICK k \in Nat, r \in Nat : k = x \div SUB /\ x = k * SUB + r
  BY <1>1, DivMod
<1>3. k < NSLOT
  <2>1. SUFFICES ASSUME k >= NSLOT PROVE FALSE
    BY <1>1, <1>2
  <2>2. PICK d \in Nat : k = NSLOT + d
    BY <2>1, <1>1, <1>2
  <2>3. k * SUB = NSLOT * SUB + d * SUB /\ d * SUB \in Nat /\ NSLOT * SUB \in Nat
    BY <1>1, <2>2
  <2> QED BY <2>3, <1>1, <1>2
<1> QED BY <1>1, <1>2, <1>3 DEF UserSlot

\* More tables.
LEMMA PgdirWalkStep == ASSUME VptInv, NEW x \in Third, pgdir_walk(x) PROVE VptInv'
<1>1. PICK q \in UserSlot : q = x \div SUB
  BY ThirdSlot
<1>2. PICK f, g : /\ f = (IF vp2[q] = 0 THEN Min(Unused(pp_ref)) ELSE vp2[q])
                  /\ g = Min(Unused(pp_ref) \ {f})
  OBVIOUS
<1>3. /\ vp1 # 0 /\ vp3[x] = 0 /\ vp2' = [vp2 EXCEPT ![q] = f] /\ vp3' = [vp3 EXCEPT ![x] = g]
      /\ pp_ref' = [pp_ref EXCEPT ![f] = 1 + (IF vp2[q] = 0 THEN 0 ELSE @ - 1), ![g] = 1]
      /\ vp1' = vp1 /\ window' = window
  BY <1>1, <1>2 DEF pgdir_walk
<1>4. g \in Unused(pp_ref) /\ g # f /\ (vp2[q] = 0 => f \in Unused(pp_ref))
  BY <1>2, RoomForTwo DEF VptInv, pgdir_walk
<1>5. g \in TablePages /\ g # 0 /\ pp_ref[g] = 0 /\ Cardinality(Places(window, g)) = 0
  BY <1>4, UnusedNotShown
<1>6. f \in TablePages /\ f # 0 /\ pp_ref[f] \in Int
  <2>1. CASE vp2[q] = 0
    BY <2>1, <1>4, UnusedNotShown
  <2>2. CASE vp2[q] # 0
    BY <2>2, <1>2 DEF VptInv, VptTypes, PageOrNone
  <2> QED BY <2>1, <2>2 DEF VptInv, VptTypes
<1>7. /\ pp_ref' \in [TablePages -> Int] /\ pp_ref'[g] = 1
      /\ vp2[q] = 0 => pp_ref'[f] = 1
      /\ vp2[q] # 0 => pp_ref'[f] = pp_ref[f]
      /\ \A h \in TablePages : h # f /\ h # g => pp_ref'[h] = pp_ref[h]
  BY <1>3, <1>4, <1>5, <1>6 DEF VptInv, VptTypes
<1>8. VptTypes'
  BY <1>3, <1>5, <1>6, <1>7 DEF VptInv, VptTypes, PageOrNone
<1>9. TheTables' = TheTables \cup {f, g}
  <2>1. /\ vp2'[q] = f /\ \A s \in UserSlot : s # q => vp2'[s] = vp2[s]
        /\ vp3'[x] = g /\ \A y \in Third : y # x => vp3'[y] = vp3[y]
    BY <1>3 DEF VptInv, VptTypes
  <2>2. vp2[q] # 0 => vp2[q] = f
    BY <1>2
  <2> QED BY <2>1, <2>2, <1>3, <1>5, <1>6 DEF TheTables
<1>10. \A w \in Place : window[w] \in TheTables \cup {0}
  BY DEF VptInv, InPlace
<1>11. InPlace'
  <2>1. window[FirstPlace] \in {0, vp1}
    BY DEF VptInv, InPlace
  <2>2. ASSUME NEW s \in UserSlot PROVE window[SecondPlace(s)] \in {0, vp2'[s]}
    <3>1. window[SecondPlace(s)] \in {0, vp2[s]}
      BY DEF VptInv, InPlace
    <3>2. vp2[s] # 0 => vp2'[s] = vp2[s]
      BY <1>2, <1>3 DEF VptInv, VptTypes
    <3> QED BY <3>1, <3>2
  <2>3. ASSUME NEW y \in Third PROVE window[y] \in {0, vp3'[y]}
    <3>1. window[y] \in {0, vp3[y]}
      BY DEF VptInv, InPlace
    <3>2. vp3[y] # 0 => vp3'[y] = vp3[y]
      BY <1>3 DEF VptInv, VptTypes
    <3> QED BY <3>1, <3>2
  <2>4. \A w \in Place : window[w] \in TheTables' \cup {0}
    BY <1>9, <1>10
  <2> QED BY <2>1, <2>2, <2>3, <2>4, <1>3 DEF InPlace, FirstPlace, SecondPlace
<1>12. RefsExact'
  <2>1. ASSUME NEW h \in TheTables' PROVE pp_ref'[h] = 1 + Cardinality(Places(window, h))
    <3>1. CASE h = g
      BY <3>1, <1>5, <1>7
    <3>2. CASE h = f /\ vp2[q] = 0
      <4>1. Cardinality(Places(window, f)) = 0
        BY <3>2, <1>4, UnusedNotShown
      <4> QED BY <4>1, <3>2, <1>7
    <3>3. CASE h # g /\ ~(h = f /\ vp2[q] = 0)
      <4>1. h \in TheTables
        <5>1. h = f => vp2[q] = f /\ f # 0
          BY <3>3, <1>2, <1>6
        <5> QED BY <5>1, <3>3, <1>9 DEF TheTables
      <4>2. h \in TablePages /\ pp_ref[h] = 1 + Cardinality(Places(window, h))
        BY <4>1, TablesInUse DEF VptInv, RefsExact
      <4>3. pp_ref'[h] = pp_ref[h]
        BY <3>3, <4>2, <1>7
      <4> QED BY <4>2, <4>3
    <3> QED BY <3>1, <3>2, <3>3
  <2> QED BY <2>1, <1>3 DEF RefsExact
<1>13. NobodyThere'
  BY <1>3 DEF NobodyThere
<1> QED BY <1>8, <1>11, <1>12, <1>13 DEF VptInv

\* There are pages for the tables that the window lacks.
LEMMA PagesForTables ==
    ASSUME VptInv, Room, NEW g, g = PagesFor(MissingTables)
    PROVE  DOMAIN g = MissingTables /\ \A k \in MissingTables : g[k] \in Unused(pp_ref)
<1>0. NSLOT \in Nat \ {0} /\ SUB \in Nat \ {0} /\ UVPT_SLOT \in Nat /\ NSLOT <= UVPT_SLOT /\ UVPT_SLOT < SUB
  BY VptPlaces
<1>1. ASSUME NEW w \in Place, Shown(w) # 0 PROVE w \div SUB \in UserSlot \cup {UVPT_SLOT}
  <2>1. \/ w = FirstPlace
        \/ \E s \in UserSlot : w = SecondPlace(s)
        \/ w \in Third
    BY <1>1, ShownIs DEF VptInv
  <2>2. ASSUME NEW r \in Nat, r < SUB, w = SUB * UVPT_SLOT + r PROVE w \div SUB = UVPT_SLOT
    <3>1. SUB * UVPT_SLOT = UVPT_SLOT * SUB
      BY <1>0
    <3>2. (UVPT_SLOT * SUB + r) \div SUB = UVPT_SLOT
      BY <1>0, <2>2, DivModUnique
    <3> QED BY <2>2, <3>1, <3>2
  <2>3. CASE w = FirstPlace
    <3>1. w = SUB * UVPT_SLOT + UVPT_SLOT
      BY <2>3 DEF FirstPlace
    <3> QED BY <2>2, <3>1, <1>0
  <2>4. ASSUME NEW s \in UserSlot, w = SecondPlace(s) PROVE w \div SUB = UVPT_SLOT
    <3>1. w = SUB * UVPT_SLOT + s /\ s \in Nat /\ s < SUB
      BY <2>4, <1>0 DEF SecondPlace, UserSlot
    <3> QED BY <2>2, <3>1
  <2>5. CASE w \in Third
    BY <2>5, ThirdSlot
  <2> QED BY <2>1, <2>3, <2>4, <2>5
<1>2. PICK K : K = MissingTables
  OBVIOUS
<1>3. \A k \in K : k = <<>> \/ \E s \in UserSlot \cup {UVPT_SLOT} : k = <<s>>
  BY <1>1, <1>2 DEF MissingTables
<1>4. PICK h : h = [k \in K |-> IF k = <<>> THEN UVPT_SLOT + 1 ELSE k[1]]
  OBVIOUS
<1>5. h \in [K -> UserSlot \cup {UVPT_SLOT, UVPT_SLOT + 1}]
  BY <1>3, <1>4
<1>6. \A j, k \in K : h[j] = h[k] => j = k
  <2>1. \A s \in UserSlot \cup {UVPT_SLOT} : s # UVPT_SLOT + 1
    BY <1>0 DEF UserSlot
  <2> QED BY <2>1, <1>3, <1>4
<1>7. IsFiniteSet(K) /\ Cardinality(K) <= NSLOT + 2
  <2>1. IsFiniteSet(UserSlot) /\ Cardinality(UserSlot) = NSLOT
    BY <1>0, FS_Interval DEF UserSlot
  <2>2. PICK A : A = UserSlot \cup {UVPT_SLOT}
    OBVIOUS
  <2>3. IsFiniteSet(A) /\ Cardinality(A) \in Nat /\ Cardinality(A) <= NSLOT + 1
    <3>1. IsFiniteSet(A) /\ Cardinality(A) = IF UVPT_SLOT \in UserSlot THEN NSLOT ELSE NSLOT + 1
      BY <2>1, <2>2, FS_AddElement
    <3> QED BY <3>1, <1>0
  <2>4. PICK B : B = A \cup {UVPT_SLOT + 1}
    OBVIOUS
  <2>5. IsFiniteSet(B) /\ Cardinality(B) \in Nat /\ Cardinality(B) <= NSLOT + 2
    <3>1. IsFiniteSet(B) /\ Cardinality(B) = IF UVPT_SLOT + 1 \in A THEN Cardinality(A) ELSE Cardinality(A) + 1
      BY <2>3, <2>4, FS_AddElement
    <3> QED BY <3>1, <2>3, <1>0
  <2>6. h \in Injection(K, B)
    BY <1>5, <1>6, <2>2, <2>4 DEF Injection, IsInjective
  <2>7. IsFiniteSet(K) /\ Cardinality(K) <= Cardinality(B)
    BY <2>5, <2>6, FS_Injection
  <2>8. Cardinality(K) \in Nat
    BY <2>7, FS_CardinalityType
  <2> QED BY <2>5, <2>7, <2>8, <1>0
<1>8. IsFiniteSet(Unused(pp_ref)) /\ Cardinality(K) <= Cardinality(Unused(pp_ref))
  <2>1. IsFiniteSet(Unused(pp_ref)) /\ NSLOT + 3 <= Cardinality(Unused(pp_ref))
    BY RoomForTwo DEF VptInv
  <2>2. Cardinality(K) \in Nat /\ Cardinality(Unused(pp_ref)) \in Nat
    BY <1>7, <2>1, FS_CardinalityType
  <2> QED BY <2>1, <2>2, <1>0, <1>7
<1>9. \E e \in [K -> Unused(pp_ref)] : \A j, k \in K : e[j] = e[k] => j = k
  BY <1>7, <1>8, InjectionExists
<1>10. g = CHOOSE e \in [K -> Unused(pp_ref)] : \A j, k \in K : e[j] = e[k] => j = k
  BY <1>2 DEF PagesFor
<1>11. g \in [K -> Unused(pp_ref)]
  BY <1>9, <1>10
<1> QED BY <1>2, <1>11

\* The window is filled.
LEMMA MapUserVptStep == ASSUME VptInv, map_user_vpt PROVE VptInv'
<1>1. PICK g : g = PagesFor(MissingTables)
  OBVIOUS
<1>2. /\ vp1 # 0 /\ Room /\ vp1' = vp1 /\ vp2' = vp2 /\ vp3' = vp3
      /\ window' = [w \in Place |-> IF Shown(w) # 0 THEN Shown(w) ELSE window[w]]
      /\ pp_ref' = [f \in TablePages |->
                      IF \E k \in DOMAIN g : g[k] = f THEN 1
                      ELSE pp_ref[f] + Cardinality(Places(window', f)) - Cardinality(Places(window, f))]
  BY <1>1 DEF map_user_vpt, page_insert
<1>3. DOMAIN g = MissingTables /\ \A k \in MissingTables : g[k] \in Unused(pp_ref)
  BY <1>1, <1>2, PagesForTables
<1>4. TheTables' = TheTables
  BY <1>2 DEF TheTables
<1>5. /\ \A w \in Place : Shown(w) \in TheTables \cup {0}
      /\ Shown(FirstPlace) = vp1
      /\ \A s \in UserSlot : Shown(SecondPlace(s)) = vp2[s]
      /\ \A x \in Third : Shown(x) = vp3[x]
  BY ShownIs DEF VptInv, TheTables
<1>6. ASSUME NEW w \in Place
      PROVE  window'[w] \in TheTables \cup {0} /\ window'[w] = IF Shown(w) # 0 THEN Shown(w) ELSE window[w]
  BY <1>2, <1>5 DEF VptInv, InPlace
<1>7. InPlace'
  <2>1. window'[FirstPlace] \in {0, vp1}
    BY <1>2, <1>5, <1>6, VptPlaces
  <2>2. \A s \in UserSlot : window'[SecondPlace(s)] \in {0, vp2[s]}
    BY <1>5, <1>6, VptPlaces DEF VptInv, InPlace
  <2>3. \A x \in Third : window'[x] \in {0, vp3[x]}
    BY <1>5, <1>6, VptPlaces DEF VptInv, InPlace
  <2> QED BY <2>1, <2>2, <2>3, <1>2, <1>4, <1>6 DEF InPlace, FirstPlace, SecondPlace
<1>8. pp_ref' \in [TablePages -> Int]
  BY <1>2, PlacesCount DEF VptInv, VptTypes
<1>9. window' \in [Place -> PageOrNone]
  BY <1>2, <1>6, TablesInUse DEF PageOrNone
<1>10. RefsExact'
  <2>1. ASSUME NEW f \in TheTables PROVE pp_ref'[f] = 1 + Cardinality(Places(window', f))
    <3>1. f \in TablePages /\ f \notin Unused(pp_ref)
      BY TablesInUse
    <3>2. ~\E k \in DOMAIN g : g[k] = f
      BY <1>3, <3>1
    <3>3. pp_ref'[f] = pp_ref[f] + Cardinality(Places(window', f)) - Cardinality(Places(window, f))
      BY <1>2, <3>1, <3>2
    <3>4. pp_ref[f] = 1 + Cardinality(Places(window, f))
      BY DEF VptInv, RefsExact
    <3>5. Cardinality(Places(window, f)) \in Nat /\ Cardinality(Places(window', f)) \in Nat
      BY PlacesCount
    <3> QED BY <3>3, <3>4, <3>5
  <2> QED BY <2>1, <1>4 DEF RefsExact
<1>11. NobodyThere'
  BY <1>2 DEF NobodyThere
<1>12. VptTypes'
  BY <1>2, <1>8, <1>9 DEF VptInv, VptTypes
<1> QED BY <1>7, <1>10, <1>11, <1>12 DEF VptInv

\* The window is emptied.
LEMMA UnmapUserVptStep == ASSUME VptInv, unmap_user_vpt PROVE VptInv'
<1>1. vp1' = vp1 /\ vp2' = vp2 /\ vp3' = vp3 /\ vp1 # 0
  BY DEF unmap_user_vpt
<1>2. TheTables' = TheTables
  BY <1>1 DEF TheTables
<1>3. CASE <<>> \notin DOMAIN wtables
  <2>1. window' = window /\ pp_ref' = pp_ref
    BY <1>3 DEF unmap_user_vpt
  <2> QED BY <2>1, <1>1, <1>2 DEF VptInv, VptTypes, InPlace, RefsExact, NobodyThere, FirstPlace, SecondPlace
<1>4. CASE <<>> \in DOMAIN wtables
  <2>1. /\ window' = [w \in Place |-> 0]
        /\ pp_ref' = [f \in TablePages |-> pp_ref[f] - Cardinality(Places(window, f))]
    BY <1>4 DEF unmap_user_vpt
  <2>2. VptTypes'
    BY <1>1, <2>1, PlacesCount DEF VptInv, VptTypes, PageOrNone
  <2>3. InPlace'
    <3>1. /\ window'[FirstPlace] = 0
          /\ \A s \in UserSlot : window'[SecondPlace(s)] = 0
          /\ \A x \in Third : window'[x] = 0
          /\ \A w \in Place : window'[w] = 0
      BY <2>1, VptPlaces
    <3> QED BY <3>1 DEF InPlace, FirstPlace, SecondPlace
  <2>4. RefsExact'
    <3>1. ASSUME NEW f \in TheTables PROVE pp_ref'[f] = 1 + Cardinality(Places(window', f))
      <4>1. f \in TablePages /\ f # 0
        BY TablesInUse DEF TheTables
      <4>2. Cardinality(Places(window', f)) = 0
        BY <2>1, <4>1, NotShown
      <4>3. pp_ref[f] = 1 + Cardinality(Places(window, f)) /\ Cardinality(Places(window, f)) \in Nat
        BY PlacesCount DEF VptInv, RefsExact
      <4>4. pp_ref'[f] = pp_ref[f] - Cardinality(Places(window, f))
        BY <2>1, <4>1
      <4> QED BY <4>2, <4>3, <4>4
    <3> QED BY <3>1, <1>2 DEF RefsExact
  <2>5. NobodyThere'
    BY <1>1 DEF NobodyThere
  <2> QED BY <2>2, <2>3, <2>4, <2>5 DEF VptInv
<1> QED BY <1>3, <1>4

\* The environment is gone.
LEMMA FreeEnvStep == ASSUME VptInv, free_env PROVE VptInv'
<1>1. DOMAIN vp3 = Third
  BY DEF VptInv, VptTypes
<1>2. /\ vp1' = 0 /\ vp2' = [s \in UserSlot |-> 0] /\ vp3' = [x \in Third |-> 0]
      /\ window' = [w \in Place |-> 0]
      /\ pp_ref' = [f \in TablePages |-> pp_ref[f]
            - Cardinality({x \in Third : vp3[x] = f})
            - Cardinality({s \in UserSlot : vp2[s] = f}) - (IF vp1 = f THEN 1 ELSE 0)]
  BY <1>1 DEF free_env
<1>3. ASSUME NEW f \in TablePages
      PROVE  Cardinality({x \in Third : vp3[x] = f}) \in Nat /\ Cardinality({s \in UserSlot : vp2[s] = f}) \in Nat
  <2>1. NSLOT * SUB - 1 \in Int /\ NSLOT - 1 \in Int
    BY VptPlaces
  <2>2. IsFiniteSet(Third) /\ IsFiniteSet(UserSlot)
    BY <2>1, FS_Interval DEF Third, UserSlot
  <2>3. {x \in Third : vp3[x] = f} \in SUBSET Third /\ {s \in UserSlot : vp2[s] = f} \in SUBSET UserSlot
    OBVIOUS
  <2>4. IsFiniteSet({x \in Third : vp3[x] = f}) /\ IsFiniteSet({s \in UserSlot : vp2[s] = f})
    BY <2>2, <2>3, FS_Subset
  <2> QED BY <2>4, FS_CardinalityType
<1>4. pp_ref' \in [TablePages -> Int]
  BY <1>2, <1>3 DEF VptInv, VptTypes
<1>5. VptTypes'
  BY <1>2, <1>4 DEF VptTypes, PageOrNone
<1>6. TheTables' = {}
  BY <1>2 DEF TheTables
<1>7. InPlace'
  <2>1. /\ window'[FirstPlace] = 0
        /\ \A s \in UserSlot : window'[SecondPlace(s)] = 0
        /\ \A x \in Third : window'[x] = 0
        /\ \A w \in Place : window'[w] = 0
    BY <1>2, VptPlaces
  <2> QED BY <2>1 DEF InPlace, FirstPlace, SecondPlace
<1> QED BY <1>2, <1>5, <1>6, <1>7 DEF VptInv, RefsExact, NobodyThere

\* Through any sequence of mapping and unmapping the window (userspace.c:81, 140) and
\* growing the tables, an environment that looks at its page tables sees its own, and
\* none of them can be handed out while the window still shows it.
THEOREM WindowShowsTablesCorrect == VptSpec => []WindowShowsTables
<1>1. VptInit => VptInv
  BY VptInitInv
<1>2. VptInv /\ [VptNext]_vptVars => VptInv'
  <2>1. SUFFICES ASSUME VptInv, [VptNext]_vptVars PROVE VptInv'
    OBVIOUS
  <2>2. CASE UNCHANGED vptVars
    BY <2>1, <2>2 DEF VptInv, VptTypes, InPlace, RefsExact, NobodyThere, TheTables, FirstPlace,
                      SecondPlace, vptVars
  <2>3. CASE VptNext
    <3>1. DOMAIN vp3 = Third
      BY <2>1 DEF VptInv, VptTypes
    <3> QED BY <2>1, <2>3, <3>1, SetupVmStep, MapUserVptStep, UnmapUserVptStep, FreeEnvStep,
               PgdirWalkStep DEF VptNext
  <2> QED BY <2>1, <2>2, <2>3
<1>3. VptInv => WindowShowsTables
  <2>1. SUFFICES ASSUME VptInv PROVE WindowShowsTables
    OBVIOUS
  <2>2. DOMAIN vp3 = Third
    BY <2>1 DEF VptInv, VptTypes
  <2>3. InPlace /\ RefsExact
    BY <2>1 DEF VptInv
  <2> QED BY <2>2, <2>3 DEF WindowShowsTables, InPlace, RefsExact, TheTables
<1> QED BY <1>1, <1>2, <1>3, PTL DEF VptSpec

-----------------------------------------------------------------------------
(* The kernel half of the address spaces.                                   *)

SpaceSpec == SpaceInit /\ [][SpaceNext]_spaceVars

\* env_setup_vm copies every entry the window needs.
WindowCopied == Slot(KMMAP_BEGIN + KMMAP_COUNT - 1) < COPIED

\* What of the heap lies under its first entry is one memory.
FirstEntryShared ==
    \A e \in alive, v \in HeapPage : Slot(v) = 0 => Lookup(e, v) = Lookup(boot, v)

TableFree(u) == {t \in Table : <<"table", t>> \notin u}
PageOf(dir, lower, s, v) ==
    IF dir[s][Slot(v)] = NoTable THEN None ELSE lower[dir[s][Slot(v)]][v % SPAN]

\* First-level entries lead to tables handed out; a table is entered in one
\* slot only, whatever the space; tables not handed out are empty.
TablesSound(dir, lower, u) ==
    /\ dir \in [Space -> [Slots -> Table \cup {NoTable}]]
    /\ \A s \in Space, i \in Slots : dir[s][i] \notin TableFree(u)
    /\ \A s, r \in Space, i, j \in Slots :
          dir[s][i] # NoTable /\ dir[s][i] = dir[r][j] => i = j
    /\ \A t \in TableFree(u), j \in 0 .. SPAN - 1 : lower[t][j] = None

Run(m) == m.at .. m.at + m.pages - 1

\* The window's bitmap says what its callers hold, and no two hold one page.
BitmapExact ==
    /\ \A m \in mappings : m.at \in Window /\ m.pages \in 1 .. SPAN
    /\ \A m, n \in mappings : m # n => Run(m) \cap Run(n) = {}
    /\ \A m \in mappings, j \in Window : j \in Run(m) => kmmap_bmap[j] = m.at + m.pages - j
    /\ \A j \in Window : (\A m \in mappings : j \notin Run(m)) => kmmap_bmap[j] = 0

\* Every address space maps the pages of the window to what their holder asked for.
WindowMapped ==
    \A s \in alive \cup {boot}, j \in Window :
        /\ \A m \in mappings : j \in Run(m) =>
              PageOf(p1, pte, s, KMMAP_BEGIN + j) = <<"mmio", m.pa + (j - m.at)>>
        /\ (\A m \in mappings : j \notin Run(m)) => PageOf(p1, pte, s, KMMAP_BEGIN + j) = None

\* The table of the heap is there, and every environment has it.
HeapTable == p1[boot][0] # NoTable /\ \A e \in alive : p1[e][0] = p1[boot][0]

HalfInv ==
    /\ alive \subseteq Env /\ TablesSound(p1, pte, used)
    /\ BitmapExact /\ WindowMapped /\ HeapTable

\* Constants.
LEMMA SpaceConstants ==
    /\ SPAN \in Nat \ {0} /\ KMMAP_COUNT \in Nat \ {0} /\ COPIED \in Nat \ {0}
    /\ HEAP \in Nat /\ KMMAP_BEGIN \in Nat /\ HEAP <= KMMAP_BEGIN
    /\ PageCounts \subseteq 1 .. SPAN
    /\ Table \subseteq Nat \ {0} /\ IsFiniteSet(Table) /\ Table # {}
    /\ IsFiniteSet(Env) /\ boot \notin Env
BY KernelSpaceAssumption

\* The slot of a later page is no smaller, and the next slot begins within SPAN pages.
LEMMA SlotOrder ==
    ASSUME NEW a \in Nat, NEW b \in Nat, a <= b
    PROVE  /\ Slot(a) \in Nat /\ Slot(b) \in Nat /\ Slot(a) <= Slot(b)
           /\ b < a + SPAN => Slot(b) <= Slot(a) + 1
<1>1. SPAN \in Nat \ {0}
  BY SpaceConstants
<1>2. PICK q \in Nat, r \in Nat : q = Slot(a) /\ r < SPAN /\ a = q * SPAN + r
  BY <1>1, DivMod DEF Slot
<1>3. PICK p \in Nat, x \in Nat : p = Slot(b) /\ x < SPAN /\ b = p * SPAN + x
  BY <1>1, DivMod DEF Slot
<1>4. q <= p
  <2>1. SUFFICES ASSUME p < q PROVE FALSE
    BY <1>2, <1>3
  <2>2. PICK d \in Nat : q = p + 1 + d
    BY <2>1
  <2>3. q * SPAN = p * SPAN + SPAN + d * SPAN /\ d * SPAN \in Nat /\ p * SPAN \in Nat
    BY <1>1, <2>2
  <2>4. PICK k \in Nat, l \in Nat : k = d * SPAN /\ l = p * SPAN
    BY <2>3
  <2>5. a = l + SPAN + k + r /\ b = l + x
    BY <1>2, <1>3, <2>3, <2>4
  <2> QED BY <1>1, <1>3, <2>4, <2>5
<1>5. ASSUME b < a + SPAN PROVE p <= q + 1
  <2>1. SUFFICES ASSUME p > q + 1 PROVE FALSE
    OBVIOUS
  <2>2. PICK d \in Nat : p = q + 2 + d
    BY <2>1
  <2>3. p * SPAN = q * SPAN + 2 * SPAN + d * SPAN /\ d * SPAN \in Nat /\ q * SPAN \in Nat
    BY <1>1, <2>2
  <2>4. PICK k \in Nat, l \in Nat : k = d * SPAN /\ l = q * SPAN
    BY <2>3
  <2>5. b = l + 2 * SPAN + k + x /\ a = l + r
    BY <1>2, <1>3, <2>3, <2>4
  <2> QED BY <1>1, <1>2, <1>5, <2>4, <2>5
<1> QED BY <1>2, <1>3, <1>4, <1>5

\* A page is its slot and its place in it.
LEMMA PageIs ==
    ASSUME NEW a \in Nat, NEW b \in Nat, Slot(a) = Slot(b), a % SPAN = b % SPAN PROVE a = b
<1>1. SPAN \in Nat \ {0}
  BY SpaceConstants
<1>2. a = Slot(a) * SPAN + (a % SPAN) /\ b = Slot(b) * SPAN + (b % SPAN)
  BY <1>1, DivMod DEF Slot
<1> QED BY ONLY Slot(a) = Slot(b), a % SPAN = b % SPAN, <1>2

\* The pages of the window, and those that a run of its pages may reach behind
\* it, have slots; so does the heap.
LEMMA SlotsReach ==
    /\ 0 \in Slots
    /\ \A v \in Nat : v < KMMAP_BEGIN + KMMAP_COUNT + SPAN => Slot(v) \in Slots
    /\ \A v \in Nat : v % SPAN \in 0 .. SPAN - 1
<1>1. KMMAP_BEGIN + KMMAP_COUNT \in Nat /\ SPAN \in Nat \ {0}
  BY SpaceConstants
<1>2. PICK e \in Nat : e = KMMAP_BEGIN + KMMAP_COUNT
  BY <1>1
<1>3. Slot(e) \in Nat /\ Slots = 0 .. Slot(e) + 1
  BY <1>2, SlotOrder DEF Slots
<1>4. ASSUME NEW v \in Nat, v < e + SPAN PROVE Slot(v) \in Slots
  <2>1. CASE v <= e
    <3>1. Slot(v) \in Nat /\ Slot(v) <= Slot(e)
      BY <1>2, <2>1, SlotOrder
    <3> QED BY <1>3, <3>1
  <2>2. CASE e <= v
    <3>1. Slot(v) \in Nat /\ Slot(v) <= Slot(e) + 1
      BY <1>2, <1>4, <2>2, SlotOrder
    <3> QED BY <1>3, <3>1
  <2> QED BY <1>2, <2>1, <2>2
<1>5. \A v \in Nat : v % SPAN \in 0 .. SPAN - 1
  BY <1>1, DivMod
<1> QED BY <1>1, <1>2, <1>3, <1>4, <1>5

Missing(spaces, pages) ==
    {p \in spaces \X {Slot(v) : v \in pages} : p1[p[1]][p[2]] = NoTable}

\* There is a free table for each of them.
EnoughTables(spaces, pages) ==
    \E g \in [Missing(spaces, pages) -> FreeTables] :
        \A j, k \in Missing(spaces, pages) : g[j] = g[k] => j = k

\* The tables w have what was there and the entries in each of the spaces, and
\* no other page changes in any space.
StoresEntries(w, spaces, entries) ==
    /\ TablesSound(w.p1, w.pte, w.used)
    /\ \A s \in Space, i \in Slots : p1[s][i] # NoTable => w.p1[s][i] = p1[s][i]
    /\ \A s \in Space, v \in Nat : Slot(v) \in Slots /\ v \notin DOMAIN entries =>
          PageOf(w.p1, w.pte, s, v) = PageOf(p1, pte, s, v)
    /\ \A s \in spaces, v \in DOMAIN entries : PageOf(w.p1, w.pte, s, v) = entries[v]

\* map_mem does that, with a table for every slot that has none.
LEMMA MapMemIs ==
    ASSUME NEW spaces \in SUBSET Space, NEW entries, NEW w,
           TablesSound(p1, pte, used),
           DOMAIN entries \subseteq Nat, \A v \in DOMAIN entries : Slot(v) \in Slots,
           EnoughTables(spaces, DOMAIN entries), w = map_mem(spaces, entries)
    PROVE  StoresEntries(w, spaces, entries)
<1> DEFINE D == DOMAIN entries
           M == {p \in spaces \X {Slot(v) : v \in D} : p1[p[1]][p[2]] = NoTable}
           made == TablesFor(M)
           dir == [s \in Space |-> [i \in Slots |->
                      IF <<s, i>> \in M THEN made[<<s, i>>] ELSE p1[s][i]]]
           At(t, j) == {v \in D : v % SPAN = j /\ \E s \in spaces : dir[s][Slot(v)] = t}
           lower == [t \in Table |-> [j \in 0 .. SPAN - 1 |->
                        IF At(t, j) = {} THEN pte[t][j] ELSE entries[CHOOSE v \in At(t, j) : TRUE]]]
<1>1. D = DOMAIN entries
  OBVIOUS
<1>2. M = Missing(spaces, D)
  BY DEF Missing
<1>3. made = TablesFor(M)
  OBVIOUS
<1>4. dir = [s \in Space |-> [i \in Slots |-> IF <<s, i>> \in M THEN made[<<s, i>>] ELSE p1[s][i]]]
  OBVIOUS
<1>5. lower = [t \in Table |-> [j \in 0 .. SPAN - 1 |->
                  IF At(t, j) = {} THEN pte[t][j] ELSE entries[CHOOSE v \in At(t, j) : TRUE]]]
  OBVIOUS
<1>6. w = [p1 |-> dir, pte |-> lower, used |-> used \cup {<<"table", made[p]>> : p \in M}]
  BY Zenon DEF map_mem
<1> HIDE DEF D, M, made, dir, lower
<1>7. PICK u : u = used \cup {<<"table", made[p]>> : p \in M}
  OBVIOUS
<1>8. w.p1 = dir /\ w.pte = lower /\ w.used = u
  BY <1>6, <1>7
<1>9. /\ p1 \in [Space -> [Slots -> Table \cup {NoTable}]]
      /\ \A s \in Space, i \in Slots : p1[s][i] \notin TableFree(used)
      /\ \A s, r \in Space, i, j \in Slots : p1[s][i] # NoTable /\ p1[s][i] = p1[r][j] => i = j
      /\ \A t \in TableFree(used), j \in 0 .. SPAN - 1 : pte[t][j] = None
  BY DEF TablesSound
<1>10. FreeTables = TableFree(used) /\ TableFree(used) \subseteq Table /\ NoTable \notin Table
  BY SpaceConstants DEF FreeTables, TableFree, NoTable
<1>11. made \in [M -> TableFree(used)] /\ \A j, k \in M : made[j] = made[k] => j = k
  <2>1. \E g \in [M -> FreeTables] : \A j, k \in M : g[j] = g[k] => j = k
    BY <1>1, <1>2 DEF EnoughTables
  <2>2. made = CHOOSE g \in [M -> FreeTables] : \A j, k \in M : g[j] = g[k] => j = k
    BY <1>3 DEF TablesFor
  <2> QED BY <1>10, <2>1, <2>2
<1>12. \A s \in Space, i \in Slots : dir[s][i] = IF <<s, i>> \in M THEN made[<<s, i>>] ELSE p1[s][i]
  BY <1>4
<1>13. dir \in [Space -> [Slots -> Table \cup {NoTable}]]
  BY <1>4, <1>9, <1>10, <1>11
<1>14. TableFree(u) = TableFree(used) \ {made[p] : p \in M}
  BY <1>7 DEF TableFree
<1>15. \A s \in Space, i \in Slots : <<s, i>> \in M => p1[s][i] = NoTable /\ made[<<s, i>>] \in TableFree(used)
  BY <1>2, <1>11 DEF Missing
<1>16. \A s \in Space, i \in Slots : dir[s][i] \notin TableFree(u)
  <2>1. \A s \in Space, i \in Slots : <<s, i>> \in M => made[<<s, i>>] \notin TableFree(u)
    BY <1>14
  <2>2. \A s \in Space, i \in Slots : p1[s][i] \notin TableFree(u)
    BY <1>9, <1>14
  <2> QED BY <1>12, <2>1, <2>2
<1>17. ASSUME NEW s \in Space, NEW r \in Space, NEW i \in Slots, NEW j \in Slots,
              dir[s][i] # NoTable, dir[s][i] = dir[r][j]
       PROVE  i = j
  <2>1. CASE <<s, i>> \in M /\ <<r, j>> \in M
    <3>1. <<s, i>> = <<r, j>>
      BY <1>11, <1>12, <1>17, <2>1
    <3> QED BY <3>1
  <2>2. CASE <<s, i>> \in M /\ <<r, j>> \notin M
    BY <1>9, <1>12, <1>15, <1>17, <2>2
  <2>3. CASE <<s, i>> \notin M /\ <<r, j>> \in M
    BY <1>9, <1>12, <1>15, <1>17, <2>3
  <2>4. CASE <<s, i>> \notin M /\ <<r, j>> \notin M
    BY <1>9, <1>12, <1>17, <2>4
  <2> QED BY <2>1, <2>2, <2>3, <2>4
<1>18. \A s \in Space, i \in Slots : p1[s][i] # NoTable => dir[s][i] = p1[s][i]
  BY <1>12, <1>15
<1>19. ASSUME NEW t \in Table, NEW j \in 0 .. SPAN - 1, At(t, j) = {} PROVE lower[t][j] = pte[t][j]
  BY <1>5, <1>19
<1>20. ASSUME NEW t \in TableFree(u), NEW j \in 0 .. SPAN - 1 PROVE lower[t][j] = None
  <2>1. At(t, j) = {}
    <3>1. SUFFICES ASSUME NEW v \in D, NEW s \in spaces, dir[s][Slot(v)] = t PROVE FALSE
      OBVIOUS
    <3>2. s \in Space /\ Slot(v) \in Slots
      BY <1>1
    <3> QED BY <1>16, <3>1, <3>2
  <2>2. t \in TableFree(used) /\ t \in Table
    BY <1>10, <1>14
  <2>3. lower[t][j] = pte[t][j]
    BY <1>19, <2>1, <2>2
  <2> QED BY <1>9, <2>2, <2>3
<1>21. TablesSound(dir, lower, u)
  BY <1>13, <1>16, <1>17, <1>20 DEF TablesSound
<1>22. ASSUME NEW s \in Space, NEW v \in Nat, Slot(v) \in Slots, dir[s][Slot(v)] # NoTable,
              NEW x \in At(dir[s][Slot(v)], v % SPAN)
       PROVE  x = v
  <2>1. PICK r \in spaces : x \in D /\ x % SPAN = v % SPAN /\ dir[r][Slot(x)] = dir[s][Slot(v)]
    OBVIOUS
  <2>2. r \in Space /\ x \in Nat /\ Slot(x) \in Slots
    BY <1>1, <2>1
  <2>3. Slot(v) = Slot(x)
    BY <1>17, <1>22, <2>1, <2>2
  <2> QED BY <2>1, <2>2, <2>3, PageIs
<1>23. \A v \in Nat : v % SPAN \in 0 .. SPAN - 1
  BY SlotsReach
<1>24. ASSUME NEW s \in Space, NEW v \in Nat, Slot(v) \in Slots, v \notin D
       PROVE  PageOf(dir, lower, s, v) = PageOf(p1, pte, s, v)
  <2>1. CASE dir[s][Slot(v)] = NoTable
    <3>1. p1[s][Slot(v)] = NoTable
      BY <1>18, <1>24, <2>1
    <3> QED BY <2>1, <3>1 DEF PageOf
  <2>2. CASE dir[s][Slot(v)] # NoTable
    <3>1. PICK t \in Table : t = dir[s][Slot(v)]
      BY <1>13, <1>24, <2>2
    <3>2. At(t, v % SPAN) = {}
      <4>1. \A x \in At(t, v % SPAN) : x = v
        BY <1>22, <1>24, <2>2, <3>1
      <4>2. At(t, v % SPAN) \subseteq D
        OBVIOUS
      <4> QED BY <1>24, <4>1, <4>2
    <3>3. lower[t][v % SPAN] = pte[t][v % SPAN]
      BY <1>19, <1>23, <3>2
    <3>4. CASE <<s, Slot(v)>> \in M
      <4>1. p1[s][Slot(v)] = NoTable /\ t \in TableFree(used)
        BY <1>12, <1>15, <1>24, <3>1, <3>4
      <4>2. pte[t][v % SPAN] = None
        BY <1>9, <1>23, <4>1
      <4> QED BY <2>2, <3>1, <3>3, <4>1, <4>2 DEF PageOf
    <3>5. CASE <<s, Slot(v)>> \notin M
      <4>1. p1[s][Slot(v)] = t
        BY <1>12, <1>24, <3>1, <3>5
      <4> QED BY <2>2, <3>1, <3>3, <4>1 DEF PageOf
    <3> QED BY <3>4, <3>5
  <2> QED BY <2>1, <2>2
<1>25. ASSUME NEW s \in spaces, NEW v \in D PROVE PageOf(dir, lower, s, v) = entries[v]
  <2>1. s \in Space /\ v \in Nat /\ Slot(v) \in Slots
    BY <1>1
  <2>2. dir[s][Slot(v)] # NoTable
    <3>1. CASE p1[s][Slot(v)] = NoTable
      <4>1. <<s, Slot(v)>> \in M
        BY <1>2, <3>1 DEF Missing
      <4> QED BY <1>10, <1>12, <1>15, <2>1, <4>1
    <3>2. CASE p1[s][Slot(v)] # NoTable
      BY <1>18, <2>1, <3>2
    <3> QED BY <3>1, <3>2
  <2>3. PICK t \in Table : t = dir[s][Slot(v)]
    BY <1>13, <2>1, <2>2
  <2>4. At(t, v % SPAN) = {v}
    <3>1. \A x \in At(t, v % SPAN) : x = v
      BY <1>22, <2>1, <2>2, <2>3
    <3>2. v \in At(t, v % SPAN)
      BY <2>3
    <3> QED BY <3>1, <3>2
  <2>5. lower[t][v % SPAN] = entries[CHOOSE x \in At(t, v % SPAN) : TRUE]
    <3>1. v % SPAN \in 0 .. SPAN - 1 /\ At(t, v % SPAN) # {}
      BY <1>23, <2>1, <2>4
    <3> QED BY <1>5, <3>1
  <2>6. (CHOOSE x \in At(t, v % SPAN) : TRUE) = v
    BY <2>4
  <2> QED BY <2>2, <2>3, <2>5, <2>6 DEF PageOf
<1> QED BY <1>1, <1>8, <1>18, <1>21, <1>24, <1>25 DEF StoresEntries

\* unmap_mem empties the pages asked for in each of the spaces and no other.
LEMMA UnmapMemIs ==
    ASSUME NEW spaces \in SUBSET Space, NEW pages \in SUBSET Nat, NEW lower,
           TablesSound(p1, pte, used), \A v \in pages : Slot(v) \in Slots,
           lower = unmap_mem(spaces, pages)
    PROVE  /\ TablesSound(p1, lower, used)
           /\ \A s \in Space, v \in Nat : Slot(v) \in Slots /\ v \notin pages =>
                 PageOf(p1, lower, s, v) = PageOf(p1, pte, s, v)
           /\ \A s \in spaces, v \in pages : PageOf(p1, lower, s, v) = None
<1>1. /\ p1 \in [Space -> [Slots -> Table \cup {NoTable}]]
      /\ \A s \in Space, i \in Slots : p1[s][i] \notin TableFree(used)
      /\ \A s, r \in Space, i, j \in Slots : p1[s][i] # NoTable /\ p1[s][i] = p1[r][j] => i = j
      /\ \A t \in TableFree(used), j \in 0 .. SPAN - 1 : pte[t][j] = None
  BY DEF TablesSound
<1>2. \A t \in Table, j \in 0 .. SPAN - 1 :
          lower[t][j] = IF \E s \in spaces, v \in pages : p1[s][Slot(v)] = t /\ v % SPAN = j
                        THEN None ELSE pte[t][j]
  BY DEF unmap_mem
<1>3. TableFree(used) \subseteq Table
  BY DEF TableFree
<1>4. \A t \in TableFree(used), j \in 0 .. SPAN - 1 : lower[t][j] = None
  BY <1>1, <1>2, <1>3
<1>5. TablesSound(p1, lower, used)
  BY <1>1, <1>4 DEF TablesSound
<1>6. \A v \in Nat : v % SPAN \in 0 .. SPAN - 1
  BY SlotsReach
<1>7. ASSUME NEW s \in Space, NEW v \in Nat, Slot(v) \in Slots, v \notin pages
      PROVE  PageOf(p1, lower, s, v) = PageOf(p1, pte, s, v)
  <2>1. CASE p1[s][Slot(v)] = NoTable
    BY <2>1 DEF PageOf
  <2>2. CASE p1[s][Slot(v)] # NoTable
    <3>1. PICK t \in Table : t = p1[s][Slot(v)]
      BY <1>1, <1>7, <2>2
    <3>2. ASSUME NEW r \in spaces, NEW x \in pages, p1[r][Slot(x)] = t, x % SPAN = v % SPAN
          PROVE  FALSE
      <4>1. r \in Space /\ x \in Nat /\ Slot(x) \in Slots
        OBVIOUS
      <4>2. Slot(v) = Slot(x)
        BY <1>1, <1>7, <2>2, <3>1, <3>2, <4>1
      <4>3. x = v
        BY <3>2, <4>1, <4>2, PageIs
      <4> QED BY <1>7, <4>3
    <3>3. lower[t][v % SPAN] = pte[t][v % SPAN]
      BY <1>2, <1>6, <3>2
    <3> QED BY <2>2, <3>1, <3>3 DEF PageOf
  <2> QED BY <2>1, <2>2
<1>8. ASSUME NEW s \in spaces, NEW v \in pages PROVE PageOf(p1, lower, s, v) = None
  <2>1. CASE p1[s][Slot(v)] = NoTable
    BY <2>1 DEF PageOf
  <2>2. CASE p1[s][Slot(v)] # NoTable
    <3>1. PICK t \in Table : t = p1[s][Slot(v)]
      BY <1>1, <2>2
    <3>2. lower[t][v % SPAN] = None
      BY <1>2, <1>6, <3>1
    <3> QED BY <2>2, <3>1, <3>2 DEF PageOf
  <2> QED BY <2>1, <2>2
<1> QED BY <1>5, <1>7, <1>8

\* TablesLeft is enough for a mapping of at most SPAN pages in any of the spaces.
LEMMA TablesSuffice ==
    ASSUME alive \subseteq Env, TablesLeft, NEW v \in Nat, NEW n \in 1 .. SPAN,
           NEW spaces \in SUBSET (alive \cup {boot})
    PROVE  EnoughTables(spaces, v .. v + n - 1)
<1>1. PICK S : S = alive \cup {boot}
  OBVIOUS
<1>2. PICK two : two = {Slot(v), Slot(v) + 1}
  OBVIOUS
<1>3. IsFiniteSet(alive) /\ boot \notin alive
  BY SpaceConstants, FS_Subset
<1>4. IsFiniteSet(S) /\ Cardinality(S) = Cardinality(alive) + 1 /\ Cardinality(alive) \in Nat
  BY <1>1, <1>3, FS_AddElement, FS_CardinalityType
<1>5. Slot(v) \in Nat
  BY SlotOrder
<1>6. IsFiniteSet(two) /\ Cardinality(two) = 2
  <2>1. two = {Slot(v)} \cup {Slot(v) + 1} /\ Slot(v) + 1 \notin {Slot(v)}
    BY <1>2, <1>5
  <2>2. IsFiniteSet({Slot(v)}) /\ Cardinality({Slot(v)}) = 1
    BY FS_Singleton
  <2> QED BY <2>1, <2>2, FS_AddElement
<1>7. IsFiniteSet(S \X two) /\ Cardinality(S \X two) = Cardinality(S) * Cardinality(two)
  BY <1>4, <1>6, FS_Product
<1>8. PICK M : M = Missing(spaces, v .. v + n - 1)
  OBVIOUS
<1>9. M \subseteq S \X two
  <2>1. ASSUME NEW x \in v .. v + n - 1 PROVE Slot(x) \in two
    <3>1. x \in Nat /\ v <= x /\ x < v + SPAN
      BY SpaceConstants
    <3>2. Slot(x) \in Nat /\ Slot(v) <= Slot(x) /\ Slot(x) <= Slot(v) + 1
      BY <3>1, SlotOrder
    <3> QED BY <1>2, <1>5, <3>2
  <2> QED BY <1>1, <1>8, <2>1 DEF Missing
<1>10. IsFiniteSet(M) /\ Cardinality(M) <= Cardinality(S \X two)
  BY <1>7, <1>9, FS_Subset
<1>11. IsFiniteSet(FreeTables)
  <2>1. FreeTables \in SUBSET Table
    BY DEF FreeTables
  <2> QED BY <2>1, SpaceConstants, FS_Subset
<1>12. Cardinality(M) <= Cardinality(FreeTables)
  <2>1. PICK a \in Nat : a = Cardinality(alive)
    BY <1>4
  <2>2. Cardinality(S \X two) = 2 * (1 + a)
    BY <1>4, <1>6, <1>7, <2>1
  <2>3. Cardinality(FreeTables) >= 2 * (1 + a) /\ Cardinality(FreeTables) \in Nat /\ Cardinality(M) \in Nat
    BY <1>10, <1>11, <2>1, FS_CardinalityType DEF TablesLeft
  <2> QED BY <1>10, <2>2, <2>3
<1>13. \E g \in [M -> FreeTables] : \A j, k \in M : g[j] = g[k] => j = k
  BY <1>10, <1>11, <1>12, InjectionExists
<1> QED BY <1>8, <1>13 DEF EnoughTables

\* The slots of the pages of the heap and of the window.
LEMMA KernelSlots ==
    ASSUME WindowCopied
    PROVE  /\ \A v \in HeapPage : v \in Nat /\ v < KMMAP_BEGIN /\ Slot(v) \in Slots
           /\ \A j \in Window : /\ KMMAP_BEGIN + j \in Nat /\ Slot(KMMAP_BEGIN + j) \in Slots
                                /\ Slot(KMMAP_BEGIN + j) < COPIED
<1>1. ASSUME NEW v \in HeapPage PROVE v \in Nat /\ v < KMMAP_BEGIN /\ Slot(v) \in Slots
  <2>1. v \in Nat /\ v < KMMAP_BEGIN /\ v < KMMAP_BEGIN + KMMAP_COUNT + SPAN
    BY SpaceConstants DEF HeapPage
  <2> QED BY <2>1, SlotsReach
<1>2. ASSUME NEW j \in Window
      PROVE  /\ KMMAP_BEGIN + j \in Nat /\ Slot(KMMAP_BEGIN + j) \in Slots
             /\ Slot(KMMAP_BEGIN + j) < COPIED
  <2>1. PICK v \in Nat, e \in Nat : v = KMMAP_BEGIN + j /\ e = KMMAP_BEGIN + KMMAP_COUNT - 1 /\ v <= e
    BY SpaceConstants DEF Window
  <2>2. Slot(v) \in Nat /\ Slot(e) \in Nat /\ Slot(v) <= Slot(e) /\ Slot(e) < COPIED
    BY <2>1, SlotOrder DEF WindowCopied
  <2>3. v < KMMAP_BEGIN + KMMAP_COUNT + SPAN
    BY <2>1, SpaceConstants
  <2> QED BY <2>1, <2>2, <2>3, SlotsReach, SpaceConstants
<1> QED BY <1>1, <1>2

\* At the start.
LEMMA SpaceInitInv == ASSUME SpaceInit, WindowCopied PROVE HalfInv
<1>1. PICK t \in Table : /\ p1 = [s \in Space |-> [i \in Slots |-> IF s = boot /\ i = 0 THEN t ELSE NoTable]]
                         /\ used = {<<"table", t>>}
  <2>1. Table \subseteq Nat /\ Table # {}
    BY SpaceConstants
  <2>2. Min(Table) \in Table
    BY <2>1, MinIsLeast
  <2> QED BY <2>2 DEF SpaceInit, kmalloc_init_table
<1>2. /\ alive = {} /\ pte = [x \in Table |-> [i \in 0 .. SPAN - 1 |-> None]]
      /\ kmmap_bmap = [i \in Window |-> 0] /\ mappings = {}
  BY DEF SpaceInit
<1>3. NoTable \notin Table /\ boot \in Space /\ 0 \in Slots
  BY SpaceConstants, SlotsReach DEF NoTable, Space
<1>4. \A s \in Space, i \in Slots : p1[s][i] = IF s = boot /\ i = 0 THEN t ELSE NoTable
  BY <1>1
<1>5. TableFree(used) \subseteq Table /\ t \notin TableFree(used)
  BY <1>1 DEF TableFree
<1>6. TablesSound(p1, pte, used)
  <2>1. p1 \in [Space -> [Slots -> Table \cup {NoTable}]]
    BY <1>1
  <2>2. \A s \in Space, i \in Slots : p1[s][i] \notin TableFree(used)
    BY <1>3, <1>4, <1>5
  <2>3. \A s, r \in Space, i, j \in Slots : p1[s][i] # NoTable /\ p1[s][i] = p1[r][j] => i = j
    BY <1>4
  <2>4. \A x \in TableFree(used), j \in 0 .. SPAN - 1 : pte[x][j] = None
    BY <1>2, <1>5
  <2> QED BY <2>1, <2>2, <2>3, <2>4 DEF TablesSound
<1>7. BitmapExact
  BY <1>2 DEF BitmapExact
<1>8. ASSUME NEW j \in Window PROVE PageOf(p1, pte, boot, KMMAP_BEGIN + j) = None
  <2>1. PICK v \in Nat : v = KMMAP_BEGIN + j /\ Slot(v) \in Slots
    BY KernelSlots
  <2>2. v % SPAN \in 0 .. SPAN - 1
    BY SlotsReach
  <2>3. p1[boot][Slot(v)] \in {t, NoTable} /\ pte[t][v % SPAN] = None
    BY <1>2, <1>3, <1>4, <2>1, <2>2
  <2> QED BY <2>1, <2>3 DEF PageOf
<1>9. WindowMapped
  BY <1>2, <1>8 DEF WindowMapped
<1>10. HeapTable
  BY <1>2, <1>3, <1>4 DEF HeapTable
<1> QED BY <1>2, <1>6, <1>7, <1>9, <1>10 DEF HalfInv

\* A new environment has the window and the heap of the boot table.
LEMMA EnvSetupVmStep ==
    ASSUME HalfInv, WindowCopied, NEW e \in Env, env_setup_vm(e) PROVE HalfInv'
<1>1. /\ alive' = alive \cup {e} /\ pte' = pte /\ used' = used
      /\ kmmap_bmap' = kmmap_bmap /\ mappings' = mappings
      /\ p1' = [p1 EXCEPT ![e] = [i \in Slots |-> IF i < COPIED THEN p1[boot][i] ELSE NoTable]]
  BY DEF env_setup_vm
<1>2. /\ p1 \in [Space -> [Slots -> Table \cup {NoTable}]]
      /\ \A s \in Space, i \in Slots : p1[s][i] \notin TableFree(used)
      /\ \A s, r \in Space, i, j \in Slots : p1[s][i] # NoTable /\ p1[s][i] = p1[r][j] => i = j
      /\ \A t \in TableFree(used), j \in 0 .. SPAN - 1 : pte[t][j] = None
  BY DEF HalfInv, TablesSound
<1>3. e \in Space /\ boot \in Space /\ boot # e /\ 0 \in Slots /\ alive \subseteq Env /\ Env \subseteq Space
  BY SpaceConstants, SlotsReach DEF Space, HalfInv
<1>4. /\ \A s \in Space \ {e} : p1'[s] = p1[s]
      /\ \A i \in Slots : p1'[e][i] = IF i < COPIED THEN p1[boot][i] ELSE NoTable
      /\ p1' \in [Space -> [Slots -> Table \cup {NoTable}]]
  BY <1>1, <1>2, <1>3
<1>5. \A s \in Space : \E r \in Space : \A i \in Slots : p1'[s][i] \in {NoTable, p1[r][i]}
  BY <1>3, <1>4
<1>6. NoTable \notin TableFree(used)
  BY SpaceConstants DEF NoTable, TableFree
<1>7. TablesSound(p1', pte', used')
  <2>1. \A s \in Space, i \in Slots : p1'[s][i] \notin TableFree(used)
    BY <1>2, <1>5, <1>6
  <2>2. ASSUME NEW s \in Space, NEW r \in Space, NEW i \in Slots, NEW j \in Slots,
               p1'[s][i] # NoTable, p1'[s][i] = p1'[r][j]
        PROVE  i = j
    <3>1. PICK x \in Space : p1'[s][i] = p1[x][i]
      BY <1>5, <2>2
    <3>2. PICK y \in Space : p1'[r][j] = p1[y][j]
      BY <1>5, <2>2
    <3>3. p1[x][i] # NoTable /\ p1[x][i] = p1[y][j]
      BY ONLY <2>2, <3>1, <3>2
    <3> QED BY <1>2, <3>3
  <2> QED BY <1>1, <1>2, <1>4, <2>1, <2>2 DEF TablesSound
<1>8. BitmapExact'
  BY <1>1 DEF HalfInv, BitmapExact, Run
<1>9. ASSUME NEW s \in alive' \cup {boot}, NEW j \in Window
      PROVE  \E r \in alive \cup {boot} :
                 PageOf(p1', pte', s, KMMAP_BEGIN + j) = PageOf(p1, pte, r, KMMAP_BEGIN + j)
  <2>1. Slot(KMMAP_BEGIN + j) \in Slots /\ Slot(KMMAP_BEGIN + j) < COPIED
    BY KernelSlots
  <2>2. CASE s = e
    <3>1. p1'[e][Slot(KMMAP_BEGIN + j)] = p1[boot][Slot(KMMAP_BEGIN + j)]
      BY <1>4, <2>1
    <3>2. PageOf(p1', pte', s, KMMAP_BEGIN + j) = PageOf(p1, pte, boot, KMMAP_BEGIN + j)
      BY <1>1, <2>2, <3>1 DEF PageOf
    <3> QED BY <3>2
  <2>3. CASE s # e
    <3>1. s \in alive \cup {boot} /\ p1'[s] = p1[s]
      BY <1>1, <1>3, <1>4, <2>3
    <3>2. PageOf(p1', pte', s, KMMAP_BEGIN + j) = PageOf(p1, pte, s, KMMAP_BEGIN + j)
      BY <1>1, <3>1 DEF PageOf
    <3> QED BY <3>1, <3>2
  <2> QED BY <2>2, <2>3
<1>10. WindowMapped'
  <2>1. SUFFICES ASSUME NEW s \in alive' \cup {boot}, NEW j \in Window
        PROVE  /\ \A m \in mappings : j \in Run(m) =>
                     PageOf(p1', pte', s, KMMAP_BEGIN + j) = <<"mmio", m.pa + (j - m.at)>>
               /\ (\A m \in mappings : j \notin Run(m)) => PageOf(p1', pte', s, KMMAP_BEGIN + j) = None
    BY <1>1 DEF WindowMapped, PageOf, Run
  <2> QED BY <1>9 DEF HalfInv, WindowMapped
<1>11. HeapTable'
  <2>1. p1'[e][0] = p1[boot][0] /\ p1'[boot] = p1[boot] /\ \A x \in alive \ {e} : p1'[x] = p1[x]
    BY <1>3, <1>4, SpaceConstants
  <2> QED BY <1>1, <2>1 DEF HalfInv, HeapTable
<1> QED BY <1>1, <1>3, <1>7, <1>8, <1>10, <1>11 DEF HalfInv

\* A freed environment leaves the others as they are.
LEMMA EnvFreeStep ==
    ASSUME HalfInv, WindowCopied, NEW e \in Env, env_free(e) PROVE HalfInv'
<1>1. /\ alive' = alive \ {e} /\ pte' = pte /\ used' = used
      /\ kmmap_bmap' = kmmap_bmap /\ mappings' = mappings
      /\ p1' = [p1 EXCEPT ![e] = [i \in Slots |-> NoTable]]
  BY DEF env_free
<1>2. /\ p1 \in [Space -> [Slots -> Table \cup {NoTable}]]
      /\ \A s \in Space, i \in Slots : p1[s][i] \notin TableFree(used)
      /\ \A s, r \in Space, i, j \in Slots : p1[s][i] # NoTable /\ p1[s][i] = p1[r][j] => i = j
      /\ \A t \in TableFree(used), j \in 0 .. SPAN - 1 : pte[t][j] = None
  BY DEF HalfInv, TablesSound
<1>3. e \in Space /\ boot \in Space /\ boot # e /\ alive \subseteq Env /\ Env \subseteq Space
  BY SpaceConstants DEF Space, HalfInv
<1>4. /\ \A s \in Space \ {e} : p1'[s] = p1[s]
      /\ \A i \in Slots : p1'[e][i] = NoTable
      /\ p1' \in [Space -> [Slots -> Table \cup {NoTable}]]
  BY <1>1, <1>2, <1>3
<1>5. \A s \in Space, i \in Slots : p1'[s][i] \in {NoTable, p1[s][i]}
  BY <1>4
<1>6. NoTable \notin TableFree(used)
  BY SpaceConstants DEF NoTable, TableFree
<1>7. TablesSound(p1', pte', used')
  <2>1. \A s \in Space, i \in Slots : p1'[s][i] \notin TableFree(used)
    BY <1>2, <1>5, <1>6
  <2>2. \A s, r \in Space, i, j \in Slots : p1'[s][i] # NoTable /\ p1'[s][i] = p1'[r][j] => i = j
    BY <1>2, <1>5
  <2> QED BY <1>1, <1>2, <1>4, <2>1, <2>2 DEF TablesSound
<1>8. BitmapExact'
  BY <1>1 DEF HalfInv, BitmapExact, Run
<1>9. ASSUME NEW s \in alive' \cup {boot}
      PROVE  s \in alive \cup {boot} /\ p1'[s] = p1[s]
  BY <1>1, <1>3, <1>4
<1>10. WindowMapped'
  <2>1. SUFFICES ASSUME NEW s \in alive' \cup {boot}, NEW j \in Window
        PROVE  /\ \A m \in mappings : j \in Run(m) =>
                     PageOf(p1', pte', s, KMMAP_BEGIN + j) = <<"mmio", m.pa + (j - m.at)>>
               /\ (\A m \in mappings : j \notin Run(m)) => PageOf(p1', pte', s, KMMAP_BEGIN + j) = None
    BY <1>1 DEF WindowMapped, PageOf, Run
  <2>2. s \in alive \cup {boot} /\ PageOf(p1', pte', s, KMMAP_BEGIN + j) = PageOf(p1, pte, s, KMMAP_BEGIN + j)
    BY <1>1, <1>9 DEF PageOf
  <2> QED BY <2>2 DEF HalfInv, WindowMapped
<1>11. HeapTable'
  BY <1>1, <1>9 DEF HalfInv, HeapTable
<1> QED BY <1>1, <1>3, <1>7, <1>8, <1>10, <1>11 DEF HalfInv

\* What a step needs that changes what the tables map but not what the first
\* level has: the table of the heap stays.
LEMMA HeapTableStays ==
    ASSUME HalfInv, NEW dir, \A s \in Space, i \in Slots : p1[s][i] # NoTable => dir[s][i] = p1[s][i]
    PROVE  dir[boot][0] # NoTable /\ \A e \in alive : dir[e][0] = dir[boot][0]
<1>1. boot \in Space /\ alive \subseteq Space /\ 0 \in Slots
  BY SlotsReach DEF Space, HalfInv
<1>2. p1[boot][0] # NoTable /\ \A e \in alive : p1[e][0] = p1[boot][0]
  BY DEF HalfInv, HeapTable
<1> QED BY <1>1, <1>2

\* Two runs that share a page share a page of the window: a run begins in it.
LEMMA SharedInWindow ==
    ASSUME NEW a \in Window, NEW n \in Nat, NEW b \in Window, NEW m \in Nat,
           NEW x \in a .. a + n - 1, x \in b .. b + m - 1
    PROVE  \E j \in Window : j \in a .. a + n - 1 /\ j \in b .. b + m - 1
<1>1. KMMAP_COUNT \in Nat \ {0}
  BY SpaceConstants
<1>2. CASE x < KMMAP_COUNT
  <2>1. x \in Window
    BY <1>1, <1>2 DEF Window
  <2> QED BY <2>1
<1>3. CASE x >= KMMAP_COUNT
  <2>1. KMMAP_COUNT - 1 \in Window
    BY <1>1 DEF Window
  <2>2. KMMAP_COUNT - 1 \in a .. a + n - 1 /\ KMMAP_COUNT - 1 \in b .. b + m - 1
    BY <1>1, <1>3 DEF Window
  <2> QED BY <2>1, <2>2
<1> QED BY <1>1, <1>2, <1>3 DEF Window

\* A step that changes nothing.
LEMMA HalfUnchanged ==
    ASSUME HalfInv, UNCHANGED <<alive, p1, pte, used, kmmap_bmap, mappings>> PROVE HalfInv'
<1>1. TablesSound(p1', pte', used')
  BY DEF HalfInv
<1>2. BitmapExact'
  BY DEF HalfInv, BitmapExact, Run
<1>3. WindowMapped'
  BY DEF HalfInv, WindowMapped, PageOf, Run
<1>4. HeapTable'
  BY DEF HalfInv, HeapTable
<1> QED BY <1>1, <1>2, <1>3, <1>4 DEF HalfInv

\* A new mapping takes pages nobody holds and every space maps them.
LEMMA KmmapAllocStep ==
    ASSUME HalfInv, WindowCopied, NEW n \in PageCounts, NEW pa, kmmap_alloc(n, pa) PROVE HalfInv'
<1>1. PICK zeroBehind \in BOOLEAN :
          LET starts == {i \in Window : kmmap_bmap[i] = 0 /\ Available(i, n, zeroBehind)}
          IN  IF starts = {}
                THEN UNCHANGED <<p1, pte, used, kmmap_bmap, mappings, overrun>>
                ELSE LET i == Min(starts) IN
                     /\ Set(kmap(KMMAP_BEGIN + i, pa, n))
                     /\ kmmap_bmap' = Marked(i, n)
                     /\ mappings' = mappings \cup {[at |-> i, pages |-> n, pa |-> pa]}
                     /\ overrun' = (overrun \/ i + n > KMMAP_COUNT)
  BY Zenon DEF kmmap_alloc
<1>2. PICK starts : starts = {i \in Window : kmmap_bmap[i] = 0 /\ Available(i, n, zeroBehind)}
  OBVIOUS
<1>3. alive' = alive /\ TablesLeft
  BY Zenon DEF kmmap_alloc
<1>4. CASE starts = {}
  <2>1. UNCHANGED <<p1, pte, used, kmmap_bmap, mappings>>
    BY <1>1, <1>2, <1>4
  <2> QED BY <1>3, <2>1, HalfUnchanged
<1>5. CASE starts # {}
  <2>1. PICK i : i = Min(starts)
    OBVIOUS
  <2>2. i \in starts
    <3>1. starts \subseteq Nat
      BY <1>2, SpaceConstants DEF Window
    <3> QED BY <1>5, <2>1, <3>1, MinIsLeast
  <2>3. i \in Window /\ \A j \in (i .. i + n - 1) \cap Window : kmmap_bmap[j] = 0
    BY <1>2, <2>2 DEF Available
  <2>4. PICK w : w = map_mem(alive \cup {boot}, Mmio(KMMAP_BEGIN + i, pa, n))
    OBVIOUS
  <2>5. PICK new : new = [at |-> i, pages |-> n, pa |-> pa]
    OBVIOUS
  <2>6. /\ p1' = w.p1 /\ pte' = w.pte /\ used' = w.used
        /\ kmmap_bmap' = Marked(i, n) /\ mappings' = mappings \cup {new}
    BY <1>1, <1>2, <1>5, <2>1, <2>4, <2>5 DEF Set, kmap
  <2>7. n \in 1 .. SPAN /\ n \in Nat /\ i \in Nat /\ i < KMMAP_COUNT /\ KMMAP_BEGIN \in Nat
        /\ KMMAP_COUNT \in Nat /\ SPAN \in Nat \ {0}
    BY <2>3, SpaceConstants DEF Window
  <2>8. new.at = i /\ new.pages = n /\ new.pa = pa /\ Run(new) = i .. i + n - 1
    BY <2>5 DEF Run
  <2>9. /\ \A m \in mappings : m.at \in Window /\ m.pages \in 1 .. SPAN
        /\ \A m, k \in mappings : m # k => Run(m) \cap Run(k) = {}
        /\ \A m \in mappings, j \in Window : j \in Run(m) => kmmap_bmap[j] = m.at + m.pages - j
        /\ \A j \in Window : (\A m \in mappings : j \notin Run(m)) => kmmap_bmap[j] = 0
    BY DEF HalfInv, BitmapExact
  <2>10. ASSUME NEW m \in mappings PROVE Run(m) \cap Run(new) = {}
    <3>1. SUFFICES ASSUME NEW x \in Run(m), x \in Run(new) PROVE FALSE
      OBVIOUS
    <3>2. PICK a \in Window, k \in Nat : a = m.at /\ k = m.pages /\ Run(m) = a .. a + k - 1
      BY <2>7, <2>9 DEF Run
    <3>3. PICK j \in Window : j \in a .. a + k - 1 /\ j \in i .. i + n - 1
      BY <2>3, <2>7, <2>8, <3>1, <3>2, SharedInWindow
    <3>4. kmmap_bmap[j] = a + k - j /\ kmmap_bmap[j] = 0
      BY <2>3, <2>9, <3>2, <3>3
    <3> QED BY <3>3, <3>4 DEF Window
  <2>11. \A j \in Window : kmmap_bmap'[j] = IF j \in Run(new) THEN i + n - j ELSE kmmap_bmap[j]
    BY <2>6, <2>8 DEF Marked
  <2>12. BitmapExact'
    <3>1. \A m \in mappings \cup {new} : m.at \in Window /\ m.pages \in 1 .. SPAN
      BY <2>3, <2>7, <2>8, <2>9
    <3>2. \A m, k \in mappings \cup {new} : m # k => Run(m) \cap Run(k) = {}
      BY <2>9, <2>10
    <3>3. ASSUME NEW m \in mappings \cup {new}, NEW j \in Window, j \in Run(m)
          PROVE  kmmap_bmap'[j] = m.at + m.pages - j
      BY <2>8, <2>9, <2>10, <2>11, <3>3
    <3>4. ASSUME NEW j \in Window, \A m \in mappings \cup {new} : j \notin Run(m)
          PROVE  kmmap_bmap'[j] = 0
      BY <2>9, <2>11, <3>4
    <3> QED BY <2>6, <3>1, <3>2, <3>3, <3>4 DEF BitmapExact, Run
  <2>13. PICK v \in Nat : v = KMMAP_BEGIN + i
    BY <2>7
  <2>14. PICK entries : entries = Mmio(v, pa, n)
    OBVIOUS
  <2>15. /\ DOMAIN entries = v .. v + n - 1
         /\ \A u \in v .. v + n - 1 : entries[u] = <<"mmio", pa + (u - v)>>
    BY <2>14 DEF Mmio
  <2>16. ASSUME NEW u \in v .. v + n - 1 PROVE u \in Nat /\ Slot(u) \in Slots
    <3>1. u \in Nat /\ u < KMMAP_BEGIN + KMMAP_COUNT + SPAN
      BY <2>7, <2>13
    <3> QED BY <3>1, SlotsReach
  <2>17. alive \cup {boot} \in SUBSET Space /\ alive \subseteq Env /\ TablesSound(p1, pte, used)
    BY DEF HalfInv, Space
  <2>18. EnoughTables(alive \cup {boot}, v .. v + n - 1)
    BY <1>3, <2>7, <2>17, TablesSuffice
  <2>19. /\ TablesSound(w.p1, w.pte, w.used)
         /\ \A s \in Space, k \in Slots : p1[s][k] # NoTable => w.p1[s][k] = p1[s][k]
         /\ \A s \in Space, u \in Nat : Slot(u) \in Slots /\ u \notin DOMAIN entries =>
               PageOf(w.p1, w.pte, s, u) = PageOf(p1, pte, s, u)
         /\ \A s \in alive \cup {boot}, u \in DOMAIN entries : PageOf(w.p1, w.pte, s, u) = entries[u]
    <3>1. w = map_mem(alive \cup {boot}, entries)
      BY <2>4, <2>13, <2>14
    <3>2. DOMAIN entries \subseteq Nat /\ \A u \in DOMAIN entries : Slot(u) \in Slots
      BY <2>15, <2>16
    <3>3. StoresEntries(w, alive \cup {boot}, entries)
      BY <2>15, <2>17, <2>18, <3>1, <3>2, MapMemIs
    <3> QED BY <3>3 DEF StoresEntries
  <2>20. ASSUME NEW s \in alive \cup {boot}, NEW j \in Window
         PROVE  /\ \A m \in mappings \cup {new} : j \in Run(m) =>
                      PageOf(w.p1, w.pte, s, KMMAP_BEGIN + j) = <<"mmio", m.pa + (j - m.at)>>
                /\ (\A m \in mappings \cup {new} : j \notin Run(m)) =>
                      PageOf(w.p1, w.pte, s, KMMAP_BEGIN + j) = None
    <3>1. PICK u \in Nat : u = KMMAP_BEGIN + j /\ Slot(u) \in Slots
      BY KernelSlots
    <3>2. j \in Int /\ s \in Space
      BY <2>17 DEF Window
    <3>3. CASE j \in Run(new)
      <4>1. u \in v .. v + n - 1 /\ u - v = j - i
        BY <2>7, <2>8, <2>13, <3>1, <3>2, <3>3
      <4>2. PageOf(w.p1, w.pte, s, u) = <<"mmio", pa + (j - i)>>
        BY <2>15, <2>19, <4>1
      <4>3. \A m \in mappings \cup {new} : j \in Run(m) => m = new
        BY <2>10, <3>3
      <4> QED BY <2>8, <3>1, <3>3, <4>2, <4>3
    <3>4. CASE j \notin Run(new)
      <4>1. u \notin v .. v + n - 1
        BY <2>7, <2>8, <2>13, <3>1, <3>2, <3>4
      <4>2. PageOf(w.p1, w.pte, s, u) = PageOf(p1, pte, s, u)
        BY <2>15, <2>19, <3>1, <3>2, <4>1
      <4>3. /\ \A m \in mappings : j \in Run(m) =>
                  PageOf(p1, pte, s, KMMAP_BEGIN + j) = <<"mmio", m.pa + (j - m.at)>>
            /\ (\A m \in mappings : j \notin Run(m)) => PageOf(p1, pte, s, KMMAP_BEGIN + j) = None
        BY DEF HalfInv, WindowMapped
      <4> QED BY <3>1, <3>4, <4>2, <4>3
    <3> QED BY <3>3, <3>4
  <2>21. WindowMapped'
    <3>1. \A s \in alive' \cup {boot}, j \in Window :
             /\ \A m \in mappings' : j \in Run(m) =>
                   PageOf(p1', pte', s, KMMAP_BEGIN + j) = <<"mmio", m.pa + (j - m.at)>>
             /\ (\A m \in mappings' : j \notin Run(m)) => PageOf(p1', pte', s, KMMAP_BEGIN + j) = None
      BY <1>3, <2>6, <2>20, Zenon
    <3> QED BY <3>1, Zenon DEF WindowMapped, Run, PageOf
  <2>22. HeapTable'
    <3>1. w.p1[boot][0] # NoTable /\ \A e \in alive : w.p1[e][0] = w.p1[boot][0]
      BY <2>19, HeapTableStays
    <3> QED BY <1>3, <2>6, <3>1 DEF HeapTable
  <2>23. TablesSound(p1', pte', used')
    BY <2>6, <2>19
  <2> QED BY <1>3, <2>12, <2>17, <2>21, <2>22, <2>23 DEF HalfInv
<1> QED BY <1>4, <1>5

\* What kmmap_free finds at the begin of a mapping is its length; only its pages go.
LEMMA KmmapFreeStep ==
    ASSUME HalfInv, WindowCopied, NEW o \in mappings, kmmap_free(o) PROVE HalfInv'
<1>1. /\ \A m \in mappings : m.at \in Window /\ m.pages \in 1 .. SPAN
      /\ \A m, k \in mappings : m # k => Run(m) \cap Run(k) = {}
      /\ \A m \in mappings, j \in Window : j \in Run(m) => kmmap_bmap[j] = m.at + m.pages - j
      /\ \A j \in Window : (\A m \in mappings : j \notin Run(m)) => kmmap_bmap[j] = 0
  BY DEF HalfInv, BitmapExact
<1>2. PICK i \in Window, n \in 1 .. SPAN : i = o.at /\ n = o.pages /\ Run(o) = i .. i + n - 1
  BY <1>1 DEF Run
<1>3. i \in Nat /\ i < KMMAP_COUNT /\ n \in Nat /\ n >= 1 /\ n <= SPAN
      /\ KMMAP_BEGIN \in Nat /\ KMMAP_COUNT \in Nat /\ SPAN \in Nat \ {0}
  BY <1>2, SpaceConstants DEF Window
<1>4. kmmap_bmap[o.at] = n
  <2>1. i \in Run(o)
    BY <1>2, <1>3
  <2>2. kmmap_bmap[i] = i + n - i
    BY <1>1, <1>2, <2>1
  <2> QED BY <1>2, <1>3, <2>2
<1>5. PICK v \in Nat : v = KMMAP_BEGIN + i
  BY <1>3
<1>6. PICK lower : lower = unmap_mem(alive \cup {boot}, v .. v + n - 1)
  OBVIOUS
<1>7. /\ alive' = alive /\ p1' = p1 /\ used' = used /\ mappings' = mappings \ {o} /\ pte' = lower
      /\ \A j \in Window : kmmap_bmap'[j] = IF j \in Run(o) THEN 0 ELSE kmmap_bmap[j]
  BY <1>2, <1>4, <1>5, <1>6 DEF kmmap_free, kunmap
<1>8. \A j \in Window, m \in mappings \ {o} : j \in Run(m) => j \notin Run(o)
  BY <1>1
<1>9. BitmapExact'
  <2>1. \A m \in mappings \ {o}, j \in Window : j \in Run(m) => kmmap_bmap'[j] = m.at + m.pages - j
    BY <1>1, <1>7, <1>8
  <2>2. ASSUME NEW j \in Window, \A m \in mappings \ {o} : j \notin Run(m) PROVE kmmap_bmap'[j] = 0
    BY <1>1, <1>7, <2>2
  <2>3. \A m, k \in mappings \ {o} : m # k => Run(m) \cap Run(k) = {}
    BY <1>1
  <2> QED BY <1>1, <1>7, <2>1, <2>2, <2>3 DEF BitmapExact, Run
<1>10. ASSUME NEW u \in v .. v + n - 1 PROVE u \in Nat /\ Slot(u) \in Slots
  <2>1. u \in Nat /\ u < KMMAP_BEGIN + KMMAP_COUNT + SPAN
    BY <1>3, <1>5
  <2> QED BY <2>1, SlotsReach
<1>11. alive \cup {boot} \in SUBSET Space /\ alive \subseteq Env /\ TablesSound(p1, pte, used)
  BY DEF HalfInv, Space
<1>12. /\ TablesSound(p1, lower, used)
       /\ \A s \in Space, u \in Nat : Slot(u) \in Slots /\ u \notin v .. v + n - 1 =>
             PageOf(p1, lower, s, u) = PageOf(p1, pte, s, u)
       /\ \A s \in alive \cup {boot}, u \in v .. v + n - 1 : PageOf(p1, lower, s, u) = None
  <2>1. v .. v + n - 1 \in SUBSET Nat /\ \A u \in v .. v + n - 1 : Slot(u) \in Slots
    BY <1>10
  <2>2. PICK S, P : S = alive \cup {boot} /\ P = v .. v + n - 1
    OBVIOUS
  <2>3. S \in SUBSET Space /\ P \in SUBSET Nat /\ lower = unmap_mem(S, P) /\ \A u \in P : Slot(u) \in Slots
    BY <1>6, <1>11, <2>1, <2>2
  <2>4. /\ TablesSound(p1, lower, used)
        /\ \A s \in Space, u \in Nat : Slot(u) \in Slots /\ u \notin P =>
              PageOf(p1, lower, s, u) = PageOf(p1, pte, s, u)
        /\ \A s \in S, u \in P : PageOf(p1, lower, s, u) = None
    BY <1>11, <2>3, UnmapMemIs
  <2> QED BY <2>2, <2>4
<1>13. ASSUME NEW s \in alive \cup {boot}, NEW j \in Window
       PROVE  /\ \A m \in mappings \ {o} : j \in Run(m) =>
                    PageOf(p1, lower, s, KMMAP_BEGIN + j) = <<"mmio", m.pa + (j - m.at)>>
              /\ (\A m \in mappings \ {o} : j \notin Run(m)) =>
                    PageOf(p1, lower, s, KMMAP_BEGIN + j) = None
  <2>1. PICK u \in Nat : u = KMMAP_BEGIN + j /\ Slot(u) \in Slots
    BY KernelSlots
  <2>2. j \in Int /\ s \in Space
    BY <1>11 DEF Window
  <2>3. CASE j \in Run(o)
    <3>1. u \in v .. v + n - 1
      <4>1. i <= j /\ j <= i + n - 1
        BY <1>2, <1>3, <2>2, <2>3
      <4> QED BY <1>3, <1>5, <2>1, <2>2, <4>1
    <3>2. PageOf(p1, lower, s, u) = None
      BY <1>12, <3>1
    <3> QED BY <1>8, <2>1, <2>3, <3>2
  <2>4. CASE j \notin Run(o)
    <3>1. u \notin v .. v + n - 1
      <4>1. ~(i <= j /\ j <= i + n - 1)
        BY <1>2, <1>3, <2>2, <2>4
      <4> QED BY <1>3, <1>5, <2>1, <2>2, <4>1
    <3>2. PageOf(p1, lower, s, u) = PageOf(p1, pte, s, u)
      BY <1>12, <2>1, <2>2, <3>1
    <3>3. /\ \A m \in mappings : j \in Run(m) =>
                PageOf(p1, pte, s, KMMAP_BEGIN + j) = <<"mmio", m.pa + (j - m.at)>>
          /\ (\A m \in mappings : j \notin Run(m)) => PageOf(p1, pte, s, KMMAP_BEGIN + j) = None
      BY DEF HalfInv, WindowMapped
    <3> QED BY <2>1, <2>4, <3>2, <3>3
  <2> QED BY <2>3, <2>4
<1>14. WindowMapped'
  <2>1. \A s \in alive' \cup {boot}, j \in Window :
           /\ \A m \in mappings' : j \in Run(m) =>
                 PageOf(p1', pte', s, KMMAP_BEGIN + j) = <<"mmio", m.pa + (j - m.at)>>
           /\ (\A m \in mappings' : j \notin Run(m)) => PageOf(p1', pte', s, KMMAP_BEGIN + j) = None
    <3>1. alive' = alive /\ p1' = p1 /\ mappings' = mappings \ {o} /\ pte' = lower
      BY <1>7
    <3> QED
      <4> SUFFICES ASSUME NEW s \in alive \cup {boot}, NEW j \in Window
                   PROVE  /\ \A m \in mappings \ {o} : j \in Run(m) =>
                                PageOf(p1, lower, s, KMMAP_BEGIN + j) = <<"mmio", m.pa + (j - m.at)>>
                          /\ (\A m \in mappings \ {o} : j \notin Run(m)) =>
                                PageOf(p1, lower, s, KMMAP_BEGIN + j) = None
        BY <3>1
      <4> QED BY <1>13
  <2> QED BY <2>1, Zenon DEF WindowMapped, Run, PageOf
<1>15. HeapTable'
  BY <1>7 DEF HalfInv, HeapTable
<1>16. TablesSound(p1', pte', used')
  BY <1>7, <1>12
<1> QED BY <1>7, <1>9, <1>11, <1>14, <1>15, <1>16 DEF HalfInv

\* A page of the heap comes into the one table all spaces have there.
LEMMA PassiveAllocStep ==
    ASSUME HalfInv, WindowCopied, NEW r, NEW v \in HeapPage, kernel_passive_alloc(r, v) PROVE HalfInv'
<1>1. PICK f : LET w == map_mem({boot}, [u \in {v} |-> <<"frame", f>>])
               IN  p1' = w.p1 /\ pte' = w.pte /\ used' = w.used \cup {<<"frame", f>>}
  BY DEF kernel_passive_alloc
<1>2. PICK entries : entries = [u \in {v} |-> <<"frame", f>>]
  OBVIOUS
<1>3. PICK w : w = map_mem({boot}, entries)
  OBVIOUS
<1>4. /\ p1' = w.p1 /\ pte' = w.pte /\ used' = w.used \cup {<<"frame", f>>}
      /\ alive' = alive /\ kmmap_bmap' = kmmap_bmap /\ mappings' = mappings
  BY <1>1, <1>2, <1>3 DEF kernel_passive_alloc
<1>5. v \in Nat /\ v < KMMAP_BEGIN /\ Slot(v) \in Slots /\ DOMAIN entries = {v}
  BY <1>2, KernelSlots
<1>6. TablesLeft /\ alive \subseteq Env
  BY DEF kernel_passive_alloc, HalfInv
<1>7. EnoughTables({boot}, DOMAIN entries)
  <2>1. 1 \in 1 .. SPAN /\ v .. v + 1 - 1 = {v}
    BY <1>5, SpaceConstants
  <2> QED BY <1>5, <1>6, <2>1, TablesSuffice
<1>8. {boot} \in SUBSET Space /\ alive \cup {boot} \subseteq Space /\ TablesSound(p1, pte, used)
      /\ alive \subseteq Env
  BY DEF HalfInv, Space
<1>9. /\ TablesSound(w.p1, w.pte, w.used)
      /\ \A s \in Space, k \in Slots : p1[s][k] # NoTable => w.p1[s][k] = p1[s][k]
      /\ \A s \in Space, u \in Nat : Slot(u) \in Slots /\ u \notin DOMAIN entries =>
            PageOf(w.p1, w.pte, s, u) = PageOf(p1, pte, s, u)
  <2>1. DOMAIN entries \subseteq Nat /\ \A u \in DOMAIN entries : Slot(u) \in Slots
    BY <1>5
  <2>2. StoresEntries(w, {boot}, entries)
    BY <1>3, <1>7, <1>8, <2>1, MapMemIs
  <2> QED BY <2>2 DEF StoresEntries
<1>10. TableFree(used') = TableFree(w.used)
  <2>1. \A t : <<"table", t>> # <<"frame", f>>
    OBVIOUS
  <2> QED BY <1>4, <2>1 DEF TableFree
<1>11. TablesSound(p1', pte', used')
  <2>1. TablesSound(w.p1, w.pte, used')
    BY <1>9, <1>10, Zenon DEF TablesSound
  <2> QED BY <1>4, <2>1
<1>12. ASSUME NEW s \in alive \cup {boot}, NEW j \in Window
       PROVE  PageOf(w.p1, w.pte, s, KMMAP_BEGIN + j) = PageOf(p1, pte, s, KMMAP_BEGIN + j)
  <2>1. PICK u \in Nat : u = KMMAP_BEGIN + j /\ Slot(u) \in Slots
    BY KernelSlots
  <2>2. u # v
    BY <1>5, <2>1, SpaceConstants DEF Window
  <2> QED BY <1>5, <1>8, <1>9, <2>1, <2>2
<1>13. WindowMapped'
  BY <1>4, <1>12 DEF HalfInv, WindowMapped, Run, PageOf
<1>14. BitmapExact'
  BY <1>4 DEF HalfInv, BitmapExact, Run
<1>15. HeapTable'
  <2>1. w.p1[boot][0] # NoTable /\ \A e \in alive : w.p1[e][0] = w.p1[boot][0]
    BY <1>9, HeapTableStays
  <2> QED BY <1>4, <2>1 DEF HeapTable
<1> QED BY <1>4, <1>8, <1>11, <1>13, <1>14, <1>15 DEF HalfInv

\* The invariant gives the properties.
LEMMA HalfAgrees == ASSUME HalfInv PROVE FirstEntryShared /\ WindowExact
<1>1. ASSUME NEW e \in alive, NEW v \in HeapPage, Slot(v) = 0 PROVE Lookup(e, v) = Lookup(boot, v)
  <2>1. p1[e][0] = p1[boot][0]
    BY DEF HalfInv, HeapTable
  <2> QED BY <1>1, <2>1 DEF Lookup
<1>2. \A m, n \in mappings : m # n => Run(m) \cap Run(n) = {}
  BY DEF HalfInv, BitmapExact
<1>3. ASSUME NEW s \in alive \cup {boot}, NEW i \in Window
      PROVE  LET own == {m \in mappings : i \in Run(m)}
             IN  Lookup(s, KMMAP_BEGIN + i) =
                     IF own = {} THEN None
                     ELSE LET m == CHOOSE m \in own : TRUE
                          IN  <<"mmio", m.pa + (i - m.at)>>
  <2>1. PICK own : own = {m \in mappings : i \in Run(m)}
    OBVIOUS
  <2>2. Lookup(s, KMMAP_BEGIN + i) = PageOf(p1, pte, s, KMMAP_BEGIN + i)
    BY DEF Lookup, PageOf
  <2>3. /\ \A m \in mappings : i \in Run(m) =>
              PageOf(p1, pte, s, KMMAP_BEGIN + i) = <<"mmio", m.pa + (i - m.at)>>
        /\ (\A m \in mappings : i \notin Run(m)) => PageOf(p1, pte, s, KMMAP_BEGIN + i) = None
    BY DEF HalfInv, WindowMapped
  <2>4. CASE own = {}
    BY <2>1, <2>2, <2>3, <2>4
  <2>5. CASE own # {}
    <3>1. PICK m : m = CHOOSE x \in own : TRUE
      OBVIOUS
    <3>2. m \in own
      BY <2>5, <3>1
    <3>3. Lookup(s, KMMAP_BEGIN + i) = <<"mmio", m.pa + (i - m.at)>>
      BY <2>1, <2>2, <2>3, <3>2
    <3> QED BY <2>1, <2>5, <3>1, <3>3
  <2> QED BY <2>4, <2>5
<1>4. FirstEntryShared
  BY <1>1 DEF FirstEntryShared
<1>5. WindowExact
  BY <1>2, <1>3 DEF WindowExact, Run
<1> QED BY <1>4, <1>5

\* A heap under one entry is under the first.
LEMMA HeapUnderFirst == ASSUME HEAP <= SPAN, NEW v \in HeapPage PROVE Slot(v) = 0
<1>1. v \in Nat /\ v < SPAN /\ SPAN \in Nat \ {0}
  BY SpaceConstants DEF HeapPage
<1>2. 0 * SPAN + v = v
  BY <1>1
<1>3. (0 * SPAN + v) \div SPAN = 0
  BY <1>1, DivModUnique
<1> QED BY <1>2, <1>3 DEF Slot

\* Every step keeps the invariant.
LEMMA SpaceStep == ASSUME WindowCopied, HalfInv, [SpaceNext]_spaceVars PROVE HalfInv'
<1>1. CASE UNCHANGED spaceVars
  BY <1>1, HalfUnchanged DEF spaceVars
<1>2. CASE \E e \in Env : env_setup_vm(e) \/ env_free(e)
  BY <1>2, EnvSetupVmStep, EnvFreeStep
<1>3. CASE \E n \in PageCounts : kmmap_alloc(n, 10 * (1 + Cardinality(mappings)))
  BY <1>3, KmmapAllocStep
<1>4. CASE \E m \in mappings : kmmap_free(m)
  BY <1>4, KmmapFreeStep
<1>5. CASE \E s \in alive \cup {boot}, v \in HeapPage : kernel_passive_alloc(s, v)
  BY <1>5, PassiveAllocStep
<1> QED BY <1>1, <1>2, <1>3, <1>4, <1>5 DEF SpaceNext

\* Every address space maps in the window exactly the mappings that callers of
\* kmmap_alloc hold, no two of which share a page, and shares what of the heap lies
\* under its first entry, whenever environments are made and freed, mappings are
\* made and freed and the heap grows (env_setup_vm, env_free, kmmap_alloc,
\* kmmap_free, kernel_passive_alloc): for any number of environments, any heap,
\* window and lengths of the mappings, if env_setup_vm copies the window's entries.
THEOREM WindowExactCorrect == WindowCopied => (SpaceSpec => [](FirstEntryShared /\ WindowExact))
<1>1. SUFFICES ASSUME WindowCopied PROVE SpaceSpec => [](FirstEntryShared /\ WindowExact)
  OBVIOUS
<1>2. SpaceInit => HalfInv
  BY <1>1, SpaceInitInv
<1>3. HalfInv /\ [SpaceNext]_spaceVars => HalfInv'
  BY <1>1, SpaceStep
<1>4. HalfInv => FirstEntryShared /\ WindowExact
  BY HalfAgrees
<1> QED BY <1>2, <1>3, <1>4, PTL DEF SpaceSpec

\* A heap under one first-level entry is one memory for all of them: the address
\* spaces then have the same kernel half (kmalloc_init makes the table of the
\* heap's first entry before env_setup_vm copies it, and kernel_passive_alloc
\* enters pages in the boot table only).
THEOREM KernelHalfAgreesCorrect ==
    HEAP <= SPAN /\ WindowCopied => (SpaceSpec => []KernelHalfAgrees)
<1>1. SUFFICES ASSUME HEAP <= SPAN, WindowCopied PROVE SpaceSpec => []KernelHalfAgrees
  OBVIOUS
<1>2. FirstEntryShared /\ WindowExact => KernelHalfAgrees
  BY <1>1, HeapUnderFirst DEF FirstEntryShared, HeapShared, KernelHalfAgrees
<1>3. SpaceSpec => [](FirstEntryShared /\ WindowExact)
  BY <1>1, WindowExactCorrect
<1> QED BY <1>2, <1>3, PTL
============================================================================
