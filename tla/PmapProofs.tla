----------------------------- MODULE PmapProofs -----------------------------
(***************************************************************************)
(* Physical memory for any number of pages, address spaces and virtual     *)
(* pages: no page in use is given away, no page table is shared, reference *)
(* counts are exact while the ASIDs last, and copy-on-write keeps address  *)
(* spaces apart.                                                           *)
(***************************************************************************)
EXTENDS Pmap, FiniteSetTheorems, TLAPS

-----------------------------------------------------------------------------
(* Where an address space refers to pages, and the page it refers to there. *)

PageAt(k, s) ==
    CASE s[1] = "pgdir" -> k.pgdir[s[2]]
      [] s[1] = "p1" -> k.p1[s[2]][s[3]]
      [] s[1] = "p2" -> k.p2[s[2]][s[3]]
      [] OTHER -> k.p3[s[2]][s[3]].page

Refs(k, L, p) == {s \in Slots(L) : PageAt(k, s) = p}

\* What is assumed of the constants.
LEMMA Constants ==
    /\ NPage \in Nat /\ VA \subseteq Nat /\ IsFiniteSet(VA) /\ IsFiniteSet(Env)
    /\ NULL \notin Env /\ PTES \in Nat \ {0} /\ USTACKTOP \in Nat /\ NASID \in Nat
    /\ RefMod \in Nat \ {0}
    /\ Perms \subseteq SUBSET {"W", "LIBRARY"} /\ Sfence \in {"exact", "all"}
    /\ NoPage \notin Page /\ Page \subseteq Nat /\ NoEntry \notin Entry
    /\ \A va \in VA : P1X(va) \in P1 /\ P2X(va) \in P2
BY PmapAssumption DEF Page, NoPage, Entry, NoEntry, P1, P2

\* A slot is a page directory, an entry of one of the three levels, and no more.
LEMMA SlotCases ==
    ASSUME NEW L, NEW s
    PROVE  s \in Slots(L) <=>
             \/ \E e \in L : s = <<"pgdir", e, 0>>
             \/ \E e \in L, i \in P1 : s = <<"p1", e, i>>
             \/ \E e \in L, i \in P2 : s = <<"p2", e, i>>
             \/ \E e \in L, va \in VA : s = <<"p3", e, va>>
BY DEF Slots

\* There are finitely many slots.
LEMMA SlotsFinite == ASSUME NEW L \in SUBSET Env PROVE IsFiniteSet(Slots(L))
<1>1. IsFiniteSet(L) /\ IsFiniteSet(VA) /\ IsFiniteSet({0})
  BY Constants, FS_Subset, FS_Singleton
<1>2. IsFiniteSet(P1)
  <2> DEFINE f == [va \in VA |-> P1X(va)]
  <2>1. f \in Surjection(VA, P1)
    BY DEF P1, Surjection
  <2> HIDE DEF f
  <2> QED BY <1>1, <2>1, FS_Surjection DEF ExistsSurjection
<1>3. IsFiniteSet(P2)
  <2> DEFINE f == [va \in VA |-> P2X(va)]
  <2>1. f \in Surjection(VA, P2)
    BY DEF P2, Surjection
  <2> HIDE DEF f
  <2> QED BY <1>1, <2>1, FS_Surjection DEF ExistsSurjection
<1>4. ASSUME NEW t, NEW X, IsFiniteSet(X) PROVE IsFiniteSet({t} \X L \X X)
  <2> DEFINE Y == L \X X
             f == [y \in Y |-> <<t, y[1], y[2]>>]
             Z == {t} \X L \X X
  <2>1. IsFiniteSet(Y)
    BY <1>1, <1>4, FS_Product
  <2>2. f \in Surjection(Y, Z)
    <3>1. \A y \in Y : f[y] \in Z
      OBVIOUS
    <3>2. \A z \in Z : <<z[2], z[3]>> \in Y /\ f[<<z[2], z[3]>>] = z
      OBVIOUS
    <3> HIDE DEF Y, Z
    <3> QED BY <3>1, <3>2 DEF Surjection
  <2> HIDE DEF Y, Z, f
  <2>3. IsFiniteSet(Z)
    BY <2>1, <2>2, FS_Surjection DEF ExistsSurjection
  <2> QED BY <2>3 DEF Z
<1>5. /\ IsFiniteSet({"pgdir"} \X L \X {0}) /\ IsFiniteSet({"p1"} \X L \X P1)
      /\ IsFiniteSet({"p2"} \X L \X P2) /\ IsFiniteSet({"p3"} \X L \X VA)
  BY <1>1, <1>2, <1>3, <1>4
<1>6. IsFiniteSet(({"pgdir"} \X L \X {0}) \cup ({"p1"} \X L \X P1))
  BY <1>5, FS_Union
<1>7. IsFiniteSet(({"pgdir"} \X L \X {0}) \cup ({"p1"} \X L \X P1) \cup ({"p2"} \X L \X P2))
  BY <1>5, <1>6, FS_Union
<1>8. IsFiniteSet(({"pgdir"} \X L \X {0}) \cup ({"p1"} \X L \X P1) \cup ({"p2"} \X L \X P2)
                  \cup ({"p3"} \X L \X VA))
  BY <1>5, <1>7, FS_Union
<1> QED BY <1>8 DEF Slots

\* So a page has finitely many references.
LEMMA RefsFinite ==
    ASSUME NEW L \in SUBSET Env, NEW k, NEW p
    PROVE  IsFiniteSet(Refs(k, L, p)) /\ Cardinality(Refs(k, L, p)) \in Nat
<1>1. Refs(k, L, p) \subseteq Slots(L)
  BY DEF Refs
<1> QED BY <1>1, SlotsFinite, FS_Subset, FS_CardinalityType

\* The references of the property, in the form the proofs use.
LEMMA ReferencesAre == ASSUME NEW p PROVE References(p) = Refs(m, live, p)
<1>1. ASSUME NEW s \in References(p) PROVE s \in Refs(m, live, p)
  BY <1>1 DEF References, Refs, Slots, PageAt
<1>2. ASSUME NEW s \in Refs(m, live, p) PROVE s \in References(p)
  <2>1. s \in Slots(live) /\ PageAt(m, s) = p
    BY <1>2 DEF Refs
  <2>2. CASE \E e \in live : s = <<"pgdir", e, 0>>
    BY <2>1, <2>2 DEF References, PageAt
  <2>3. CASE \E e \in live, i \in P1 : s = <<"p1", e, i>>
    BY <2>1, <2>3 DEF References, PageAt
  <2>4. CASE \E e \in live, i \in P2 : s = <<"p2", e, i>>
    BY <2>1, <2>4 DEF References, PageAt
  <2>5. CASE \E e \in live, va \in VA : s = <<"p3", e, va>>
    BY <2>1, <2>5 DEF References, PageAt
  <2> QED BY <2>1, <2>2, <2>3, <2>4, <2>5, SlotCases
<1> QED BY <1>1, <1>2

\* The lowest element of a nonempty set of numbers is one of its elements.
LEMMA Lowest ==
    ASSUME NEW S \in SUBSET Nat, S # {}
    PROVE  LowestOf(S) \in S /\ \A i \in S : LowestOf(S) <= i
<1>1. PICK n \in S : \A i \in S : ~(<<i, n>> \in OpToRel(<, Nat))
  BY NatLessThanWellFounded, WFMin
<1>2. ASSUME NEW i \in S PROVE n <= i
  <2>1. i \in Nat /\ n \in Nat
    OBVIOUS
  <2>2. ~(<<i, n>> \in {ss \in Nat \X Nat : ss[1] < ss[2]})
    BY <1>1 DEF OpToRel
  <2>3. ~(i < n)
    BY <2>1, <2>2
  <2> QED BY <2>1, <2>3
<1>3. \E j \in S : \A i \in S : j <= i
  BY <1>2
<1> QED BY <1>3 DEF LowestOf

\* The second-level table of an address is the one its third-level table is in.
LEMMA Quotients == ASSUME NEW va \in VA PROVE P2X(va) \div PTES = P1X(va)
<1>1. PICK n \in Nat \ {0}, a \in Nat : n = PTES /\ a = va
  BY Constants
<1>2. PICK d \in Nat : d = a \div n /\ n * d <= a /\ a < n * d + n
  <2>1. a \div n \in Nat /\ n * (a \div n) <= a /\ a < n * (a \div n) + n
    OBVIOUS
  <2> QED BY <2>1
<1>3. PICK e \in Nat : e = d \div n /\ n * e <= d /\ d + 1 <= n * e + n
  <2>1. d \div n \in Nat /\ n * (d \div n) <= d /\ d + 1 <= n * (d \div n) + n
    OBVIOUS
  <2> QED BY <2>1
<1>4. PICK q \in Nat \ {0} : q = n * n
  OBVIOUS
<1>5. n * (n * e) <= n * d /\ n * (d + 1) <= n * (n * e + n)
  BY <1>3
<1>6. n * (n * e) = q * e /\ n * (n * e + n) = q * e + q /\ n * (d + 1) = n * d + n
  BY <1>4
<1>7. q * e <= a /\ a < q * e + q
  BY <1>2, <1>5, <1>6
<1>8. PICK f \in Nat : f = a \div q /\ q * f <= a /\ a < q * f + q
  <2>1. a \div q \in Nat /\ q * (a \div q) <= a /\ a < q * (a \div q) + q
    OBVIOUS
  <2> QED BY <2>1
<1>9. f = e
  <2>1. CASE f < e
    <3>1. f + 1 <= e
      BY <2>1
    <3>2. q * (f + 1) <= q * e
      BY <3>1
    <3>3. q * (f + 1) = q * f + q
      OBVIOUS
    <3> QED BY <1>7, <1>8, <3>2, <3>3
  <2>2. CASE e < f
    <3>1. e + 1 <= f
      BY <2>2
    <3>2. q * (e + 1) <= q * f
      BY <3>1
    <3>3. q * (e + 1) = q * e + q
      OBVIOUS
    <3> QED BY <1>7, <1>8, <3>2, <3>3
  <2> QED BY <2>1, <2>2
<1>10. a \div (n * n) = (a \div n) \div n
  BY <1>2, <1>3, <1>4, <1>8, <1>9
<1> QED BY <1>1, <1>10 DEF P1X, P2X

-----------------------------------------------------------------------------
(* Counting.  x[p] is what pp_ref[p] exceeds the references by: 1 for a page *)
(* directory that was lost for want of an ASID.  The counts fit in pp_ref.   *)

Balanced(k, L, x) == \A p \in Page : k.pp_ref[p] = Cardinality(Refs(k, L, p)) + x[p]
FreeZero(k) == \A p \in k.page_free_list : k.pp_ref[p] = 0
Private(k, L) ==
    \A s, t \in Slots(L) :
        s[1] # "p3" /\ PageAt(k, s) \in Page /\ PageAt(k, s) = PageAt(k, t) => s = t
Sound(k, L, x) ==
    RefsFit /\ x \in [Page -> 0 .. 1] /\ Balanced(k, L, x) /\ FreeZero(k) /\ Private(k, L)

\* A page that nobody refers to, or that is mapped and no table, and is not free.
Held(k, L, p) ==
    /\ p \in Page \ k.page_free_list
    /\ \A s \in Slots(L) : PageAt(k, s) = p => s[1] = "p3"

\* In a sound memory a referenced page has a count, and a free one no reference.
LEMMA Unreferenced ==
    ASSUME NEW k \in Memory, NEW L \in SUBSET Env, NEW x, Sound(k, L, x), NEW p \in Page
    PROVE  /\ Refs(k, L, p) # {} => k.pp_ref[p] > 0 /\ p \notin k.page_free_list
           /\ k.pp_ref[p] = 0 => \A s \in Slots(L) : PageAt(k, s) # p
<1>1. Cardinality(Refs(k, L, p)) \in Nat /\ IsFiniteSet(Refs(k, L, p))
  BY RefsFinite
<1>2. k.pp_ref[p] = Cardinality(Refs(k, L, p)) + x[p] /\ x[p] \in Nat
  BY DEF Sound, Balanced
<1>3. Cardinality(Refs(k, L, p)) = 0 => Refs(k, L, p) = {}
  BY <1>1, FS_EmptySet
<1>4. k.pp_ref[p] = 0 => Refs(k, L, p) = {}
  BY <1>1, <1>2, <1>3
<1>5. Refs(k, L, p) # {} => k.pp_ref[p] > 0
  BY <1>1, <1>2, <1>3
<1> QED BY <1>4, <1>5 DEF Refs, Sound, FreeZero

\* A count is below the number of places, so one more does not wrap.
LEMMA CountFits ==
    ASSUME NEW k, NEW L \in SUBSET Env, NEW x, Sound(k, L, x), NEW p \in Page
    PROVE  k.pp_ref[p] + 1 < RefMod
<1>1. Refs(k, L, p) \subseteq Slots(Env)
  BY DEF Refs, Slots
<1>2. /\ Cardinality(Refs(k, L, p)) \in Nat /\ Cardinality(Slots(Env)) \in Nat
      /\ Cardinality(Refs(k, L, p)) <= Cardinality(Slots(Env))
  BY <1>1, SlotsFinite, FS_Subset, FS_CardinalityType
<1>3. k.pp_ref[p] = Cardinality(Refs(k, L, p)) + x[p] /\ x[p] \in 0 .. 1
  BY DEF Sound, Balanced
<1>4. Cardinality(Slots(Env)) + 2 < RefMod /\ RefMod \in Nat
  BY Constants DEF Sound, RefsFit
<1> QED BY <1>2, <1>3, <1>4

\* A page that is mapped can be mapped again.
LEMMA MappedIsHeld ==
    ASSUME NEW k \in Memory, NEW L \in SUBSET Env, NEW x, Sound(k, L, x), NEW p \in Page,
           NEW s \in Slots(L), s[1] = "p3", PageAt(k, s) = p
    PROVE  Held(k, L, p)
<1>1. Refs(k, L, p) # {}
  BY DEF Refs
<1>2. p \notin k.page_free_list
  BY <1>1, Unreferenced
<1> QED BY <1>2 DEF Held, Sound, Private

\* An empty place gets a page.
LEMMA FillKeeps ==
    ASSUME NEW k \in Memory, NEW h \in Memory, NEW L \in SUBSET Env, NEW x, Sound(k, L, x),
           NEW s \in Slots(L), NEW p \in Page, PageAt(k, s) = NoPage, PageAt(h, s) = p,
           \A t \in Slots(L) \ {s} : PageAt(h, t) = PageAt(k, t),
           h.pp_ref = [k.pp_ref EXCEPT ![p] = @ + 1],
           h.page_free_list \subseteq k.page_free_list \ {p},
           \/ k.pp_ref[p] = 0
           \/ s[1] = "p3" /\ Held(k, L, p)
    PROVE  Sound(h, L, x)
<1>1. k.pp_ref \in [Page -> Nat] /\ h.pp_ref \in [Page -> Nat] /\ k.page_free_list \subseteq Page
  BY DEF Memory
<1>2. FreeZero(h)
  BY <1>1 DEF Sound, FreeZero
<1>3. ASSUME NEW t \in Slots(L), PageAt(k, t) = p PROVE s[1] = "p3" /\ t[1] = "p3"
  BY <1>3, Unreferenced DEF Held
<1>4. Private(h, L)
  <2> SUFFICES ASSUME NEW t \in Slots(L), NEW u \in Slots(L), t[1] # "p3", PageAt(h, t) \in Page,
                      PageAt(h, t) = PageAt(h, u), t # u
               PROVE  FALSE
    BY DEF Private
  <2>1. CASE t = s
    BY <1>3, <2>1
  <2>2. CASE u = s
    BY <1>3, <2>2
  <2>3. CASE t # s /\ u # s
    BY <2>3 DEF Sound, Private
  <2> QED BY <2>1, <2>2, <2>3
<1>5. ASSUME NEW q \in Page PROVE h.pp_ref[q] = Cardinality(Refs(h, L, q)) + x[q]
  <2>1. k.pp_ref[q] = Cardinality(Refs(k, L, q)) + x[q] /\ x[q] \in Nat
    BY DEF Sound, Balanced
  <2>2. CASE q = p
    <3>1. Refs(h, L, p) = Refs(k, L, p) \cup {s} /\ s \notin Refs(k, L, p)
      BY Constants DEF Refs
    <3>2. Cardinality(Refs(h, L, p)) = Cardinality(Refs(k, L, p)) + 1
      BY <3>1, RefsFinite, FS_AddElement
    <3>3. Cardinality(Refs(k, L, p)) \in Nat
      BY RefsFinite
    <3> QED BY <1>1, <2>1, <2>2, <3>2, <3>3
  <2>3. CASE q # p
    <3>1. Refs(h, L, q) = Refs(k, L, q)
      BY <2>3, Constants DEF Refs
    <3> QED BY <1>1, <2>1, <2>3, <3>1
  <2> QED BY <2>2, <2>3
<1> QED BY <1>2, <1>4, <1>5 DEF Sound, Balanced

\* A place is emptied.
LEMMA ClearKeeps ==
    ASSUME NEW k \in Memory, NEW h, NEW L \in SUBSET Env, NEW x, Sound(k, L, x),
           NEW s \in Slots(L), NEW p \in Page, PageAt(k, s) = p, PageAt(h, s) = NoPage,
           \A t \in Slots(L) \ {s} : PageAt(h, t) = PageAt(k, t),
           h.pp_ref = [k.pp_ref EXCEPT ![p] = @ - 1],
           h.page_free_list = IF k.pp_ref[p] - 1 = 0 THEN k.page_free_list \cup {p}
                                                     ELSE k.page_free_list
    PROVE  Sound(h, L, x) /\ h.pp_ref \in [Page -> Nat] /\ k.pp_ref[p] > 0
<1>1. k.pp_ref \in [Page -> Nat] /\ k.page_free_list \subseteq Page
  BY DEF Memory
<1>2. k.pp_ref[p] > 0 /\ p \notin k.page_free_list
  <2>1. Refs(k, L, p) # {}
    BY DEF Refs
  <2> QED BY <2>1, Unreferenced
<1>3. h.pp_ref \in [Page -> Nat]
  BY <1>1, <1>2
<1>4. FreeZero(h)
  BY <1>1, <1>2 DEF Sound, FreeZero
<1>5. Private(h, L)
  <2> SUFFICES ASSUME NEW t \in Slots(L), NEW u \in Slots(L), t[1] # "p3", PageAt(h, t) \in Page,
                      PageAt(h, t) = PageAt(h, u), t # u
               PROVE  FALSE
    BY DEF Private
  <2>1. t # s /\ u # s
    BY Constants
  <2> QED BY <2>1 DEF Sound, Private
<1>6. ASSUME NEW q \in Page PROVE h.pp_ref[q] = Cardinality(Refs(h, L, q)) + x[q]
  <2>1. k.pp_ref[q] = Cardinality(Refs(k, L, q)) + x[q] /\ x[q] \in Nat
    BY DEF Sound, Balanced
  <2>2. CASE q = p
    <3>1. Refs(k, L, p) = Refs(h, L, p) \cup {s} /\ s \notin Refs(h, L, p)
      BY Constants DEF Refs
    <3>2. Cardinality(Refs(k, L, p)) = Cardinality(Refs(h, L, p)) + 1
      BY <3>1, RefsFinite, FS_AddElement
    <3>3. Cardinality(Refs(h, L, p)) \in Nat
      BY RefsFinite
    <3> QED BY <1>1, <2>1, <2>2, <3>2, <3>3
  <2>3. CASE q # p
    <3>1. Refs(h, L, q) = Refs(k, L, q)
      BY <2>3, Constants DEF Refs
    <3> QED BY <1>1, <2>1, <2>3, <3>1
  <2> QED BY <2>2, <2>3
<1> QED BY <1>2, <1>3, <1>4, <1>5, <1>6 DEF Sound, Balanced

\* Nothing that refers to a page changes: neither the entries nor, but for address
\* spaces that refer to none, the set of live ones.
LEMMA SameKeeps ==
    ASSUME NEW k, NEW h, NEW L \in SUBSET Env, NEW K \in SUBSET Env, NEW x, Sound(k, L, x),
           \A s \in Slots(L) \cap Slots(K) : PageAt(h, s) = PageAt(k, s),
           \A s \in Slots(L) \ Slots(K) : PageAt(k, s) = NoPage,
           \A s \in Slots(K) \ Slots(L) : PageAt(h, s) = NoPage,
           h.pp_ref = k.pp_ref, h.page_free_list \subseteq k.page_free_list
    PROVE  Sound(h, K, x)
<1>1. ASSUME NEW q \in Page PROVE Refs(h, K, q) = Refs(k, L, q)
  BY Constants DEF Refs
<1>2. Private(h, K)
  <2> SUFFICES ASSUME NEW t \in Slots(K), NEW u \in Slots(K), t[1] # "p3", PageAt(h, t) \in Page,
                      PageAt(h, t) = PageAt(h, u)
               PROVE  t = u
    BY DEF Private
  <2>1. t \in Slots(L) /\ u \in Slots(L)
    BY Constants
  <2> QED BY <2>1 DEF Sound, Private
<1> QED BY <1>1, <1>2 DEF Sound, Balanced, FreeZero

-----------------------------------------------------------------------------
(* The tables.                                                               *)

\* A third-level table is in a second-level one and holds the entries; an address
\* space that is not live has none.
Tables(k, L) ==
    /\ \A e \in L : k.pgdir[e] \in Page
    /\ \A e \in Env \ L : /\ \A i \in P1 : k.p1[e][i] = NoPage
                          /\ \A i \in P2 : k.p2[e][i] = NoPage
                          /\ \A va \in VA : k.p3[e][va] = NoEntry
    /\ \A e \in Env, va \in VA : k.p3[e][va] # NoEntry => k.p2[e][P2X(va)] # NoPage
    /\ \A e \in Env, i \in P2 : k.p2[e][i] # NoPage => k.p1[e][i \div PTES] # NoPage

Good(k, L, x) == k \in Memory /\ L \in SUBSET Env /\ Sound(k, L, x) /\ Tables(k, L)

\* Two memories that differ in one entry.
SameTables(k, h) == h.pgdir = k.pgdir /\ h.p1 = k.p1 /\ h.p2 = k.p2 /\ h.p3 = k.p3

\* The page in a slot is read off the tables.
LEMMA AtSame ==
    ASSUME NEW k, NEW h, SameTables(k, h), NEW s
    PROVE  PageAt(h, s) = PageAt(k, s)
BY DEF SameTables, PageAt

\* The types of the parts of the memory.
LEMMA MemoryFacts ==
    ASSUME NEW k \in Memory
    PROVE  /\ k.pp_ref \in [Page -> Nat] /\ k.page_free_list \subseteq Page
           /\ k.pgdir \in [Env -> Page \cup {NoPage}]
           /\ k.p1 \in [Env -> [P1 -> Page \cup {NoPage}]]
           /\ k.p2 \in [Env -> [P2 -> Page \cup {NoPage}]]
           /\ k.p3 \in [Env -> [VA -> Entry \cup {NoEntry}]]
           /\ k.tlb \subseteq [env : Env, va : VA, entry : Entry]
BY DEF Memory

\* Writing an entry of the first level changes one slot.
LEMMA AtP1 ==
    ASSUME NEW k \in Memory, NEW h, NEW L \in SUBSET Env, NEW e \in L, NEW i \in P1, NEW p,
           h.p1 = [k.p1 EXCEPT ![e][i] = p], h.pgdir = k.pgdir, h.p2 = k.p2, h.p3 = k.p3
    PROVE  /\ <<"p1", e, i>> \in Slots(L)
           /\ PageAt(k, <<"p1", e, i>>) = k.p1[e][i] /\ PageAt(h, <<"p1", e, i>>) = p
           /\ \A s \in Slots(L) \ {<<"p1", e, i>>} : PageAt(h, s) = PageAt(k, s)
<1>1. <<"p1", e, i>> \in Slots(L)
  BY SlotCases
<1>2. k.p1 \in [Env -> [P1 -> Page \cup {NoPage}]]
  BY MemoryFacts
<1>3. /\ h.p1[e][i] = p
      /\ \A d \in L, j \in P1 : <<d, j>> # <<e, i>> => h.p1[d][j] = k.p1[d][j]
  BY <1>2
<1>4. ASSUME NEW s \in Slots(L) \ {<<"p1", e, i>>} PROVE PageAt(h, s) = PageAt(k, s)
  <2>1. CASE \E d \in L, j \in P1 : s = <<"p1", d, j>>
    BY <1>3, <2>1 DEF PageAt
  <2>2. CASE s[1] # "p1"
    BY <2>2 DEF PageAt
  <2> QED BY <2>1, <2>2, SlotCases
<1> QED BY <1>1, <1>3, <1>4 DEF PageAt

\* Writing an entry of the second level changes one slot.
LEMMA AtP2 ==
    ASSUME NEW k \in Memory, NEW h, NEW L \in SUBSET Env, NEW e \in L, NEW i \in P2, NEW p,
           h.p2 = [k.p2 EXCEPT ![e][i] = p], h.pgdir = k.pgdir, h.p1 = k.p1, h.p3 = k.p3
    PROVE  /\ <<"p2", e, i>> \in Slots(L)
           /\ PageAt(k, <<"p2", e, i>>) = k.p2[e][i] /\ PageAt(h, <<"p2", e, i>>) = p
           /\ \A s \in Slots(L) \ {<<"p2", e, i>>} : PageAt(h, s) = PageAt(k, s)
<1>1. <<"p2", e, i>> \in Slots(L)
  BY SlotCases
<1>2. k.p2 \in [Env -> [P2 -> Page \cup {NoPage}]]
  BY MemoryFacts
<1>3. /\ h.p2[e][i] = p
      /\ \A d \in L, j \in P2 : <<d, j>> # <<e, i>> => h.p2[d][j] = k.p2[d][j]
  BY <1>2
<1>4. ASSUME NEW s \in Slots(L) \ {<<"p2", e, i>>} PROVE PageAt(h, s) = PageAt(k, s)
  <2>1. CASE \E d \in L, j \in P2 : s = <<"p2", d, j>>
    BY <1>3, <2>1 DEF PageAt
  <2>2. CASE s[1] # "p2"
    BY <2>2 DEF PageAt
  <2> QED BY <2>1, <2>2, SlotCases
<1> QED BY <1>1, <1>3, <1>4 DEF PageAt

\* Writing a mapping changes one slot.
LEMMA AtP3 ==
    ASSUME NEW k \in Memory, NEW h, NEW L \in SUBSET Env, NEW e \in L, NEW va \in VA, NEW entry,
           h.p3 = [k.p3 EXCEPT ![e][va] = entry], h.pgdir = k.pgdir, h.p1 = k.p1, h.p2 = k.p2
    PROVE  /\ <<"p3", e, va>> \in Slots(L)
           /\ PageAt(k, <<"p3", e, va>>) = k.p3[e][va].page
           /\ PageAt(h, <<"p3", e, va>>) = entry.page
           /\ \A s \in Slots(L) \ {<<"p3", e, va>>} : PageAt(h, s) = PageAt(k, s)
<1>1. <<"p3", e, va>> \in Slots(L)
  BY SlotCases
<1>2. k.p3 \in [Env -> [VA -> Entry \cup {NoEntry}]]
  BY MemoryFacts
<1>3. /\ h.p3[e][va] = entry
      /\ \A d \in L, j \in VA : <<d, j>> # <<e, va>> => h.p3[d][j] = k.p3[d][j]
  BY <1>2
<1>4. ASSUME NEW s \in Slots(L) \ {<<"p3", e, va>>} PROVE PageAt(h, s) = PageAt(k, s)
  <2>1. CASE \E d \in L, j \in VA : s = <<"p3", d, j>>
    BY <1>3, <2>1 DEF PageAt
  <2>2. CASE s[1] \in {"pgdir", "p1", "p2"}
    BY <2>2 DEF PageAt
  <2> QED BY <2>1, <2>2, SlotCases
<1> QED BY <1>1, <1>3, <1>4 DEF PageAt

\* What the invariant says of an address space.
LEMMA EntryFacts ==
    ASSUME NEW k \in Memory, NEW e \in Env, NEW va \in VA
    PROVE  /\ k.p3[e][va] \in Entry \cup {NoEntry}
           /\ k.p3[e][va] # NoEntry <=> k.p3[e][va].page \in Page
           /\ k.p3[e][va] = NoEntry <=> k.p3[e][va].page = NoPage
           /\ k.p1[e][P1X(va)] \in Page \cup {NoPage} /\ k.p2[e][P2X(va)] \in Page \cup {NoPage}
<1>1. k.p3[e][va] \in Entry \cup {NoEntry}
  BY MemoryFacts
<1>2. NoEntry.page = NoPage /\ NoPage \notin Page /\ \A y \in Entry : y.page \in Page
  BY Constants DEF NoEntry, Entry
<1>3. k.p1[e][P1X(va)] \in Page \cup {NoPage} /\ k.p2[e][P2X(va)] \in Page \cup {NoPage}
  BY MemoryFacts, Constants
<1> QED BY <1>1, <1>2, <1>3

-----------------------------------------------------------------------------
(* The fields of a memory after each elementary change.                      *)

\* Replacing the reference counts leaves the rest of the memory alone.
LEMMA RefRecord ==
    ASSUME NEW k \in Memory, NEW r \in [Page -> Nat]
    PROVE  LET h == [k EXCEPT !.pp_ref = r]
           IN  /\ h \in Memory /\ h.pp_ref = r /\ h.page_free_list = k.page_free_list
               /\ h.pgdir = k.pgdir /\ h.p1 = k.p1 /\ h.p2 = k.p2 /\ h.p3 = k.p3 /\ h.tlb = k.tlb
BY DEF Memory

\* Replacing the free list leaves the rest of the memory alone.
LEMMA FreeRecord ==
    ASSUME NEW k \in Memory, NEW f \in SUBSET Page
    PROVE  LET h == [k EXCEPT !.page_free_list = f]
           IN  /\ h \in Memory /\ h.pp_ref = k.pp_ref /\ h.page_free_list = f
               /\ h.pgdir = k.pgdir /\ h.p1 = k.p1 /\ h.p2 = k.p2 /\ h.p3 = k.p3 /\ h.tlb = k.tlb
BY DEF Memory

\* Replacing the TLB leaves the rest of the memory alone.
LEMMA TlbRecord ==
    ASSUME NEW k \in Memory, NEW t \in SUBSET [env : Env, va : VA, entry : Entry]
    PROVE  LET h == [k EXCEPT !.tlb = t]
           IN  /\ h \in Memory /\ h.pp_ref = k.pp_ref /\ h.page_free_list = k.page_free_list
               /\ h.pgdir = k.pgdir /\ h.p1 = k.p1 /\ h.p2 = k.p2 /\ h.p3 = k.p3 /\ h.tlb = t
BY DEF Memory

\* Replacing a page directory leaves the rest of the memory alone.
LEMMA PgdirRecord ==
    ASSUME NEW k \in Memory, NEW e \in Env, NEW p \in Page \cup {NoPage}
    PROVE  LET h == [k EXCEPT !.pgdir[e] = p]
           IN  /\ h \in Memory /\ h.pp_ref = k.pp_ref /\ h.page_free_list = k.page_free_list
               /\ h.pgdir = [k.pgdir EXCEPT ![e] = p]
               /\ h.p1 = k.p1 /\ h.p2 = k.p2 /\ h.p3 = k.p3 /\ h.tlb = k.tlb
BY DEF Memory

\* Replacing an entry of the first level leaves the rest of the memory alone.
LEMMA P1Record ==
    ASSUME NEW k \in Memory, NEW e \in Env, NEW i \in P1, NEW p \in Page \cup {NoPage}
    PROVE  LET h == [k EXCEPT !.p1[e][i] = p]
           IN  /\ h \in Memory /\ h.pp_ref = k.pp_ref /\ h.page_free_list = k.page_free_list
               /\ h.pgdir = k.pgdir /\ h.p1 = [k.p1 EXCEPT ![e][i] = p]
               /\ h.p2 = k.p2 /\ h.p3 = k.p3 /\ h.tlb = k.tlb
BY DEF Memory

\* Replacing an entry of the second level leaves the rest of the memory alone.
LEMMA P2Record ==
    ASSUME NEW k \in Memory, NEW e \in Env, NEW i \in P2, NEW p \in Page \cup {NoPage}
    PROVE  LET h == [k EXCEPT !.p2[e][i] = p]
           IN  /\ h \in Memory /\ h.pp_ref = k.pp_ref /\ h.page_free_list = k.page_free_list
               /\ h.pgdir = k.pgdir /\ h.p1 = k.p1 /\ h.p2 = [k.p2 EXCEPT ![e][i] = p]
               /\ h.p3 = k.p3 /\ h.tlb = k.tlb
BY DEF Memory

\* Replacing a mapping leaves the rest of the memory alone.
LEMMA P3Record ==
    ASSUME NEW k \in Memory, NEW e \in Env, NEW va \in VA, NEW y \in Entry \cup {NoEntry}
    PROVE  LET h == [k EXCEPT !.p3[e][va] = y]
           IN  /\ h \in Memory /\ h.pp_ref = k.pp_ref /\ h.page_free_list = k.page_free_list
               /\ h.pgdir = k.pgdir /\ h.p1 = k.p1 /\ h.p2 = k.p2
               /\ h.p3 = [k.p3 EXCEPT ![e][va] = y] /\ h.tlb = k.tlb
BY DEF Memory

\* Counting a reference changes the count of one page.
LEMMA CountedRecord ==
    ASSUME NEW k \in Memory, NEW p \in Page, k.pp_ref[p] + 1 < RefMod
    PROVE  LET h == Counted(k, p)
           IN  /\ h \in Memory /\ h.pp_ref = [k.pp_ref EXCEPT ![p] = @ + 1]
               /\ h.page_free_list = k.page_free_list
               /\ SameTables(k, h) /\ h.tlb = k.tlb
<1>1. PICK r \in [Page -> Nat] : r = [k.pp_ref EXCEPT ![p] = @ + 1]
  <2>1. k.pp_ref \in [Page -> Nat] /\ k.pp_ref[p] + 1 \in Nat
    BY MemoryFacts
  <2>2. [k.pp_ref EXCEPT ![p] = @ + 1] \in [Page -> Nat]
    BY <2>1
  <2> QED BY <2>2
<1>2. Counted(k, p) = [k EXCEPT !.pp_ref = r]
  <2>1. k.pp_ref[p] \in Nat /\ RefMod \in Nat \ {0}
    BY MemoryFacts, Constants
  <2>2. (k.pp_ref[p] + 1) % RefMod = k.pp_ref[p] + 1
    BY <2>1
  <2> QED BY <1>1, <2>2 DEF Counted, Memory
<1> QED BY <1>1, <1>2, RefRecord DEF SameTables

\* page_decref of a page that is referred to.
LEMMA DecrefRecord ==
    ASSUME NEW k \in Memory, NEW p \in Page, k.pp_ref[p] > 0
    PROVE  LET h == page_decref(k, p)
           IN  /\ h \in Memory /\ h.pp_ref = [k.pp_ref EXCEPT ![p] = @ - 1]
               /\ h.page_free_list = IF k.pp_ref[p] - 1 = 0 THEN k.page_free_list \cup {p}
                                                            ELSE k.page_free_list
               /\ SameTables(k, h) /\ h.tlb = k.tlb
<1>1. PICK r \in [Page -> Nat] : r = [k.pp_ref EXCEPT ![p] = @ - 1]
  <2>1. k.pp_ref \in [Page -> Nat] /\ k.pp_ref[p] - 1 \in Nat
    BY MemoryFacts
  <2>2. [k.pp_ref EXCEPT ![p] = @ - 1] \in [Page -> Nat]
    BY <2>1
  <2> QED BY <2>2
<1>2. PICK d : d = [k EXCEPT !.pp_ref = r]
  OBVIOUS
<1>3. [k EXCEPT !.pp_ref[p] = @ - 1] = d
  BY <1>1, <1>2 DEF Memory
<1>4. /\ d \in Memory /\ d.pp_ref = r /\ d.page_free_list = k.page_free_list
      /\ SameTables(k, d) /\ d.tlb = k.tlb
  BY <1>2, RefRecord DEF SameTables
<1>5. d.pp_ref[p] = k.pp_ref[p] - 1
  BY <1>1, <1>4, MemoryFacts
<1>6. page_decref(k, p) = IF k.pp_ref[p] - 1 = 0 THEN page_free(d, p) ELSE d
  BY <1>3, <1>5 DEF page_decref
<1>7. CASE k.pp_ref[p] - 1 = 0
  <2>1. PICK f \in SUBSET Page : f = d.page_free_list \cup {p}
    BY <1>4, MemoryFacts
  <2>2. page_decref(k, p) = [d EXCEPT !.page_free_list = f]
    BY <1>6, <1>7, <2>1 DEF page_free, Memory
  <2> QED BY <1>1, <1>4, <1>7, <2>1, <2>2, FreeRecord DEF SameTables
<1>8. CASE k.pp_ref[p] - 1 # 0
  BY <1>1, <1>4, <1>6, <1>8
<1> QED BY <1>7, <1>8

\* tlb_invalidate only removes entries, and all of them if sfence.vma does.
LEMMA InvalidateRecord ==
    ASSUME NEW k \in Memory, NEW e, NEW va
    PROVE  LET h == tlb_invalidate(k, e, va)
           IN  /\ h \in Memory /\ h.pp_ref = k.pp_ref /\ h.page_free_list = k.page_free_list
               /\ SameTables(k, h) /\ h.tlb \subseteq k.tlb /\ (Sfence = "all" => h.tlb = {})
<1>1. PICK t \in SUBSET [env : Env, va : VA, entry : Entry] :
         /\ t = IF Sfence = "all" THEN {} ELSE {u \in k.tlb : ~(u.env = e /\ u.va = va % LowBits)}
         /\ t \subseteq k.tlb /\ (Sfence = "all" => t = {})
  BY MemoryFacts, ZenonT(30)
<1>2. tlb_invalidate(k, e, va) = [k EXCEPT !.tlb = t]
  BY <1>1 DEF tlb_invalidate, Memory
<1> QED BY <1>1, <1>2, TlbRecord DEF SameTables

\* tlb_flush_asid only removes entries, and all of them if sfence.vma does.
LEMMA FlushRecord ==
    ASSUME NEW k \in Memory, NEW e
    PROVE  LET h == tlb_flush_asid(k, e)
           IN  /\ h \in Memory /\ h.pp_ref = k.pp_ref /\ h.page_free_list = k.page_free_list
               /\ SameTables(k, h) /\ h.tlb \subseteq k.tlb /\ (Sfence = "all" => h.tlb = {})
<1>1. PICK t \in SUBSET [env : Env, va : VA, entry : Entry] :
         /\ t = IF Sfence = "all" THEN {} ELSE {u \in k.tlb : u.env # e}
         /\ t \subseteq k.tlb /\ (Sfence = "all" => t = {})
  BY MemoryFacts
<1>2. tlb_flush_asid(k, e) = [k EXCEPT !.tlb = t]
  BY <1>1 DEF tlb_flush_asid, Memory
<1> QED BY <1>1, <1>2, TlbRecord DEF SameTables

\* A memory with the same entries and counts is as good.
LEMMA SameGood ==
    ASSUME NEW k, NEW L, NEW x, Good(k, L, x), NEW h \in Memory, SameTables(k, h),
           h.pp_ref = k.pp_ref, h.page_free_list \subseteq k.page_free_list
    PROVE  Good(h, L, x)
<1>1. \A s : PageAt(h, s) = PageAt(k, s)
  BY AtSame
<1>2. Sound(h, L, x)
  BY <1>1, SameKeeps DEF Good
<1> QED BY <1>2 DEF Good, Tables, SameTables

-----------------------------------------------------------------------------
(* page_alloc and pgdir_walk.                                                *)

\* With two pages free, one is left after an allocation.
LEMMA FreeLeft ==
    ASSUME NEW k \in Memory
    PROVE  /\ CanAlloc(k, 1) => k.page_free_list # {}
           /\ CanAlloc(k, 2) => CanAlloc(k, 1)
           /\ CanAlloc(k, 2) => Cardinality(k.page_free_list \ {First(k)}) >= 1
<1>1. IsFiniteSet(Page)
  BY Constants, FS_Interval DEF Page
<1>2. IsFiniteSet(k.page_free_list) /\ Cardinality(k.page_free_list) \in Nat
  BY <1>1, MemoryFacts, FS_Subset, FS_CardinalityType
<1>3. Cardinality({}) = 0
  BY FS_EmptySet
<1>4. ASSUME CanAlloc(k, 1) PROVE k.page_free_list # {}
  BY <1>3, <1>4 DEF CanAlloc
<1>5. CanAlloc(k, 2) => CanAlloc(k, 1)
  BY <1>2 DEF CanAlloc
<1>6. ASSUME CanAlloc(k, 2) PROVE Cardinality(k.page_free_list \ {First(k)}) >= 1
  <2>1. First(k) \in k.page_free_list
    BY <1>4, <1>5, <1>6, MemoryFacts, Constants, Lowest DEF First
  <2>2. Cardinality(k.page_free_list \ {First(k)}) = Cardinality(k.page_free_list) - 1
    BY <1>2, <2>1, FS_RemoveElement
  <2> QED BY <1>2, <1>6, <2>2 DEF CanAlloc
<1> QED BY <1>4, <1>5, <1>6

\* page_alloc takes a free page with count 0 and changes no table.
LEMMA AllocEffect ==
    ASSUME NEW k, NEW L, NEW x, Good(k, L, x), CanAlloc(k, 1), NEW h, h = page_alloc(k),
           NEW p, p = First(k)
    PROVE  /\ Good(h, L, x) /\ p \in Page /\ p \in k.page_free_list
           /\ h.pp_ref = k.pp_ref /\ h.page_free_list = k.page_free_list \ {p}
           /\ SameTables(k, h) /\ h.tlb = k.tlb
           /\ h.pp_ref[p] = 0 /\ Held(h, L, p) /\ \A s \in Slots(L) : PageAt(h, s) # p
           /\ \A q : Held(k, L, q) => Held(h, L, q) /\ q # p
<1>0. k \in Memory
  BY DEF Good
<1>1. p \in k.page_free_list /\ p \in Page
  BY <1>0, FreeLeft, MemoryFacts, Constants, Lowest DEF First
<1>2. PICK f \in SUBSET Page : f = k.page_free_list \ {p}
  BY <1>0, MemoryFacts
<1>3. h = [k EXCEPT !.page_free_list = f]
  BY <1>0, <1>2 DEF page_alloc, Memory
<1>4. /\ h \in Memory /\ h.pp_ref = k.pp_ref /\ h.page_free_list = f
      /\ SameTables(k, h) /\ h.tlb = k.tlb
  BY <1>0, <1>3, FreeRecord DEF SameTables
<1>5. Good(h, L, x)
  BY <1>2, <1>4, SameGood
<1>6. h.pp_ref[p] = 0
  BY <1>1, <1>4 DEF Good, Sound, FreeZero
<1>7. \A s \in Slots(L) : PageAt(h, s) # p
  BY <1>1, <1>4, <1>5, <1>6, Unreferenced DEF Good
<1>8. Held(h, L, p)
  BY <1>1, <1>2, <1>4, <1>7 DEF Held
<1>9. \A q : Held(k, L, q) => Held(h, L, q) /\ q # p
  BY <1>1, <1>2, <1>4, AtSame DEF Held
<1> QED BY <1>1, <1>2, <1>4, <1>5, <1>6, <1>7, <1>8, <1>9

\* What pgdir_walk leaves alone, and that a page to be mapped stays one.
Kept(k, L, h) ==
    /\ h.p3 = k.p3 /\ h.tlb = k.tlb /\ h.pgdir = k.pgdir
    /\ h.page_free_list \subseteq k.page_free_list
    /\ \A q : Held(k, L, q) => Held(h, L, q)

\* pgdir_walk makes a second-level table.
LEMMA NewP2Effect ==
    ASSUME NEW k, NEW L, NEW x, Good(k, L, x), CanAlloc(k, 1), NEW e \in L, NEW va \in VA,
           k.p1[e][P1X(va)] = NoPage, NEW h, h = NewP2(k, e, va)
    PROVE  /\ Good(h, L, x) /\ Kept(k, L, h) /\ h.p2 = k.p2 /\ h.p1[e][P1X(va)] \in Page
           /\ h.page_free_list = k.page_free_list \ {First(k)}
<1>1. PICK p, a : p = First(k) /\ a = page_alloc(k)
  OBVIOUS
<1>2. /\ Good(a, L, x) /\ p \in Page /\ p \in k.page_free_list
      /\ a.pp_ref = k.pp_ref /\ a.page_free_list = k.page_free_list \ {p}
      /\ SameTables(k, a) /\ a.tlb = k.tlb
      /\ a.pp_ref[p] = 0 /\ \A s \in Slots(L) : PageAt(a, s) # p
      /\ \A q : Held(k, L, q) => Held(a, L, q) /\ q # p
  BY <1>1, AllocEffect
<1>3. PICK c : c = Counted(a, p)
  OBVIOUS
<1>4. /\ c \in Memory /\ c.pp_ref = [a.pp_ref EXCEPT ![p] = @ + 1]
      /\ c.page_free_list = a.page_free_list /\ SameTables(a, c) /\ c.tlb = a.tlb
  BY <1>2, <1>3, CountFits, CountedRecord DEF Good
<1>5. PICK i \in P1 : i = P1X(va)
  BY Constants
<1>6. h = [c EXCEPT !.p1[e][i] = p]
  BY <1>1, <1>3, <1>5 DEF NewP2
<1>7. L \in SUBSET Env /\ a \in Memory /\ Sound(a, L, x) /\ Tables(a, L) /\ e \in Env
  BY <1>2 DEF Good
<1>8. /\ h \in Memory /\ h.pp_ref = c.pp_ref /\ h.page_free_list = c.page_free_list
      /\ h.pgdir = c.pgdir /\ h.p1 = [c.p1 EXCEPT ![e][i] = p]
      /\ h.p2 = c.p2 /\ h.p3 = c.p3 /\ h.tlb = c.tlb
  BY <1>2, <1>4, <1>6, <1>7, P1Record
<1>9. /\ h.pp_ref = [a.pp_ref EXCEPT ![p] = @ + 1] /\ h.page_free_list = a.page_free_list
      /\ h.pgdir = a.pgdir /\ h.p1 = [a.p1 EXCEPT ![e][i] = p]
      /\ h.p2 = a.p2 /\ h.p3 = a.p3 /\ h.tlb = a.tlb
  BY <1>4, <1>8 DEF SameTables
<1>10. PICK s : s = <<"p1", e, i>>
  OBVIOUS
<1>11. /\ s \in Slots(L) /\ PageAt(a, s) = a.p1[e][i] /\ PageAt(h, s) = p
       /\ \A t \in Slots(L) \ {s} : PageAt(h, t) = PageAt(a, t)
  BY <1>7, <1>9, <1>10, AtP1
<1>12. a.p1[e][i] = NoPage
  BY <1>2, <1>5 DEF SameTables
<1>13. Sound(h, L, x)
  BY <1>2, <1>7, <1>8, <1>9, <1>11, <1>12, FillKeeps
<1>14. \A q : Held(k, L, q) => Held(h, L, q)
  BY <1>2, <1>9, <1>11 DEF Held
<1>15. a.p1 \in [Env -> [P1 -> Page \cup {NoPage}]]
  BY <1>7, MemoryFacts
<1>16. \A d \in Env, j \in P1 : h.p1[d][j] = IF d = e /\ j = i THEN p ELSE a.p1[d][j]
  BY <1>7, <1>9, <1>15
<1>17. Tables(h, L)
  BY <1>2, <1>7, <1>9, <1>16, Constants DEF Tables
<1> QED BY <1>1, <1>2, <1>5, <1>7, <1>8, <1>9, <1>13, <1>14, <1>16, <1>17 DEF Good, Kept, SameTables

\* pgdir_walk makes a third-level table.
LEMMA NewP3Effect ==
    ASSUME NEW k, NEW L, NEW x, Good(k, L, x), CanAlloc(k, 1), NEW e \in L, NEW va \in VA,
           k.p1[e][P1X(va)] # NoPage, k.p2[e][P2X(va)] = NoPage, NEW h, h = NewP3(k, e, va)
    PROVE  Good(h, L, x) /\ Kept(k, L, h) /\ h.p2[e][P2X(va)] \in Page
<1>1. PICK p, a : p = First(k) /\ a = page_alloc(k)
  OBVIOUS
<1>2. /\ Good(a, L, x) /\ p \in Page /\ p \in k.page_free_list
      /\ a.pp_ref = k.pp_ref /\ a.page_free_list = k.page_free_list \ {p}
      /\ SameTables(k, a) /\ a.tlb = k.tlb
      /\ a.pp_ref[p] = 0 /\ \A s \in Slots(L) : PageAt(a, s) # p
      /\ \A q : Held(k, L, q) => Held(a, L, q) /\ q # p
  BY <1>1, AllocEffect
<1>3. PICK c : c = Counted(a, p)
  OBVIOUS
<1>4. /\ c \in Memory /\ c.pp_ref = [a.pp_ref EXCEPT ![p] = @ + 1]
      /\ c.page_free_list = a.page_free_list /\ SameTables(a, c) /\ c.tlb = a.tlb
  BY <1>2, <1>3, CountFits, CountedRecord DEF Good
<1>5. PICK i \in P2 : i = P2X(va)
  BY Constants
<1>6. h = [c EXCEPT !.p2[e][i] = p]
  BY <1>1, <1>3, <1>5 DEF NewP3
<1>7. L \in SUBSET Env /\ a \in Memory /\ Sound(a, L, x) /\ Tables(a, L) /\ e \in Env
  BY <1>2 DEF Good
<1>8. /\ h \in Memory /\ h.pp_ref = c.pp_ref /\ h.page_free_list = c.page_free_list
      /\ h.pgdir = c.pgdir /\ h.p1 = c.p1 /\ h.p2 = [c.p2 EXCEPT ![e][i] = p]
      /\ h.p3 = c.p3 /\ h.tlb = c.tlb
  BY <1>2, <1>4, <1>6, <1>7, P2Record
<1>9. /\ h.pp_ref = [a.pp_ref EXCEPT ![p] = @ + 1] /\ h.page_free_list = a.page_free_list
      /\ h.pgdir = a.pgdir /\ h.p1 = a.p1 /\ h.p2 = [a.p2 EXCEPT ![e][i] = p]
      /\ h.p3 = a.p3 /\ h.tlb = a.tlb
  BY <1>4, <1>8 DEF SameTables
<1>10. PICK s : s = <<"p2", e, i>>
  OBVIOUS
<1>11. /\ s \in Slots(L) /\ PageAt(a, s) = a.p2[e][i] /\ PageAt(h, s) = p
       /\ \A t \in Slots(L) \ {s} : PageAt(h, t) = PageAt(a, t)
  BY <1>7, <1>9, <1>10, AtP2
<1>12. a.p2[e][i] = NoPage /\ a.p1[e][i \div PTES] # NoPage
  BY <1>2, <1>5, Quotients DEF SameTables
<1>13. Sound(h, L, x)
  BY <1>2, <1>7, <1>8, <1>9, <1>11, <1>12, FillKeeps
<1>14. \A q : Held(k, L, q) => Held(h, L, q)
  BY <1>2, <1>9, <1>11 DEF Held
<1>15. a.p2 \in [Env -> [P2 -> Page \cup {NoPage}]]
  BY <1>7, MemoryFacts
<1>16. \A d \in Env, j \in P2 : h.p2[d][j] = IF d = e /\ j = i THEN p ELSE a.p2[d][j]
  BY <1>7, <1>9, <1>15
<1>17. Tables(h, L)
  BY <1>2, <1>7, <1>9, <1>12, <1>16, Constants DEF Tables
<1> QED BY <1>1, <1>2, <1>5, <1>7, <1>8, <1>9, <1>13, <1>14, <1>16, <1>17 DEF Good, Kept, SameTables

\* pgdir_walk: the tables it makes are new, and with an entry there is a table for it.
LEMMA WalkEffect ==
    ASSUME NEW k, NEW L, NEW x, Good(k, L, x), NEW e \in L, NEW va \in VA, NEW create \in BOOLEAN,
           NEW w, w = pgdir_walk(k, e, va, create)
    PROVE  /\ Good(w.m, L, x) /\ Kept(k, L, w.m)
           /\ w.ok \in BOOLEAN /\ (w.ok => w.m.p2[e][P2X(va)] # NoPage)
<1>0. k \in Memory /\ Kept(k, L, k) /\ e \in Env
  BY DEF Good, Kept
<1>1. CASE k.p1[e][P1X(va)] = NoPage
  <2>1. CASE create /\ CanAlloc(k, 2)
    <3>1. PICK h, g : h = NewP2(k, e, va) /\ g = NewP3(h, e, va)
      OBVIOUS
    <3>2. w.ok = TRUE /\ w.m = g
      BY <1>1, <2>1, <3>1 DEF pgdir_walk, Walk
    <3>3. CanAlloc(k, 1) /\ Cardinality(k.page_free_list \ {First(k)}) >= 1
      BY <1>0, <2>1, FreeLeft
    <3>4. /\ Good(h, L, x) /\ Kept(k, L, h) /\ h.p2 = k.p2 /\ h.p1[e][P1X(va)] \in Page
          /\ h.page_free_list = k.page_free_list \ {First(k)}
      BY <1>1, <3>1, <3>3, NewP2Effect
    <3>5. CanAlloc(h, 1)
      BY <3>3, <3>4 DEF CanAlloc
    <3>6. k.p2[e][P2X(va)] = NoPage
      BY <1>0, <1>1, Quotients, Constants DEF Good, Tables
    <3>7. Good(g, L, x) /\ Kept(h, L, g) /\ g.p2[e][P2X(va)] \in Page
      BY <3>1, <3>4, <3>5, <3>6, Constants, NewP3Effect
    <3>8. Kept(k, L, g)
      BY <3>4, <3>7 DEF Kept
    <3> QED BY <3>2, <3>7, <3>8, Constants
  <2>2. CASE ~(create /\ CanAlloc(k, 2))
    <3>1. w.ok = FALSE /\ w.m = k
      BY <1>1, <2>2 DEF pgdir_walk, Walk
    <3> QED BY <1>0, <3>1
  <2> QED BY <2>1, <2>2
<1>2. CASE k.p1[e][P1X(va)] # NoPage /\ k.p2[e][P2X(va)] = NoPage
  <2>1. CASE CanAlloc(k, 1)
    <3>1. PICK g : g = NewP3(k, e, va)
      OBVIOUS
    <3>2. w.ok = TRUE /\ w.m = g
      BY <1>2, <2>1, <3>1 DEF pgdir_walk, Walk
    <3>3. Good(g, L, x) /\ Kept(k, L, g) /\ g.p2[e][P2X(va)] \in Page
      BY <1>2, <2>1, <3>1, NewP3Effect
    <3> QED BY <3>2, <3>3, Constants
  <2>2. CASE ~CanAlloc(k, 1)
    <3>1. w.ok = FALSE /\ w.m = k
      BY <1>2, <2>2 DEF pgdir_walk, Walk
    <3> QED BY <1>0, <3>1
  <2> QED BY <2>1, <2>2
<1>3. CASE k.p1[e][P1X(va)] # NoPage /\ k.p2[e][P2X(va)] # NoPage
  <2>1. w.ok = TRUE /\ w.m = k
    BY <1>3 DEF pgdir_walk, Walk
  <2> QED BY <1>0, <1>3, <2>1
<1> QED BY <1>1, <1>2, <1>3

-----------------------------------------------------------------------------
(* page_remove and page_insert.                                              *)

\* The TLB only loses entries, and where sfence.vma removes everything it is empty
\* as soon as a page table entry has changed.
TlbKept(k, h) == h.tlb \subseteq k.tlb /\ (Sfence = "all" => h.tlb = {} \/ h.p3 = k.p3)

Put(f, e, va, y) == [f EXCEPT ![e][va] = y]

\* Page and permissions make an entry.
LEMMA EntryOf ==
    ASSUME NEW p \in Page, NEW perm \in Perm
    PROVE  \E y \in Entry : y.page = p /\ y.perm = perm
<1>1. [page |-> p, perm |-> perm] \in Entry
  BY DEF Entry
<1> QED BY <1>1

\* What writing one mapping does to all of them.
LEMMA PutEntry ==
    ASSUME NEW f \in [Env -> [VA -> Entry \cup {NoEntry}]], NEW e \in Env, NEW va \in VA,
           NEW y \in Entry \cup {NoEntry}, NEW g, g = [f EXCEPT ![e][va] = y]
    PROVE  /\ g \in [Env -> [VA -> Entry \cup {NoEntry}]]
           /\ \A d \in Env, v \in VA : g[d][v] = IF d = e /\ v = va THEN y ELSE f[d][v]
           /\ f[e][va] = y => g = f
OBVIOUS

\* page_remove clears one mapping, gives up its reference and flushes it.
LEMMA RemoveEffect ==
    ASSUME NEW k, NEW L, NEW x, Good(k, L, x), NEW e \in L, NEW va \in VA,
           NEW h, h = page_remove(k, e, va)
    PROVE  /\ Good(h, L, x) /\ h.p3 = [k.p3 EXCEPT ![e][va] = NoEntry] /\ h.pgdir = k.pgdir
           /\ TlbKept(k, h)
           /\ \A q : Held(k, L, q) /\ q # k.p3[e][va].page => Held(h, L, q)
<1>0. k \in Memory /\ e \in Env /\ L \in SUBSET Env
  BY DEF Good
<1>1. PICK w, a : w = pgdir_walk(k, e, va, FALSE) /\ a = w.m
  OBVIOUS
<1>2. Good(a, L, x) /\ Kept(k, L, a)
  BY <1>1, WalkEffect
<1>3. a = page_lookup(k, e, va)
  BY <1>1 DEF page_lookup
<1>4. a \in Memory /\ Sound(a, L, x) /\ Tables(a, L)
  BY <1>2 DEF Good
<1>5. k.p3 \in [Env -> [VA -> Entry \cup {NoEntry}]] /\ a.p3 = k.p3
  BY <1>0, <1>2, MemoryFacts DEF Kept
<1>6. CASE ~Mapped(a, e, va)
  <2>1. h = a
    BY <1>3, <1>6 DEF page_remove
  <2>2. k.p3[e][va] = NoEntry
    BY <1>5, <1>6 DEF Mapped
  <2>3. [k.p3 EXCEPT ![e][va] = NoEntry] = k.p3
    BY <1>0, <1>5, <2>2, PutEntry
  <2> QED BY <1>2, <2>1, <2>3 DEF Kept, TlbKept
<1>7. CASE Mapped(a, e, va)
  <2>1. PICK p \in Page : p = a.p3[e][va].page
    BY <1>0, <1>4, <1>7, EntryFacts DEF Mapped
  <2>2. PICK s : s = <<"p3", e, va>>
    OBVIOUS
  <2>3. s \in Slots(L) /\ PageAt(a, s) = p
    BY <2>1, <2>2, SlotCases DEF PageAt
  <2>4. a.pp_ref[p] > 0
    <3>1. Refs(a, L, p) # {}
      BY <2>3 DEF Refs
    <3> QED BY <1>0, <1>4, <3>1, Unreferenced
  <2>5. PICK d : d = page_decref(a, p)
    OBVIOUS
  <2>6. /\ d \in Memory /\ d.pp_ref = [a.pp_ref EXCEPT ![p] = @ - 1]
        /\ d.page_free_list = IF a.pp_ref[p] - 1 = 0 THEN a.page_free_list \cup {p}
                                                     ELSE a.page_free_list
        /\ SameTables(a, d) /\ d.tlb = a.tlb
    BY <1>4, <2>4, <2>5, DecrefRecord
  <2>7. PICK c : c = [d EXCEPT !.p3[e][va] = NoEntry]
    OBVIOUS
  <2>8. /\ c \in Memory /\ c.pp_ref = d.pp_ref /\ c.page_free_list = d.page_free_list
        /\ c.pgdir = d.pgdir /\ c.p1 = d.p1 /\ c.p2 = d.p2
        /\ c.p3 = [d.p3 EXCEPT ![e][va] = NoEntry] /\ c.tlb = d.tlb
    BY <1>0, <2>6, <2>7, P3Record
  <2>9. /\ c.pp_ref = [a.pp_ref EXCEPT ![p] = @ - 1]
        /\ c.page_free_list = IF a.pp_ref[p] - 1 = 0 THEN a.page_free_list \cup {p}
                                                     ELSE a.page_free_list
        /\ c.pgdir = a.pgdir /\ c.p1 = a.p1 /\ c.p2 = a.p2
        /\ c.p3 = [a.p3 EXCEPT ![e][va] = NoEntry] /\ c.tlb = a.tlb
    BY <2>6, <2>8 DEF SameTables
  <2>10. PageAt(c, s) = NoPage /\ \A t \in Slots(L) \ {s} : PageAt(c, t) = PageAt(a, t)
    <3>1. NoEntry.page = NoPage
      BY DEF NoEntry
    <3> QED BY <1>0, <1>4, <2>2, <2>9, <3>1, AtP3
  <2>11. Sound(c, L, x)
    BY <1>0, <1>4, <2>3, <2>9, <2>10, ClearKeeps
  <2>12. \A b \in Env, v \in VA : c.p3[b][v] = IF b = e /\ v = va THEN NoEntry ELSE a.p3[b][v]
    BY <1>0, <1>5, <2>9, PutEntry
  <2>13. Tables(c, L)
    BY <1>4, <2>9, <2>12 DEF Tables
  <2>14. Good(c, L, x)
    BY <1>0, <2>8, <2>11, <2>13 DEF Good
  <2>15. h = tlb_invalidate(c, e, va)
    BY <1>3, <1>7, <2>1, <2>5, <2>7 DEF page_remove
  <2>16. /\ h \in Memory /\ h.pp_ref = c.pp_ref /\ h.page_free_list = c.page_free_list
         /\ SameTables(c, h) /\ h.tlb \subseteq c.tlb /\ (Sfence = "all" => h.tlb = {})
    BY <2>8, <2>15, InvalidateRecord
  <2>17. Good(h, L, x)
    BY <2>14, <2>16, SameGood
  <2>18. ASSUME NEW q, Held(k, L, q), q # k.p3[e][va].page PROVE Held(h, L, q)
    <3>1. Held(a, L, q) /\ q # p
      BY <1>2, <1>5, <2>1, <2>18 DEF Kept
    <3>2. q \in Page \ h.page_free_list
      BY <2>9, <2>16, <3>1 DEF Held
    <3>3. \A t \in Slots(L) : PageAt(h, t) = q => t[1] = "p3"
      BY <2>2, <2>10, <2>16, <3>1, AtSame DEF Held
    <3> QED BY <3>2, <3>3 DEF Held
  <2> QED BY <1>2, <1>5, <2>9, <2>16, <2>17, <2>18 DEF Kept, TlbKept, SameTables
<1> QED BY <1>6, <1>7

\* page_insert of a page that is in use, as a mapping or not yet.
LEMMA InsertEffect ==
    ASSUME NEW k, NEW L, NEW x, Good(k, L, x), NEW e \in L, NEW va \in VA, NEW asid,
           NEW p, Held(k, L, p), NEW perm \in Perm, NEW y \in Entry, y.page = p, y.perm = perm,
           NEW r, r = page_insert(k, e, asid, p, va, perm)
    PROVE  /\ Good(r.m, L, x) /\ r.m.pgdir = k.pgdir /\ r.ok \in BOOLEAN
           /\ r.ok => r.m.p3 = Put(k.p3, e, va, y)
           /\ ~r.ok => r.m.p3 = Put(k.p3, e, va, NoEntry)
           /\ r.m.tlb \subseteq k.tlb /\ (Sfence = "all" => r.m.tlb = {})
<1>0. k \in Memory /\ e \in Env /\ L \in SUBSET Env /\ p \in Page
  BY DEF Good, Held
<1>8. y = [page |-> p, perm |-> perm]
  BY DEF Entry
<1>1. PICK w, a : w = pgdir_walk(k, e, va, FALSE) /\ a = w.m
  OBVIOUS
<1>2. Good(a, L, x) /\ Kept(k, L, a)
  BY <1>1, WalkEffect
<1>3. a = page_lookup(k, e, va)
  BY <1>1 DEF page_lookup
<1>4. a \in Memory /\ Sound(a, L, x) /\ Tables(a, L) /\ Held(a, L, p)
  BY <1>2 DEF Good, Kept
<1>5. k.p3 \in [Env -> [VA -> Entry \cup {NoEntry}]] /\ a.p3 = k.p3
  BY <1>0, <1>2, MemoryFacts DEF Kept
<1>6. CASE a.p3[e][va].page = p
  <2>1. PICK b, c : b = tlb_invalidate(a, asid, va) /\ c = [b EXCEPT !.p3[e][va] = y]
    OBVIOUS
  <2>2. r.ok = TRUE /\ r.m = c
    BY <1>3, <1>6, <1>8, <2>1 DEF page_insert, Walk
  <2>3. /\ b \in Memory /\ b.pp_ref = a.pp_ref /\ b.page_free_list = a.page_free_list
        /\ SameTables(a, b) /\ b.tlb \subseteq a.tlb /\ (Sfence = "all" => b.tlb = {})
    BY <1>4, <2>1, InvalidateRecord
  <2>4. /\ c \in Memory /\ c.pp_ref = b.pp_ref /\ c.page_free_list = b.page_free_list
        /\ c.pgdir = b.pgdir /\ c.p1 = b.p1 /\ c.p2 = b.p2
        /\ c.p3 = [b.p3 EXCEPT ![e][va] = y] /\ c.tlb = b.tlb
    BY <1>0, <2>1, <2>3, P3Record
  <2>5. /\ c.pp_ref = a.pp_ref /\ c.page_free_list = a.page_free_list
        /\ c.pgdir = a.pgdir /\ c.p1 = a.p1 /\ c.p2 = a.p2
        /\ c.p3 = [a.p3 EXCEPT ![e][va] = y]
    BY <2>3, <2>4 DEF SameTables
  <2>6. \A s \in Slots(L) : PageAt(c, s) = PageAt(a, s)
    <3>1. PICK s : s = <<"p3", e, va>>
      OBVIOUS
    <3>2. PageAt(a, s) = a.p3[e][va].page /\ PageAt(c, s) = y.page
      BY <1>0, <1>4, <2>5, <3>1, AtP3
    <3>3. \A t \in Slots(L) \ {s} : PageAt(c, t) = PageAt(a, t)
      BY <1>0, <1>4, <2>5, <3>1, AtP3
    <3> QED BY <1>0, <1>6, <3>2, <3>3
  <2>7. Sound(c, L, x)
    BY <1>0, <1>4, <2>5, <2>6, SameKeeps
  <2>8. \A d \in Env, v \in VA : c.p3[d][v] = IF d = e /\ v = va THEN y ELSE a.p3[d][v]
    BY <1>0, <1>5, <2>5, PutEntry
  <2>9. a.p3[e][va] # NoEntry
    BY <1>0, <1>4, <1>6, EntryFacts
  <2>10. Tables(c, L)
    BY <1>0, <1>4, <2>5, <2>8, <2>9 DEF Tables
  <2> QED BY <1>0, <1>2, <1>5, <2>2, <2>3, <2>4, <2>5, <2>7, <2>10 DEF Good, Kept, Put
<1>7. CASE a.p3[e][va].page # p
  <2>1. PICK b : b = page_remove(a, e, va)
    OBVIOUS
  <2>2. /\ Good(b, L, x) /\ b.p3 = [a.p3 EXCEPT ![e][va] = NoEntry] /\ b.pgdir = a.pgdir
        /\ b.tlb \subseteq a.tlb /\ Held(b, L, p)
    BY <1>2, <1>4, <1>7, <2>1, RemoveEffect DEF TlbKept
  <2>3. PICK c : c = tlb_invalidate(b, asid, va)
    OBVIOUS
  <2>4. /\ c \in Memory /\ c.pp_ref = b.pp_ref /\ c.page_free_list = b.page_free_list
        /\ SameTables(b, c) /\ c.tlb \subseteq b.tlb /\ (Sfence = "all" => c.tlb = {})
    BY <2>2, <2>3, InvalidateRecord DEF Good
  <2>5. Good(c, L, x)
    BY <2>2, <2>4, SameGood
  <2>6. Held(c, L, p)
    BY <2>2, <2>4, AtSame DEF Held
  <2>7. PICK u, g : u = pgdir_walk(c, e, va, TRUE) /\ g = u.m
    OBVIOUS
  <2>8. Good(g, L, x) /\ Kept(c, L, g) /\ u.ok \in BOOLEAN /\ (u.ok => g.p2[e][P2X(va)] # NoPage)
    BY <2>5, <2>7, WalkEffect
  <2>9. /\ g \in Memory /\ Sound(g, L, x) /\ Tables(g, L) /\ Held(g, L, p)
        /\ g.p3 = [a.p3 EXCEPT ![e][va] = NoEntry] /\ g.pgdir = k.pgdir
        /\ g.tlb \subseteq k.tlb /\ (Sfence = "all" => g.tlb = {})
    BY <1>2, <2>2, <2>4, <2>6, <2>8 DEF Good, Kept, SameTables
  <2>10. CASE ~u.ok
    <3>1. r = u
      BY <1>3, <1>7, <2>1, <2>3, <2>7, <2>10 DEF page_insert
    <3> QED BY <1>0, <1>5, <2>7, <2>8, <2>9, <2>10, <3>1 DEF Put
  <2>11. CASE u.ok
    <3>1. PICK d, f : d = Counted(g, p) /\ f = [d EXCEPT !.p3[e][va] = y]
      OBVIOUS
    <3>2. r.ok = TRUE /\ r.m = f
      BY <1>3, <1>7, <1>8, <2>1, <2>3, <2>7, <2>11, <3>1 DEF page_insert, Walk
    <3>3. /\ d \in Memory /\ d.pp_ref = [g.pp_ref EXCEPT ![p] = @ + 1]
          /\ d.page_free_list = g.page_free_list /\ SameTables(g, d) /\ d.tlb = g.tlb
      BY <1>0, <2>9, <3>1, CountFits, CountedRecord
    <3>4. /\ f \in Memory /\ f.pp_ref = d.pp_ref /\ f.page_free_list = d.page_free_list
          /\ f.pgdir = d.pgdir /\ f.p1 = d.p1 /\ f.p2 = d.p2
          /\ f.p3 = [d.p3 EXCEPT ![e][va] = y] /\ f.tlb = d.tlb
      BY <1>0, <3>1, <3>3, P3Record
    <3>5. /\ f.pp_ref = [g.pp_ref EXCEPT ![p] = @ + 1] /\ f.page_free_list = g.page_free_list
          /\ f.pgdir = g.pgdir /\ f.p1 = g.p1 /\ f.p2 = g.p2
          /\ f.p3 = [g.p3 EXCEPT ![e][va] = y] /\ f.tlb = g.tlb
      BY <3>3, <3>4 DEF SameTables
    <3>6. g.p3 \in [Env -> [VA -> Entry \cup {NoEntry}]] /\ g.p3[e][va] = NoEntry
      BY <1>0, <1>5, <2>9, PutEntry
    <3>7. PICK s : s = <<"p3", e, va>>
      OBVIOUS
    <3>8. /\ s \in Slots(L) /\ s[1] = "p3" /\ PageAt(g, s) = NoPage /\ PageAt(f, s) = p
          /\ \A t \in Slots(L) \ {s} : PageAt(f, t) = PageAt(g, t)
      <4>1. NoEntry.page = NoPage
        BY DEF NoEntry
      <4>2. PageAt(g, s) = g.p3[e][va].page /\ PageAt(f, s) = y.page
        BY <1>0, <2>9, <3>5, <3>7, AtP3, SMTT(30)
      <4>3. s \in Slots(L) /\ \A t \in Slots(L) \ {s} : PageAt(f, t) = PageAt(g, t)
        BY <1>0, <2>9, <3>5, <3>7, AtP3
      <4> QED BY <1>0, <3>6, <3>7, <4>1, <4>2, <4>3
    <3>9. f.page_free_list \subseteq g.page_free_list \ {p}
      BY <2>9, <3>5 DEF Held
    <3>10. Sound(f, L, x)
      BY <1>0, <2>9, <3>4, <3>5, <3>8, <3>9, FillKeeps
    <3>11. \A b2 \in Env, v \in VA : f.p3[b2][v] = IF b2 = e /\ v = va THEN y ELSE g.p3[b2][v]
      BY <1>0, <3>5, <3>6, PutEntry
    <3>12. Tables(f, L)
      BY <1>0, <2>8, <2>9, <2>11, <3>5, <3>11 DEF Tables
    <3>13. f.p3 = [k.p3 EXCEPT ![e][va] = y]
      <4>1. PICK f3 \in [Env -> [VA -> Entry \cup {NoEntry}]] : f3 = a.p3
        BY <1>5
      <4>2. PICK g3 : g3 = g.p3 /\ g3 = [f3 EXCEPT ![e][va] = NoEntry]
        BY <2>9, <4>1
      <4>3. [g3 EXCEPT ![e][va] = y] = [f3 EXCEPT ![e][va] = y]
        BY <1>0, <4>2
      <4> QED BY <1>0, <1>5, <3>5, <4>1, <4>2, <4>3
    <3> QED BY <1>0, <2>9, <3>2, <3>4, <3>5, <3>10, <3>12, <3>13 DEF Good, Put
  <2> QED BY <2>8, <2>10, <2>11
<1> QED BY <1>6, <1>7

-----------------------------------------------------------------------------
(* env_setup_vm, duppage's change in place, and the rounds of env_free.      *)

\* A slot belongs to the environment it names.
LEMMA SlotOwner ==
    ASSUME NEW L \in SUBSET Env, NEW s
    PROVE  s \in Slots(L) <=> s \in Slots(Env) /\ s[2] \in L
<1>1. ASSUME s \in Slots(L) PROVE s \in Slots(Env) /\ s[2] \in L
  BY <1>1, SlotCases
<1>2. ASSUME s \in Slots(Env), s[2] \in L PROVE s \in Slots(L)
  BY <1>2, SlotCases
<1> QED BY <1>1, <1>2

\* Writing a page directory changes one slot.
LEMMA AtPgdir ==
    ASSUME NEW k \in Memory, NEW h, NEW L \in SUBSET Env, NEW e \in L, NEW p,
           h.pgdir = [k.pgdir EXCEPT ![e] = p], h.p1 = k.p1, h.p2 = k.p2, h.p3 = k.p3
    PROVE  /\ <<"pgdir", e, 0>> \in Slots(L)
           /\ PageAt(k, <<"pgdir", e, 0>>) = k.pgdir[e] /\ PageAt(h, <<"pgdir", e, 0>>) = p
           /\ \A s \in Slots(L) \ {<<"pgdir", e, 0>>} : PageAt(h, s) = PageAt(k, s)
<1>1. <<"pgdir", e, 0>> \in Slots(L)
  BY SlotCases
<1>2. k.pgdir \in [Env -> Page \cup {NoPage}]
  BY MemoryFacts
<1>3. h.pgdir[e] = p /\ \A d \in L : d # e => h.pgdir[d] = k.pgdir[d]
  BY <1>2
<1>4. ASSUME NEW s \in Slots(L) \ {<<"pgdir", e, 0>>} PROVE PageAt(h, s) = PageAt(k, s)
  <2>1. CASE \E d \in L : s = <<"pgdir", d, 0>>
    BY <1>3, <2>1 DEF PageAt
  <2>2. CASE s[1] # "pgdir"
    BY <2>2 DEF PageAt
  <2> QED BY <2>1, <2>2, SlotCases
<1> QED BY <1>1, <1>3, <1>4 DEF PageAt

\* What refers to pages in an address space without tables.
LEMMA NoTables ==
    ASSUME NEW k, NEW e \in Env, NEW s \in Slots({e}), s # <<"pgdir", e, 0>>,
           \A i \in P1 : k.p1[e][i] = NoPage, \A i \in P2 : k.p2[e][i] = NoPage,
           \A va \in VA : k.p3[e][va] = NoEntry
    PROVE  PageAt(k, s) = NoPage
<1>1. NoEntry.page = NoPage
  BY DEF NoEntry
<1>2. CASE \E i \in P1 : s = <<"p1", e, i>>
  BY <1>2 DEF PageAt
<1>3. CASE \E i \in P2 : s = <<"p2", e, i>>
  BY <1>3 DEF PageAt
<1>4. CASE \E va \in VA : s = <<"p3", e, va>>
  BY <1>1, <1>4 DEF PageAt
<1> QED BY <1>2, <1>3, <1>4, SlotCases

Plus(L, e) == L \cup {e}

\* env_setup_vm: the new page directory belongs to the new address space, or, when
\* there is no ASID for it, to nobody.
LEMMA SetupEffect ==
    ASSUME NEW k, NEW L, NEW x, Good(k, L, x), CanAlloc(k, 1), NEW e \in Env \ L,
           NEW h, h = env_setup_vm(k, e), NEW p, p = First(k)
    PROVE  /\ Good(h, Plus(L, e), x) /\ \E y : Good(h, L, y)
           /\ h.p3 = k.p3 /\ h.tlb = k.tlb
           /\ CanAlloc(k, 2) => CanAlloc(h, 1)
<1>1. PICK a : a = page_alloc(k)
  OBVIOUS
<1>2. /\ Good(a, L, x) /\ p \in Page /\ p \in k.page_free_list
      /\ a.pp_ref = k.pp_ref /\ a.page_free_list = k.page_free_list \ {p}
      /\ SameTables(k, a) /\ a.tlb = k.tlb
      /\ a.pp_ref[p] = 0 /\ \A s \in Slots(L) : PageAt(a, s) # p
  BY <1>1, AllocEffect
<1>3. PICK c : c = Counted(a, p)
  OBVIOUS
<1>4. /\ c \in Memory /\ c.pp_ref = [a.pp_ref EXCEPT ![p] = @ + 1]
      /\ c.page_free_list = a.page_free_list /\ SameTables(a, c) /\ c.tlb = a.tlb
  BY <1>2, <1>3, CountFits, CountedRecord DEF Good
<1>5. h = [c EXCEPT !.pgdir[e] = p]
  BY <1>1, <1>3 DEF env_setup_vm
<1>6. /\ L \in SUBSET Env /\ a \in Memory /\ Sound(a, L, x) /\ Tables(a, L) /\ RefsFit
      /\ x \in [Page -> 0 .. 1] /\ a.pp_ref \in [Page -> Nat]
  BY <1>2, MemoryFacts DEF Good, Sound
<1>7. /\ h \in Memory /\ h.pp_ref = c.pp_ref /\ h.page_free_list = c.page_free_list
      /\ h.pgdir = [c.pgdir EXCEPT ![e] = p]
      /\ h.p1 = c.p1 /\ h.p2 = c.p2 /\ h.p3 = c.p3 /\ h.tlb = c.tlb
  BY <1>2, <1>4, <1>5, <1>6, PgdirRecord
<1>8. /\ h.pp_ref = [a.pp_ref EXCEPT ![p] = @ + 1] /\ h.page_free_list = a.page_free_list
      /\ h.pgdir = [a.pgdir EXCEPT ![e] = p]
      /\ h.p1 = a.p1 /\ h.p2 = a.p2 /\ h.p3 = a.p3 /\ h.tlb = a.tlb
  BY <1>4, <1>7 DEF SameTables
<1>9. PICK K \in SUBSET Env : K = L \cup {e}
  BY <1>6
<1>10. PICK z : z = [a EXCEPT !.pgdir[e] = NoPage]
  OBVIOUS
<1>11. /\ z \in Memory /\ z.pp_ref = a.pp_ref /\ z.page_free_list = a.page_free_list
       /\ z.pgdir = [a.pgdir EXCEPT ![e] = NoPage]
       /\ z.p1 = a.p1 /\ z.p2 = a.p2 /\ z.p3 = a.p3 /\ z.tlb = a.tlb
  BY <1>6, <1>10, PgdirRecord
<1>12. PICK s : s = <<"pgdir", e, 0>>
  OBVIOUS
<1>13. /\ s \in Slots(K) /\ PageAt(z, s) = NoPage
       /\ \A t \in Slots(K) \ {s} : PageAt(z, t) = PageAt(a, t)
  BY <1>6, <1>9, <1>11, <1>12, AtPgdir, SMTT(30)
<1>14. PageAt(h, s) = p /\ \A t \in Slots(K) \ {s} : PageAt(h, t) = PageAt(a, t)
  BY <1>6, <1>8, <1>9, <1>12, AtPgdir
<1>15. /\ Slots(L) \subseteq Slots(K) /\ s \notin Slots(L)
       /\ \A t \in Slots(K) \ Slots(L) : t \in Slots({e})
  BY <1>6, <1>9, <1>12, SlotOwner
<1>16. ASSUME NEW t \in Slots(K) \ Slots(L) PROVE PageAt(z, t) = NoPage
  <2>1. t \in Slots({e})
    BY <1>15, <1>16
  <2>2. /\ \A i \in P1 : z.p1[e][i] = NoPage
        /\ \A i \in P2 : z.p2[e][i] = NoPage
        /\ \A va \in VA : z.p3[e][va] = NoEntry
    BY <1>6, <1>11 DEF Tables
  <2>3. t # <<"pgdir", e, 0>> => PageAt(z, t) = NoPage
    BY <2>1, <2>2, NoTables
  <2> QED BY <1>12, <1>13, <2>3
<1>17. Sound(z, K, x)
  BY <1>6, <1>11, <1>13, <1>15, <1>16, SameKeeps
<1>18. Sound(h, K, x)
  <2>1. \A t \in Slots(K) \ {s} : PageAt(h, t) = PageAt(z, t)
    BY <1>13, <1>14
  <2>2. h.pp_ref = [z.pp_ref EXCEPT ![p] = @ + 1]
    BY <1>8, <1>11
  <2>3. h.page_free_list \subseteq z.page_free_list \ {p} /\ z.pp_ref[p] = 0
    BY <1>2, <1>8, <1>11
  <2> QED BY <1>2, <1>7, <1>11, <1>13, <1>14, <1>17, <2>1, <2>2, <2>3, FillKeeps
<1>19. a.pgdir \in [Env -> Page \cup {NoPage}]
  BY <1>6, MemoryFacts
<1>20. h.pgdir[e] = p /\ \A d \in L : h.pgdir[d] = a.pgdir[d]
  BY <1>6, <1>8, <1>19
<1>21. Tables(h, K) /\ Tables(h, L)
  BY <1>2, <1>6, <1>8, <1>9, <1>20 DEF Tables
<1>22. PICK y : y = [x EXCEPT ![p] = @ + 1]
  OBVIOUS
<1>23. Sound(h, L, y)
  <2>1. \A t \in Slots(L) : PageAt(h, t) = PageAt(a, t)
    BY <1>14, <1>15
  <2>2. y \in [Page -> 0 .. 1] /\ \A q \in Page : y[q] = IF q = p THEN x[q] + 1 ELSE x[q]
    <3>1. x[p] + 1 \in 0 .. 1
      <4>1. 0 = Cardinality(Refs(a, L, p)) + x[p] /\ x[p] \in Nat
        BY <1>2, <1>6 DEF Sound, Balanced
      <4>2. Cardinality(Refs(a, L, p)) \in Nat
        BY <1>6, RefsFinite
      <4> QED BY <4>1, <4>2
    <3> QED BY <1>2, <1>6, <1>22, <3>1
  <2>3. ASSUME NEW q \in Page PROVE h.pp_ref[q] = Cardinality(Refs(h, L, q)) + y[q]
    <3>1. Refs(h, L, q) = Refs(a, L, q)
      BY <2>1 DEF Refs
    <3>2. Cardinality(Refs(a, L, q)) \in Nat
      BY <1>6, RefsFinite
    <3>3. a.pp_ref[q] = Cardinality(Refs(a, L, q)) + x[q] /\ x[q] \in Nat
      BY <1>6 DEF Sound, Balanced
    <3>4. h.pp_ref[q] = IF q = p THEN a.pp_ref[q] + 1 ELSE a.pp_ref[q]
      BY <1>6, <1>8
    <3> QED BY <2>2, <3>1, <3>2, <3>3, <3>4
  <2>4. FreeZero(h)
    BY <1>2, <1>6, <1>8 DEF Sound, FreeZero
  <2>5. Private(h, L)
    BY <1>6, <2>1 DEF Sound, Private
  <2> QED BY <1>6, <2>2, <2>3, <2>4, <2>5 DEF Sound, Balanced
<1>24. CanAlloc(k, 2) => CanAlloc(h, 1)
  <2>1. k \in Memory /\ h.page_free_list = k.page_free_list \ {First(k)}
    BY <1>2, <1>8 DEF Good
  <2> QED BY <2>1, FreeLeft DEF CanAlloc
<1>25. Good(h, K, x) /\ Good(h, L, y)
  BY <1>6, <1>7, <1>18, <1>21, <1>23 DEF Good
<1> QED BY <1>2, <1>8, <1>9, <1>24, <1>25 DEF Plus, SameTables

\* An entry is replaced by one for the same page.
LEMMA EntryEffect ==
    ASSUME NEW k, NEW L, NEW x, Good(k, L, x), NEW e \in L, NEW va \in VA, k.p3[e][va] # NoEntry,
           NEW y \in Entry, y.page = k.p3[e][va].page, NEW h \in Memory, h.pp_ref = k.pp_ref,
           h.page_free_list = k.page_free_list, h.pgdir = k.pgdir, h.p1 = k.p1, h.p2 = k.p2,
           h.p3 = [k.p3 EXCEPT ![e][va] = y]
    PROVE  Good(h, L, x)
<1>1. k \in Memory /\ L \in SUBSET Env /\ e \in Env /\ Sound(k, L, x) /\ Tables(k, L)
  BY DEF Good
<1>2. k.p3 \in [Env -> [VA -> Entry \cup {NoEntry}]]
  BY <1>1, MemoryFacts
<1>4. PICK s : s = <<"p3", e, va>>
  OBVIOUS
<1>5. PageAt(k, s) = k.p3[e][va].page /\ PageAt(h, s) = y.page
  BY <1>1, <1>4, AtP3
<1>6. \A t \in Slots(L) \ {s} : PageAt(h, t) = PageAt(k, t)
  BY <1>1, <1>4, AtP3
<1>7. \A t \in Slots(L) : PageAt(h, t) = PageAt(k, t)
  BY <1>5, <1>6
<1>8. Sound(h, L, x)
  BY <1>1, <1>7, SameKeeps
<1>9. \A d \in Env, v \in VA : h.p3[d][v] = IF d = e /\ v = va THEN y ELSE k.p3[d][v]
  BY <1>1, <1>2, PutEntry
<1>10. Tables(h, L)
  BY <1>1, <1>9 DEF Tables
<1> QED BY <1>1, <1>8, <1>10 DEF Good

WithPerm(k, e, va, perm) == [k EXCEPT !.p3[e][va].perm = perm]

\* duppage changes the permissions of an entry in place.
LEMMA PermEffect ==
    ASSUME NEW k, NEW L, NEW x, Good(k, L, x), NEW e \in L, NEW va \in VA, k.p3[e][va] # NoEntry,
           NEW perm \in Perm, NEW h, h = WithPerm(k, e, va, perm),
           NEW y \in Entry, y.page = k.p3[e][va].page, y.perm = perm
    PROVE  Good(h, L, x) /\ h.p3 = Put(k.p3, e, va, y) /\ h.tlb = k.tlb
<1>1. k \in Memory /\ e \in Env
  BY DEF Good
<1>2. k.p3[e][va] \in Entry
  BY <1>1, MemoryFacts
<1>5. [k.p3[e][va] EXCEPT !.perm = perm] = y
  BY <1>2 DEF Entry
<1>6. PICK g : g = [k EXCEPT !.p3[e][va] = y]
  OBVIOUS
<1>7. /\ g \in Memory /\ g.pp_ref = k.pp_ref /\ g.page_free_list = k.page_free_list
      /\ g.pgdir = k.pgdir /\ g.p1 = k.p1 /\ g.p2 = k.p2
      /\ g.p3 = [k.p3 EXCEPT ![e][va] = y] /\ g.tlb = k.tlb
  BY <1>1, <1>6, P3Record
<1>8. Good(g, L, x)
  BY <1>7, EntryEffect
<1>9. h = g
  BY <1>1, <1>5, <1>6 DEF Memory, WithPerm
<1> QED BY <1>7, <1>8, <1>9 DEF Put

\* What env_free does to the memory when it drops a table.
WithoutP3(k, e, i) == [page_decref(k, k.p2[e][i]) EXCEPT !.p2[e][i] = NoPage]
WithoutP2(k, e, i) == [page_decref(k, k.p1[e][i]) EXCEPT !.p1[e][i] = NoPage]

\* env_free drops a third-level table without entries.
LEMMA DropP3Effect ==
    ASSUME NEW k, NEW L, NEW x, Good(k, L, x), NEW e \in L, NEW i \in P2, k.p2[e][i] # NoPage,
           \A va \in VA : P2X(va) = i => k.p3[e][va] = NoEntry,
           NEW h, h = WithoutP3(k, e, i)
    PROVE  Good(h, L, x) /\ h.p3 = k.p3 /\ h.tlb = k.tlb
<1>1. k \in Memory /\ L \in SUBSET Env /\ e \in Env /\ Sound(k, L, x) /\ Tables(k, L)
  BY DEF Good
<1>2. PICK p \in Page : p = k.p2[e][i]
  BY <1>1, MemoryFacts
<1>3. PICK s : s = <<"p2", e, i>>
  OBVIOUS
<1>4. s \in Slots(L) /\ PageAt(k, s) = p
  BY <1>2, <1>3, SlotCases DEF PageAt
<1>5. k.pp_ref[p] > 0
  <2>1. Refs(k, L, p) # {}
    BY <1>4 DEF Refs
  <2> QED BY <1>1, <2>1, Unreferenced
<1>6. PICK d, c : d = page_decref(k, p) /\ c = [d EXCEPT !.p2[e][i] = NoPage]
  OBVIOUS
<1>7. /\ d \in Memory /\ d.pp_ref = [k.pp_ref EXCEPT ![p] = @ - 1]
      /\ d.page_free_list = IF k.pp_ref[p] - 1 = 0 THEN k.page_free_list \cup {p}
                                                   ELSE k.page_free_list
      /\ SameTables(k, d) /\ d.tlb = k.tlb
  BY <1>1, <1>5, <1>6, DecrefRecord
<1>8. /\ c \in Memory /\ c.pp_ref = d.pp_ref /\ c.page_free_list = d.page_free_list
      /\ c.pgdir = d.pgdir /\ c.p1 = d.p1 /\ c.p2 = [d.p2 EXCEPT ![e][i] = NoPage]
      /\ c.p3 = d.p3 /\ c.tlb = d.tlb
  BY <1>1, <1>6, <1>7, P2Record
<1>9. /\ c.pp_ref = [k.pp_ref EXCEPT ![p] = @ - 1]
      /\ c.page_free_list = IF k.pp_ref[p] - 1 = 0 THEN k.page_free_list \cup {p}
                                                   ELSE k.page_free_list
      /\ c.pgdir = k.pgdir /\ c.p1 = k.p1 /\ c.p2 = [k.p2 EXCEPT ![e][i] = NoPage]
      /\ c.p3 = k.p3 /\ c.tlb = k.tlb
  BY <1>7, <1>8 DEF SameTables
<1>10. PageAt(c, s) = NoPage /\ \A t \in Slots(L) \ {s} : PageAt(c, t) = PageAt(k, t)
  <2>1. PICK g, n : g = c /\ n = NoPage
    OBVIOUS
  <2>2. PageAt(g, s) = n /\ \A t \in Slots(L) \ {s} : PageAt(g, t) = PageAt(k, t)
    <3>1. g.p2 = [k.p2 EXCEPT ![e][i] = n] /\ g.pgdir = k.pgdir /\ g.p1 = k.p1 /\ g.p3 = k.p3
      BY <1>9, <2>1
    <3>2. PageAt(g, s) = n
      BY <1>1, <1>3, <3>1, AtP2
    <3>3. \A t \in Slots(L) \ {s} : PageAt(g, t) = PageAt(k, t)
      BY <1>1, <1>3, <3>1, AtP2
    <3> QED BY <3>2, <3>3
  <2> QED BY <2>1, <2>2
<1>11. Sound(c, L, x)
  BY <1>1, <1>4, <1>9, <1>10, ClearKeeps
<1>12. k.p2 \in [Env -> [P2 -> Page \cup {NoPage}]]
  BY <1>1, MemoryFacts
<1>13. \A b \in Env, j \in P2 : c.p2[b][j] = IF b = e /\ j = i THEN NoPage ELSE k.p2[b][j]
  BY <1>1, <1>9, <1>12
<1>14. Tables(c, L)
  BY <1>1, <1>9, <1>13, Constants DEF Tables
<1>15. h = c
  BY <1>2, <1>6 DEF WithoutP3
<1> QED BY <1>1, <1>8, <1>9, <1>11, <1>14, <1>15 DEF Good

\* env_free drops a second-level table without third-level ones.
LEMMA DropP2Effect ==
    ASSUME NEW k, NEW L, NEW x, Good(k, L, x), NEW e \in L, NEW i \in P1, k.p1[e][i] # NoPage,
           \A j \in P2 : j \div PTES = i => k.p2[e][j] = NoPage,
           NEW h, h = WithoutP2(k, e, i)
    PROVE  Good(h, L, x) /\ h.p3 = k.p3 /\ h.tlb = k.tlb
<1>1. k \in Memory /\ L \in SUBSET Env /\ e \in Env /\ Sound(k, L, x) /\ Tables(k, L)
  BY DEF Good
<1>2. PICK p \in Page : p = k.p1[e][i]
  BY <1>1, MemoryFacts
<1>3. PICK s : s = <<"p1", e, i>>
  OBVIOUS
<1>4. s \in Slots(L) /\ PageAt(k, s) = p
  BY <1>2, <1>3, SlotCases DEF PageAt
<1>5. k.pp_ref[p] > 0
  <2>1. Refs(k, L, p) # {}
    BY <1>4 DEF Refs
  <2> QED BY <1>1, <2>1, Unreferenced
<1>6. PICK d, c : d = page_decref(k, p) /\ c = [d EXCEPT !.p1[e][i] = NoPage]
  OBVIOUS
<1>7. /\ d \in Memory /\ d.pp_ref = [k.pp_ref EXCEPT ![p] = @ - 1]
      /\ d.page_free_list = IF k.pp_ref[p] - 1 = 0 THEN k.page_free_list \cup {p}
                                                   ELSE k.page_free_list
      /\ SameTables(k, d) /\ d.tlb = k.tlb
  BY <1>1, <1>5, <1>6, DecrefRecord
<1>8. /\ c \in Memory /\ c.pp_ref = d.pp_ref /\ c.page_free_list = d.page_free_list
      /\ c.pgdir = d.pgdir /\ c.p1 = [d.p1 EXCEPT ![e][i] = NoPage]
      /\ c.p2 = d.p2 /\ c.p3 = d.p3 /\ c.tlb = d.tlb
  BY <1>1, <1>6, <1>7, P1Record
<1>9. /\ c.pp_ref = [k.pp_ref EXCEPT ![p] = @ - 1]
      /\ c.page_free_list = IF k.pp_ref[p] - 1 = 0 THEN k.page_free_list \cup {p}
                                                   ELSE k.page_free_list
      /\ c.pgdir = k.pgdir /\ c.p1 = [k.p1 EXCEPT ![e][i] = NoPage]
      /\ c.p2 = k.p2 /\ c.p3 = k.p3 /\ c.tlb = k.tlb
  BY <1>7, <1>8 DEF SameTables
<1>10. PageAt(c, s) = NoPage /\ \A t \in Slots(L) \ {s} : PageAt(c, t) = PageAt(k, t)
  <2>1. PICK g, n : g = c /\ n = NoPage
    OBVIOUS
  <2>2. PageAt(g, s) = n /\ \A t \in Slots(L) \ {s} : PageAt(g, t) = PageAt(k, t)
    <3>1. g.p1 = [k.p1 EXCEPT ![e][i] = n] /\ g.pgdir = k.pgdir /\ g.p2 = k.p2 /\ g.p3 = k.p3
      BY <1>9, <2>1
    <3>2. PageAt(g, s) = n
      BY <1>1, <1>3, <3>1, AtP1
    <3>3. \A t \in Slots(L) \ {s} : PageAt(g, t) = PageAt(k, t)
      BY <1>1, <1>3, <3>1, AtP1
    <3> QED BY <3>2, <3>3
  <2> QED BY <2>1, <2>2
<1>11. Sound(c, L, x)
  BY <1>1, <1>4, <1>9, <1>10, ClearKeeps, ZenonT(30)
<1>12. k.p1 \in [Env -> [P1 -> Page \cup {NoPage}]]
  BY <1>1, MemoryFacts
<1>13. \A b \in Env, j \in P1 : c.p1[b][j] = IF b = e /\ j = i THEN NoPage ELSE k.p1[b][j]
  BY <1>1, <1>9, <1>12
<1>14. \A j \in P2 : j \div PTES \in P1
  BY Quotients, Constants DEF P2
<1>15. Tables(c, L)
  BY <1>1, <1>9, <1>13, <1>14, Constants DEF Tables
<1>16. h = c
  BY <1>2, <1>6 DEF WithoutP2
<1> QED BY <1>1, <1>8, <1>9, <1>11, <1>15, <1>16 DEF Good

\* env_free drops the page directory of an address space without tables.
LEMMA DropPgdirEffect ==
    ASSUME NEW k, NEW L, NEW x, Good(k, L, x), NEW e \in L, \A i \in P1 : k.p1[e][i] = NoPage,
           NEW h, h = tlb_flush_asid(page_decref(k, k.pgdir[e]), e)
    PROVE  Good(h, L \ {e}, x) /\ h.p3 = k.p3 /\ h.tlb \subseteq k.tlb
<1>1. k \in Memory /\ L \in SUBSET Env /\ e \in Env /\ Sound(k, L, x) /\ Tables(k, L)
  BY DEF Good
<1>2. PICK p \in Page : p = k.pgdir[e]
  BY <1>1 DEF Tables
<1>3. PICK s : s = <<"pgdir", e, 0>>
  OBVIOUS
<1>4. s \in Slots(L) /\ PageAt(k, s) = p
  BY <1>2, <1>3, SlotCases DEF PageAt
<1>5. k.pp_ref[p] > 0
  <2>1. Refs(k, L, p) # {}
    BY <1>4 DEF Refs
  <2> QED BY <1>1, <2>1, Unreferenced
<1>6. PICK d, c, f : /\ d = page_decref(k, p) /\ c = [d EXCEPT !.pgdir[e] = NoPage]
                     /\ f = tlb_flush_asid(d, e)
  OBVIOUS
<1>7. /\ d \in Memory /\ d.pp_ref = [k.pp_ref EXCEPT ![p] = @ - 1]
      /\ d.page_free_list = IF k.pp_ref[p] - 1 = 0 THEN k.page_free_list \cup {p}
                                                   ELSE k.page_free_list
      /\ SameTables(k, d) /\ d.tlb = k.tlb
  BY <1>1, <1>5, <1>6, DecrefRecord
<1>8. /\ c \in Memory /\ c.pp_ref = d.pp_ref /\ c.page_free_list = d.page_free_list
      /\ c.pgdir = [d.pgdir EXCEPT ![e] = NoPage]
      /\ c.p1 = d.p1 /\ c.p2 = d.p2 /\ c.p3 = d.p3 /\ c.tlb = d.tlb
  BY <1>1, <1>6, <1>7, PgdirRecord
<1>9. /\ c.pp_ref = [k.pp_ref EXCEPT ![p] = @ - 1]
      /\ c.page_free_list = IF k.pp_ref[p] - 1 = 0 THEN k.page_free_list \cup {p}
                                                   ELSE k.page_free_list
      /\ c.pgdir = [k.pgdir EXCEPT ![e] = NoPage]
      /\ c.p1 = k.p1 /\ c.p2 = k.p2 /\ c.p3 = k.p3
  BY <1>7, <1>8 DEF SameTables
<1>10. PageAt(c, s) = NoPage /\ \A t \in Slots(L) \ {s} : PageAt(c, t) = PageAt(k, t)
  BY <1>1, <1>3, <1>9, AtPgdir
<1>11. Sound(c, L, x)
  BY <1>1, <1>4, <1>9, <1>10, ClearKeeps
<1>12. /\ f \in Memory /\ f.pp_ref = d.pp_ref /\ f.page_free_list = d.page_free_list
       /\ SameTables(d, f) /\ f.tlb \subseteq d.tlb
  BY <1>6, <1>7, FlushRecord
<1>13. /\ f.pp_ref = c.pp_ref /\ f.page_free_list = c.page_free_list
       /\ f.pgdir = k.pgdir /\ f.p1 = k.p1 /\ f.p2 = k.p2 /\ f.p3 = k.p3 /\ f.tlb \subseteq k.tlb
  BY <1>7, <1>8, <1>12 DEF SameTables
<1>14. PICK K \in SUBSET Env : K = L \ {e}
  BY <1>1
<1>15. /\ Slots(K) \subseteq Slots(L) /\ s \notin Slots(K)
       /\ \A t \in Slots(L) \ Slots(K) : t \in Slots({e})
  BY <1>1, <1>3, <1>14, SlotOwner
<1>16. SameTables(k, f)
  BY <1>13 DEF SameTables
<1>17. \A t \in Slots(L) \cap Slots(K) : PageAt(f, t) = PageAt(c, t)
  BY <1>10, <1>15, <1>16, AtSame
<1>18. /\ \A i \in P1 : k.p1[e][i] = NoPage
       /\ \A i \in P2 : k.p2[e][i] = NoPage
       /\ \A va \in VA : k.p3[e][va] = NoEntry
  <2>1. \A i \in P2 : i \div PTES \in P1
    BY Quotients, Constants DEF P2
  <2>2. \A i \in P2 : k.p2[e][i] = NoPage
    BY <1>1, <2>1 DEF Tables
  <2> QED BY <1>1, <2>2, Constants DEF Tables
<1>19. ASSUME NEW t \in Slots(L) \ Slots(K) PROVE PageAt(c, t) = NoPage
  <2>1. t \in Slots({e})
    BY <1>15, <1>19
  <2>2. t # <<"pgdir", e, 0>> => PageAt(k, t) = NoPage
    BY <1>1, <1>18, <2>1, NoTables
  <2> QED BY <1>3, <1>10, <1>19, <2>2
<1>20. Sound(f, K, x)
  BY <1>1, <1>11, <1>13, <1>15, <1>17, <1>19, SameKeeps
<1>21. Tables(f, K)
  BY <1>1, <1>13, <1>14, <1>18 DEF Tables
<1>22. h = f
  BY <1>2, <1>6
<1> QED BY <1>12, <1>13, <1>14, <1>20, <1>21, <1>22 DEF Good

-----------------------------------------------------------------------------
(* What a step does to the entries and to the TLB.                           *)

Cleared(f, g) == \E e \in Env, va \in VA : g = Put(f, e, va, NoEntry)

\* An entry for a page that nobody has mapped.
Fresh(f, g) ==
    \E e \in Env, va \in VA, y \in Entry :
        /\ g = Put(f, e, va, y)
        /\ \A d \in Env, v \in VA : f[d][v].page # y.page

\* An entry for a page that a program has passed on.
Passed(f, g, S) ==
    \E e \in Env, va \in VA, y \in Entry : g = Put(f, e, va, y) /\ y.page \in S

\* A round of dup_userspace, from d to e.
Copied(f, g) ==
    \E d \in Env, e \in Env, va \in VA, y \in Entry :
        /\ d # e /\ f[d][va] \in Entry
        /\ y.page = f[d][va].page /\ y.perm = CowPerm(f[d][va].perm)
        /\ g = Put(Put(f, e, va, y), d, va, y)

EntryMoves(f, g, S) == g = f \/ Cleared(f, g) \/ Fresh(f, g) \/ Passed(f, g, S) \/ Copied(f, g)

\* A page that was passed on counts as such while it is mapped.
SharedKept(g, S, T) ==
    \A e \in Env, va \in VA : g[e][va] # NoEntry /\ g[e][va].page \in S => g[e][va].page \in T

\* The TLB gets only entries of the page tables, and is empty when those have changed.
TlbMoves(k, h) ==
    Sfence = "all" =>
        \/ h.tlb = {}
        \/ /\ h.p3 = k.p3
           /\ \A t \in h.tlb : t \in k.tlb \/ t.entry = k.p3[t.env][t.va]

\* While there are ASIDs for all no page directory is lost.
Exact(x) == Cardinality(Env) <= NASID => \A p \in Page : x[p] = 0

\* page_insert of a page just allocated.
LEMMA AllocInsert ==
    ASSUME NEW k, NEW L, NEW x, Good(k, L, x), CanAlloc(k, 1), NEW e \in L, NEW va \in VA,
           NEW asid, NEW perm \in Perm, NEW a, a = page_alloc(k), NEW p, p = First(k),
           NEW r, r = page_insert(a, e, asid, p, va, perm)
    PROVE  /\ Good(r.m, L, x) /\ r.ok \in BOOLEAN
           /\ Fresh(k.p3, r.m.p3) \/ Cleared(k.p3, r.m.p3)
           /\ r.m.tlb \subseteq k.tlb /\ (Sfence = "all" => r.m.tlb = {})
<1>2. /\ Good(a, L, x) /\ p \in Page /\ SameTables(k, a) /\ a.tlb = k.tlb
      /\ Held(a, L, p) /\ \A s \in Slots(L) : PageAt(a, s) # p
  BY AllocEffect
<1>3. PICK y \in Entry : y.page = p /\ y.perm = perm
  BY <1>2, EntryOf
<1>4. /\ Good(r.m, L, x) /\ r.ok \in BOOLEAN
      /\ r.ok => r.m.p3 = Put(a.p3, e, va, y)
      /\ ~r.ok => r.m.p3 = Put(a.p3, e, va, NoEntry)
      /\ r.m.tlb \subseteq a.tlb /\ (Sfence = "all" => r.m.tlb = {})
  BY <1>2, <1>3, InsertEffect
<1>5. e \in Env /\ L \in SUBSET Env /\ a.p3 = k.p3
  BY <1>2, <1>3 DEF Good, SameTables
<1>6. ASSUME NEW d \in Env, NEW v \in VA PROVE a.p3[d][v].page # p
  <2>1. CASE d \in L
    <3>1. <<"p3", d, v>> \in Slots(L)
      BY <2>1, SlotCases
    <3>2. PageAt(a, <<"p3", d, v>>) = a.p3[d][v].page
      BY DEF PageAt
    <3> QED BY <1>2, <3>1, <3>2
  <2>2. CASE d \notin L
    <3>1. a.p3[d][v] = NoEntry /\ NoEntry.page = NoPage
      BY <1>2, <2>2 DEF Good, Tables, NoEntry
    <3> QED BY <1>2, <3>1, Constants
  <2> QED BY <2>1, <2>2
<1>7. ASSUME r.ok PROVE Fresh(k.p3, r.m.p3)
  <2>1. PICK f, g : f = k.p3 /\ g = r.m.p3
    OBVIOUS
  <2>2. g = Put(f, e, va, y) /\ \A d \in Env, v \in VA : f[d][v].page # y.page
    BY <1>3, <1>4, <1>5, <1>6, <1>7, <2>1
  <2>3. Fresh(f, g)
    BY <1>4, <1>5, <2>2 DEF Fresh
  <2> QED BY <2>1, <2>3
<1>8. ASSUME ~r.ok PROVE Cleared(k.p3, r.m.p3)
  <2>1. PICK f, g : f = k.p3 /\ g = r.m.p3
    OBVIOUS
  <2>2. g = Put(f, e, va, NoEntry)
    BY <1>4, <1>5, <1>8, <2>1
  <2>3. Cleared(f, g)
    BY <1>5, <2>2 DEF Cleared
  <2> QED BY <2>1, <2>3
<1> QED BY <1>2, <1>4, <1>7, <1>8

\* Pages that are mapped are not free, so Becomes forgets none of them.
LEMMA BecomesKeeps ==
    ASSUME NEW h, NEW L, NEW x, Good(h, L, x), NEW S \in SUBSET Page, NEW passed \in SUBSET Page,
           NEW T \in SUBSET Page, \A q \in S \cup passed : q \notin h.page_free_list => q \in T
    PROVE  /\ SharedKept(h.p3, S, T)
           /\ \A e \in Env, va \in VA :
                h.p3[e][va] # NoEntry /\ h.p3[e][va].page \in passed => h.p3[e][va].page \in T
<1>1. ASSUME NEW e \in Env, NEW va \in VA, h.p3[e][va] # NoEntry
      PROVE  h.p3[e][va].page \notin h.page_free_list
  <2>1. h \in Memory /\ L \in SUBSET Env /\ Sound(h, L, x) /\ Tables(h, L)
    BY DEF Good
  <2>2. e \in L
    BY <1>1, <2>1 DEF Tables
  <2>3. PICK p \in Page : p = h.p3[e][va].page
    BY <1>1, <2>1, EntryFacts
  <2>4. <<"p3", e, va>> \in Slots(L) /\ PageAt(h, <<"p3", e, va>>) = p
    BY <2>2, <2>3, SlotCases DEF PageAt
  <2>5. Refs(h, L, p) # {}
    BY <2>4 DEF Refs
  <2> QED BY <2>1, <2>3, <2>5, Unreferenced
<1> QED BY <1>1 DEF SharedKept

-----------------------------------------------------------------------------
(* The invariant.  Counts are exact but for lost page directories, the page  *)
(* tables are trees, and the loops know where they are.                      *)

PagesInv == \E x : Good(m, live, x) /\ Exact(x)

TaskInv ==
    /\ task \in Task
    /\ task.op = "dup" =>
        /\ task.from \in live /\ task.to \in live /\ task.from # task.to /\ task.todo # {}
        /\ \A va \in task.todo : m.p3[task.from][va] # NoEntry
    /\ task.op = "free" => task.from \in live

RestInv == parent \in [Env -> Env \cup {NULL}] /\ shared \in SUBSET Page /\ panicked \in BOOLEAN

PmapInv == PagesInv /\ TaskInv /\ RestInv

\* What is shown of each action.
Stepped ==
    /\ PmapInv'
    /\ TlbMoves(m, m') /\ EntryMoves(m.p3, m'.p3, shared') /\ SharedKept(m'.p3, shared, shared')

\* With no task under way nothing is required of one.
LEMMA Idle ==
    ASSUME task' = Boot \/ task' = NoTask
    PROVE  TaskInv'
<1>1. Boot = [op |-> "boot", from |-> NULL, to |-> NULL, todo |-> {}]
  BY DEF Boot, NoTask
<1>2. Boot \in Task /\ NoTask \in Task /\ Boot.op = "boot" /\ NoTask.op = "none"
  BY <1>1 DEF NoTask, Task
<1> QED BY <1>2 DEF TaskInv

\* The memory stays.
LEMMA Stays ==
    ASSUME PmapInv, m' = m, live' = live, shared' = shared, TaskInv', parent' = parent,
           panicked' \in BOOLEAN
    PROVE  Stepped
<1>1. PagesInv'
  BY DEF PmapInv, PagesInv
<1>2. RestInv'
  BY DEF PmapInv, RestInv
<1>3. TlbMoves(m, m') /\ EntryMoves(m.p3, m'.p3, shared') /\ SharedKept(m'.p3, shared, shared')
  BY DEF TlbMoves, EntryMoves, SharedKept
<1> QED BY <1>1, <1>2, <1>3 DEF Stepped, PmapInv

\* The memory becomes another good one.
LEMMA Settles ==
    ASSUME RestInv, NEW h, NEW passed \in SUBSET Page, Becomes(h, passed),
           NEW x, Good(h, live', x), Exact(x), TaskInv',
           parent' \in [Env -> Env \cup {NULL}], panicked' \in BOOLEAN, TlbMoves(m, h),
           EntryMoves(m.p3, h.p3, passed), m.p3 \in [Env -> [VA -> Entry \cup {NoEntry}]]
    PROVE  Stepped
<1>1. m' = h /\ shared' = (shared \cup passed) \ h.page_free_list
  BY DEF Becomes
<1>2. PICK S, T : S = shared /\ T = shared'
  OBVIOUS
<1>3. /\ S \in SUBSET Page /\ T \in SUBSET Page
      /\ \A q \in S \cup passed : q \notin h.page_free_list => q \in T
  BY <1>1, <1>2 DEF RestInv
<1>4. PICK L : Good(h, L, x)
  OBVIOUS
<1>5. /\ SharedKept(h.p3, S, T)
      /\ \A e \in Env, va \in VA :
           h.p3[e][va] # NoEntry /\ h.p3[e][va].page \in passed => h.p3[e][va].page \in T
  BY <1>3, <1>4, BecomesKeeps, ZenonT(30)
<1>6. PICK f, g : f = m.p3 /\ g = h.p3
  OBVIOUS
<1>7. ASSUME Passed(f, g, passed) PROVE Passed(f, g, T)
  <2>1. PICK e \in Env, va \in VA, y \in Entry : g = Put(f, e, va, y) /\ y.page \in passed
    BY <1>7 DEF Passed
  <2>2. g[e][va] = y
    BY <1>6, <2>1 DEF Put
  <2>3. y.page \in T
    BY <1>5, <1>6, <2>1, <2>2, Constants
  <2> QED BY <2>1, <2>3 DEF Passed
<1>8. EntryMoves(f, g, T)
  BY <1>6, <1>7 DEF EntryMoves
<1>9. PagesInv'
  BY <1>1 DEF PagesInv
<1>10. RestInv'
  BY <1>2, <1>3 DEF RestInv
<1> QED BY <1>1, <1>2, <1>5, <1>6, <1>8, <1>9, <1>10 DEF Stepped, PmapInv

\* The initial state satisfies the invariant.
LEMMA PmapInit == ASSUME RefsFit PROVE Init => PmapInv
<1> SUFFICES ASSUME Init PROVE PmapInv
  OBVIOUS
<1>1. m \in Memory
  BY DEF Init, Memory
<1>2. PICK x : x = [p \in Page |-> 0]
  OBVIOUS
<1>3. Slots({}) = {}
  BY SlotCases
<1>4. ASSUME NEW p \in Page PROVE Cardinality(Refs(m, {}, p)) = 0
  BY <1>3, FS_EmptySet DEF Refs
<1>5. Sound(m, {}, x)
  <2>1. x \in [Page -> 0 .. 1] /\ \A p \in Page : x[p] = 0
    BY <1>2
  <2>2. m.pp_ref = [p \in Page |-> 0] /\ m.page_free_list = Page
    BY DEF Init
  <2>3. \A p \in Page : m.pp_ref[p] = 0
    BY <2>2
  <2>4. Balanced(m, {}, x)
    BY <1>4, <2>1, <2>3 DEF Balanced
  <2>5. Private(m, {})
    BY <1>3 DEF Private
  <2> QED BY <2>1, <2>2, <2>3, <2>4, <2>5 DEF Sound, FreeZero
<1>6. Tables(m, {})
  BY Constants, Quotients DEF Tables, Init
<1>7. PagesInv
  BY <1>1, <1>2, <1>5, <1>6 DEF PagesInv, Good, Exact, Init
<1>8. TaskInv
  <2>1. Boot = [op |-> "boot", from |-> NULL, to |-> NULL, todo |-> {}]
    BY DEF Boot, NoTask
  <2>2. Boot \in Task /\ Boot.op = "boot"
    BY <2>1 DEF Task
  <2> QED BY <2>2 DEF TaskInv, Init
<1> QED BY <1>7, <1>8 DEF PmapInv, RestInv, Init

\* What the invariant says of the memory, with the surplus of the counts named.
LEMMA Current ==
    ASSUME PmapInv
    PROVE  /\ m \in Memory /\ live \in SUBSET Env
           /\ m.p3 \in [Env -> [VA -> Entry \cup {NoEntry}]] /\ RestInv /\ TaskInv
           /\ \E x : Good(m, live, x) /\ Exact(x)
<1>1. m \in Memory /\ live \in SUBSET Env
  BY DEF PmapInv, PagesInv, Good
<1>2. m.p3 \in [Env -> [VA -> Entry \cup {NoEntry}]]
  BY <1>1, MemoryFacts
<1> QED BY <1>1, <1>2 DEF PmapInv, PagesInv

\* The permissions a caller may pass are permissions.
LEMMA PermsAre == ASSUME NEW perm \in Perms PROVE perm \in Perm
BY Constants DEF Perm

-----------------------------------------------------------------------------
(* The actions.                                                              *)

\* What page_insert of a new page and page_remove do is a move.
LEMMA InsertMoves ==
    ASSUME NEW k, NEW h, h.tlb \subseteq k.tlb, Sfence = "all" => h.tlb = {},
           Fresh(k.p3, h.p3) \/ Cleared(k.p3, h.p3), NEW S
    PROVE  TlbMoves(k, h) /\ EntryMoves(k.p3, h.p3, S)
BY DEF TlbMoves, EntryMoves

\* page_remove is one of the moves that the TLB and the sharing invariant allow.
LEMMA RemoveMoves ==
    ASSUME NEW k, NEW L, NEW x, Good(k, L, x), NEW e \in L, NEW va \in VA,
           NEW h, h = page_remove(k, e, va), NEW S
    PROVE  Good(h, L, x) /\ TlbMoves(k, h) /\ EntryMoves(k.p3, h.p3, S)
<1>1. Good(h, L, x) /\ h.p3 = [k.p3 EXCEPT ![e][va] = NoEntry] /\ TlbKept(k, h)
  BY RemoveEffect
<1>2. TlbMoves(k, h)
  BY <1>1 DEF TlbKept, TlbMoves
<1>3. PICK f, g : f = k.p3 /\ g = h.p3
  OBVIOUS
<1>4. g = Put(f, e, va, NoEntry) /\ e \in Env
  BY <1>1, <1>3 DEF Put, Good
<1>5. Cleared(f, g)
  BY <1>4 DEF Cleared
<1> QED BY <1>1, <1>2, <1>3, <1>5 DEF EntryMoves


\* sys_mem_unmap preserves the invariant.
LEMMA UnmapSteps ==
    ASSUME PmapInv, NEW e \in Env, NEW d \in Env, NEW va \in VA, sys_mem_unmap(e, d, va)
    PROVE  Stepped
<1>1. PICK x : Good(m, live, x) /\ Exact(x)
  BY Current
<1>2. PICK h : h = page_remove(m, d, va)
  OBVIOUS
<1>3. d \in live /\ Becomes(h, {}) /\ UNCHANGED <<live, parent, task, panicked>> /\ task = NoTask
  BY <1>2 DEF sys_mem_unmap, Permitted, Quiet
<1>4. Good(h, live, x) /\ TlbMoves(m, h) /\ EntryMoves(m.p3, h.p3, {})
  BY <1>1, <1>2, <1>3, RemoveMoves
<1>5. TaskInv'
  BY <1>3, Idle
<1>6. parent' \in [Env -> Env \cup {NULL}] /\ panicked' \in BOOLEAN /\ Good(h, live', x)
  BY <1>3, <1>4, Current DEF RestInv
<1> QED BY <1>1, <1>3, <1>4, <1>5, <1>6, Current, Settles

\* sys_mem_alloc preserves the invariant, whichever of its allocations fails.
LEMMA AllocSteps ==
    ASSUME PmapInv, NEW e \in Env, NEW d \in Env, NEW va \in VA, NEW perm \in Perms,
           sys_mem_alloc(e, d, va, perm)
    PROVE  Stepped
<1>1. PICK x : Good(m, live, x) /\ Exact(x)
  BY Current
<1>2. PICK a, p, r, h : /\ a = page_alloc(m) /\ p = First(m)
                        /\ r = page_insert(a, d, d, p, va, perm) /\ h = r.m
  OBVIOUS
<1>3. /\ d \in live /\ CanAlloc(m, 1) /\ Becomes(h, {}) /\ UNCHANGED <<live, parent, task, panicked>>
      /\ task = NoTask
  BY <1>2 DEF sys_mem_alloc, Permitted, Quiet
<1>4. /\ Good(h, live, x) /\ (Fresh(m.p3, h.p3) \/ Cleared(m.p3, h.p3))
      /\ h.tlb \subseteq m.tlb /\ (Sfence = "all" => h.tlb = {})
  BY <1>1, <1>2, <1>3, PermsAre, AllocInsert
<1>5. TlbMoves(m, h) /\ EntryMoves(m.p3, h.p3, {})
  BY <1>4, InsertMoves
<1>6. TaskInv'
  BY <1>3, Idle
<1>7. parent' \in [Env -> Env \cup {NULL}] /\ panicked' \in BOOLEAN /\ Good(h, live', x)
  BY <1>3, <1>4, Current DEF RestInv
<1> QED BY <1>1, <1>3, <1>5, <1>6, <1>7, Current, Settles

\* Share, for sys_mem_map and for a message.
LEMMA ShareSteps ==
    ASSUME PmapInv, NEW d \in live, NEW srcva \in VA, NEW f \in live, NEW dstva \in VA,
           NEW perm \in Perms, Share(d, srcva, f, dstva, perm), task = NoTask,
           UNCHANGED <<live, parent, task, panicked>>
    PROVE  Stepped
<1>1. PICK x : Good(m, live, x) /\ Exact(x)
  BY Current
<1>2. PICK w, a : w = pgdir_walk(m, d, srcva, FALSE) /\ a = w.m
  OBVIOUS
<1>3. Good(a, live, x) /\ Kept(m, live, a)
  BY <1>1, <1>2, WalkEffect
<1>4. a = page_lookup(m, d, srcva)
  BY <1>2 DEF page_lookup
<1>5. TaskInv'
  BY Idle
<1>6. parent' \in [Env -> Env \cup {NULL}] /\ panicked' \in BOOLEAN /\ live' = live
  BY Current DEF RestInv
<1>7. live \in SUBSET Env /\ a \in Memory /\ a.p3 = m.p3 /\ a.tlb = m.tlb /\ Sound(a, live, x)
  BY <1>3 DEF Good, Kept
<1>8. CASE ~Mapped(a, d, srcva)
  <2>1. Becomes(a, {})
    BY <1>4, <1>8 DEF Share
  <2>2. TlbMoves(m, a) /\ EntryMoves(m.p3, a.p3, {})
    BY <1>7 DEF TlbMoves, EntryMoves
  <2>3. Good(a, live', x)
    BY <1>3, <1>6
  <2> QED BY <1>1, <1>5, <1>6, <2>1, <2>2, <2>3, Current, Settles
<1>9. CASE Mapped(a, d, srcva)
  <2>1. PICK p \in Page : p = a.p3[d][srcva].page
    BY <1>7, <1>9, EntryFacts DEF Mapped
  <2>2. PICK r, h : r = page_insert(a, f, f, p, dstva, perm) /\ h = r.m
    OBVIOUS
  <2>3. Becomes(h, {p})
    BY <1>4, <1>9, <2>1, <2>2 DEF Share
  <2>4. PICK s : s = <<"p3", d, srcva>>
    OBVIOUS
  <2>5. s \in Slots(live) /\ s[1] = "p3" /\ PageAt(a, s) = p
    BY <2>1, <2>4, SlotCases DEF PageAt
  <2>6. Held(a, live, p)
    BY <1>7, <2>5, MappedIsHeld
  <2>7. PICK y \in Entry : y.page = p /\ y.perm = perm
    BY PermsAre, EntryOf
  <2>8. /\ Good(h, live, x) /\ r.ok \in BOOLEAN
        /\ r.ok => h.p3 = Put(a.p3, f, dstva, y)
        /\ ~r.ok => h.p3 = Put(a.p3, f, dstva, NoEntry)
        /\ h.tlb \subseteq a.tlb /\ (Sfence = "all" => h.tlb = {})
    BY <1>3, <2>2, <2>6, <2>7, PermsAre, InsertEffect, SMTT(30)
  <2>9. Passed(m.p3, h.p3, {p}) \/ Cleared(m.p3, h.p3)
    <3>1. PICK b, g : b = m.p3 /\ g = h.p3
      OBVIOUS
    <3>2. g = Put(b, f, dstva, y) \/ g = Put(b, f, dstva, NoEntry)
      BY <1>7, <2>8, <3>1
    <3>3. Passed(b, g, {p}) \/ Cleared(b, g)
      BY <1>7, <2>7, <3>2 DEF Passed, Cleared
    <3> QED BY <3>1, <3>3
  <2>10. TlbMoves(m, h) /\ EntryMoves(m.p3, h.p3, {p})
    BY <1>7, <2>8, <2>9 DEF TlbMoves, EntryMoves
  <2>11. Good(h, live', x) /\ {p} \in SUBSET Page
    BY <1>6, <2>8
  <2> QED BY <1>1, <1>5, <1>6, <2>3, <2>10, <2>11, Current, Settles
<1> QED BY <1>8, <1>9

\* An access that hits, or fills the TLB, preserves the invariant.
LEMMA AccessSteps ==
    ASSUME PmapInv, NEW e \in Env, NEW va \in VA, NEW write \in BOOLEAN, access(e, va, write)
    PROVE  Stepped
<1>1. PICK x : Good(m, live, x) /\ Exact(x)
  BY Current
<1>2. PICK t : t = [env |-> e, va |-> va, entry |-> m.p3[e][va]]
  OBVIOUS
<1>3. /\ task = NoTask /\ m.p3[e][va] # NoEntry /\ m' = [m EXCEPT !.tlb = @ \cup {t}]
      /\ UNCHANGED <<live, parent, task, shared, panicked>>
  BY <1>2 DEF access, Quiet, Mapped
<1>4. m \in Memory /\ m.p3[e][va] \in Entry
  BY <1>3, Current
<1>5. t \in [env : Env, va : VA, entry : Entry]
  BY <1>2, <1>4
<1>6. PICK T \in SUBSET [env : Env, va : VA, entry : Entry] : T = m.tlb \cup {t}
  BY <1>4, <1>5, MemoryFacts
<1>7. PICK h : h = [m EXCEPT !.tlb = T]
  OBVIOUS
<1>8. /\ h \in Memory /\ h.pp_ref = m.pp_ref /\ h.page_free_list = m.page_free_list
      /\ h.pgdir = m.pgdir /\ h.p1 = m.p1 /\ h.p2 = m.p2 /\ h.p3 = m.p3 /\ h.tlb = T
  BY <1>4, <1>7, TlbRecord
<1>9. m' = h
  BY <1>3, <1>4, <1>6, <1>7 DEF Memory
<1>10. Good(h, live, x)
  <2>1. SameTables(m, h)
    BY <1>8 DEF SameTables
  <2> QED BY <1>1, <1>8, <2>1, SameGood
<1>11. TlbMoves(m, h) /\ EntryMoves(m.p3, h.p3, shared) /\ SharedKept(h.p3, shared, shared)
  <2>1. t.entry = m.p3[t.env][t.va]
    BY <1>2
  <2> QED BY <1>6, <1>8, <2>1 DEF TlbMoves, EntryMoves, SharedKept
<1>12. PagesInv'
  BY <1>1, <1>3, <1>9, <1>10 DEF PagesInv
<1>13. TaskInv' /\ RestInv'
  BY <1>3, Idle, Current DEF RestInv
<1> QED BY <1>3, <1>9, <1>11, <1>12, <1>13 DEF Stepped, PmapInv

\* do_page_fault preserves the invariant.
LEMMA FaultSteps ==
    ASSUME PmapInv, NEW e \in Env, NEW va \in VA, NEW write \in BOOLEAN, do_page_fault(e, va, write)
    PROVE  Stepped
<1>1. PICK x : Good(m, live, x) /\ Exact(x)
  BY Current
<1>2. e \in live /\ task = NoTask /\ UNCHANGED <<live, parent, task>>
  BY DEF do_page_fault, Quiet
<1>3. PICK w, k : w = pgdir_walk(m, e, va, FALSE) /\ k = w.m
  OBVIOUS
<1>4. Good(k, live, x) /\ Kept(m, live, k)
  BY <1>1, <1>2, <1>3, WalkEffect
<1>5. k = page_lookup(m, e, va)
  BY <1>3 DEF page_lookup
<1>6. TaskInv'
  BY <1>2, Idle
<1>7. ASSUME panicked' = TRUE, UNCHANGED <<m, shared>> PROVE Stepped
  BY <1>2, <1>6, <1>7, Stays
<1>8. ASSUME NEW asid, NEW perm \in Perm, CanAlloc(k, 1), UNCHANGED panicked,
             Becomes(page_insert(page_alloc(k), e, asid, First(k), va, perm).m, {})
      PROVE  Stepped
  <2>1. PICK a, p, r, h : /\ a = page_alloc(k) /\ p = First(k)
                          /\ r = page_insert(a, e, asid, p, va, perm) /\ h = r.m
    OBVIOUS
  <2>2. Becomes(h, {})
    BY <1>8, <2>1
  <2>3. /\ Good(h, live, x) /\ (Fresh(k.p3, h.p3) \/ Cleared(k.p3, h.p3))
        /\ h.tlb \subseteq k.tlb /\ (Sfence = "all" => h.tlb = {})
    BY <1>2, <1>4, <1>8, <2>1, AllocInsert
  <2>4. k.p3 = m.p3 /\ k.tlb = m.tlb
    BY <1>4 DEF Kept
  <2>5. TlbMoves(m, h) /\ EntryMoves(m.p3, h.p3, {})
    BY <2>3, <2>4 DEF TlbMoves, EntryMoves
  <2>6. parent' \in [Env -> Env \cup {NULL}] /\ panicked' \in BOOLEAN /\ Good(h, live', x)
    BY <1>2, <1>8, <2>3, Current DEF RestInv
  <2> QED BY <1>1, <1>6, <2>2, <2>5, <2>6, Current, Settles
<1>9. CASE passive_alloc(k, e, va)
  <2>1. {"W"} \in Perm
    BY DEF Perm
  <2>2. CASE CanAlloc(k, 1) /\ page_insert(page_alloc(k), e, NULL, First(k), va, {"W"}).ok
    <3>1. Becomes(page_insert(page_alloc(k), e, NULL, First(k), va, {"W"}).m, {}) /\ UNCHANGED panicked
      BY <1>9, <2>2 DEF passive_alloc
    <3> QED BY <1>8, <2>1, <2>2, <3>1
  <2>3. CASE ~(CanAlloc(k, 1) /\ page_insert(page_alloc(k), e, NULL, First(k), va, {"W"}).ok)
    <3>1. panicked' = TRUE /\ UNCHANGED <<m, shared>>
      BY <1>9, <2>3 DEF passive_alloc
    <3> QED BY <1>7, <3>1
  <2> QED BY <2>2, <2>3
<1>10. CASE do_cow(k, e, va) /\ Mapped(k, e, va)
  <2>1. PICK perm : perm = (k.p3[e][va].perm \ {"COW"}) \cup {"W"}
    OBVIOUS
  <2>2. perm \in Perm
    <3>1. k.p3[e][va] \in Entry
      BY <1>4, <1>10, MemoryFacts DEF Good, Mapped
    <3> QED BY <2>1, <3>1 DEF Entry, Perm
  <2>3. CASE CanAlloc(k, 1)
    <3>1. Becomes(page_insert(page_alloc(k), e, e, First(k), va, perm).m, {}) /\ UNCHANGED panicked
      BY <1>10, <2>1, <2>3 DEF do_cow
    <3> QED BY <1>8, <2>2, <2>3, <3>1
  <2>4. CASE ~CanAlloc(k, 1)
    <3>1. panicked' = TRUE /\ UNCHANGED <<m, shared>>
      BY <1>10, <2>4 DEF do_cow
    <3> QED BY <1>7, <3>1
  <2> QED BY <2>3, <2>4
<1>11. \/ passive_alloc(k, e, va)
       \/ do_cow(k, e, va) /\ Mapped(k, e, va)
       \/ panicked' = TRUE /\ UNCHANGED <<m, shared>>
  BY <1>5 DEF do_page_fault
<1> QED BY <1>7, <1>9, <1>10, <1>11

\* env_create preserves the invariant.
LEMMA CreateSteps ==
    ASSUME PmapInv, NEW e \in Env, NEW va \in VA, NEW perm \in Perms, env_create(e, va, perm)
    PROVE  Stepped
<1>1. PICK x : Good(m, live, x) /\ Exact(x)
  BY Current
<1>2. PICK k, a, p, r, h : /\ k = env_setup_vm(m, e) /\ a = page_alloc(k) /\ p = First(k)
                           /\ r = page_insert(a, e, e, p, va, perm) /\ h = r.m
  OBVIOUS
<1>3. task = Boot /\ e \notin live /\ CanAlloc(m, 1)
  BY DEF env_create
<1>4. CASE Panic
  <2>1. /\ m' = m /\ live' = live /\ shared' = shared /\ parent' = parent /\ task' = task
        /\ panicked' = TRUE
    BY <1>4 DEF Panic
  <2>2. TaskInv'
    BY <1>3, <2>1, Idle
  <2> QED BY <2>1, <2>2, Stays
<1>5. CASE /\ CanAlloc(m, 2) /\ Becomes(h, {}) /\ live' = live \cup {e}
           /\ UNCHANGED <<parent, task, panicked>>
  <2>1. PICK q, L : q = First(m) /\ L = Plus(live, e)
    OBVIOUS
  <2>2. Good(k, L, x) /\ k.p3 = m.p3 /\ k.tlb = m.tlb /\ CanAlloc(k, 1)
    BY <1>1, <1>2, <1>3, <1>5, <2>1, SetupEffect
  <2>3. e \in L
    BY <2>1 DEF Plus
  <2>4. /\ Good(h, L, x) /\ (Fresh(k.p3, h.p3) \/ Cleared(k.p3, h.p3))
        /\ h.tlb \subseteq k.tlb /\ (Sfence = "all" => h.tlb = {})
    BY <1>2, <2>2, <2>3, PermsAre, AllocInsert
  <2>5. TlbMoves(m, h) /\ EntryMoves(m.p3, h.p3, {})
    BY <2>2, <2>4 DEF TlbMoves, EntryMoves
  <2>6. parent' \in [Env -> Env \cup {NULL}] /\ panicked' \in BOOLEAN /\ Good(h, live', x)
    BY <1>5, <2>1, <2>4, Current DEF RestInv, Plus
  <2>7. TaskInv'
    BY <1>3, <1>5, Idle
  <2> QED BY <1>1, <1>5, <2>5, <2>6, <2>7, Current, Settles
<1>6. \/ Panic
      \/ /\ CanAlloc(m, 2) /\ Becomes(h, {}) /\ live' = live \cup {e}
         /\ UNCHANGED <<parent, task, panicked>>
  BY <1>2 DEF env_create
<1> QED BY <1>4, <1>5, <1>6

\* When an address space is left and every one can have an ASID, there is one.
LEMMA AsidsSuffice ==
    ASSUME NEW L \in SUBSET Env, NEW e \in Env \ L, Cardinality(Env) <= NASID
    PROVE  Cardinality(L) < NASID
<1>1. IsFiniteSet(Env) /\ Cardinality(Env) \in Nat /\ NASID \in Nat
  BY Constants, FS_CardinalityType
<1>2. Cardinality(L) <= Cardinality(Env) /\ Cardinality(Env) # Cardinality(L) /\ IsFiniteSet(L)
  BY <1>1, FS_Subset
<1>3. Cardinality(L) \in Nat
  BY <1>2, FS_CardinalityType
<1> QED BY <1>1, <1>2, <1>3

\* env_alloc without a free ASID loses a directory and nothing else.
LEMMA NoAsidSteps ==
    ASSUME PmapInv, NEW e \in Env, env_alloc_no_asid(e)
    PROVE  Stepped
<1>1. PICK x : Good(m, live, x) /\ Exact(x)
  BY Current
<1>2. PICK h, p : h = env_setup_vm(m, e) /\ p = First(m)
  OBVIOUS
<1>3. /\ task = Boot \/ task = NoTask
      /\ e \notin live /\ ~AsidLeft /\ CanAlloc(m, 1) /\ Becomes(h, {})
      /\ UNCHANGED <<live, parent, task, panicked>>
  BY <1>2 DEF env_alloc_no_asid, Quiet
<1>4. (\E y : Good(h, live, y)) /\ h.p3 = m.p3 /\ h.tlb = m.tlb
  BY <1>1, <1>2, <1>3, SetupEffect
<1>5. PICK y : Good(h, live, y)
  BY <1>4
<1>6. Exact(y)
  BY <1>3, Current, AsidsSuffice DEF Exact, AsidLeft
<1>7. TlbMoves(m, h) /\ EntryMoves(m.p3, h.p3, {})
  BY <1>4 DEF TlbMoves, EntryMoves
<1>8. TaskInv'
  BY <1>3, Idle
<1>9. parent' \in [Env -> Env \cup {NULL}] /\ panicked' \in BOOLEAN /\ Good(h, live', y)
  BY <1>3, <1>5, Current DEF RestInv
<1> QED BY <1>3, <1>6, <1>7, <1>8, <1>9, Current, Settles

\* sys_exofork preserves the invariant.
LEMMA ForkSteps ==
    ASSUME PmapInv, NEW e \in Env, NEW child \in Env, sys_exofork(e, child)
    PROVE  Stepped
<1>1. PICK x : Good(m, live, x) /\ Exact(x)
  BY Current
<1>2. PICK h, p, L : h = env_setup_vm(m, child) /\ p = First(m) /\ L = Plus(live, child)
  OBVIOUS
<1>3. /\ e \in live /\ child \notin live /\ CanAlloc(m, 1) /\ Becomes(h, {}) /\ live' = L
      /\ parent' = [parent EXCEPT ![child] = e] /\ task' = Loop("dup", e, child, Below(e))
      /\ UNCHANGED panicked
  BY <1>2 DEF sys_exofork, Plus
<1>4. Good(h, L, x) /\ h.p3 = m.p3 /\ h.tlb = m.tlb
  BY <1>1, <1>2, <1>3, SetupEffect
<1>5. TlbMoves(m, h) /\ EntryMoves(m.p3, h.p3, {})
  BY <1>4 DEF TlbMoves, EntryMoves
<1>6. parent' \in [Env -> Env \cup {NULL}] /\ panicked' \in BOOLEAN /\ Good(h, live', x)
  BY <1>3, <1>4, Current DEF RestInv
<1>7. TaskInv'
  <2>1. CASE Below(e) = {}
    BY <1>3, <2>1, Idle DEF Loop
  <2>2. CASE Below(e) # {}
    <3>1. task' = [op |-> "dup", from |-> e, to |-> child, todo |-> Below(e)]
      BY <1>3, <2>2 DEF Loop
    <3>2. /\ task'.op = "dup" /\ task'.from = e /\ task'.to = child /\ task'.todo = Below(e)
          /\ task' \in Task
      BY <3>1 DEF Task, Below
    <3>3. m'.p3 = m.p3
      BY <1>3, <1>4 DEF Becomes
    <3>4. \A va \in Below(e) : m'.p3[e][va] # NoEntry
      BY <3>3 DEF Below, Mapped
    <3> QED BY <1>2, <1>3, <2>2, <3>2, <3>4 DEF TaskInv, Plus
  <2> QED BY <2>1, <2>2
<1> QED BY <1>1, <1>3, <1>5, <1>6, <1>7, Current, Settles

\* The permissions duppage maps with are not those of a private writable page.
LEMMA CowPermIs ==
    ASSUME NEW perm \in Perm
    PROVE  CowPerm(perm) \in Perm /\ ~("W" \in CowPerm(perm) /\ "LIBRARY" \notin CowPerm(perm))
BY DEF CowPerm, Perm

\* A round of duppage preserves the invariant.
LEMMA DupSteps ==
    ASSUME PmapInv, duppage
    PROVE  Stepped
<1>1. PICK x : Good(m, live, x) /\ Exact(x)
  BY Current
<1>2. /\ task \in Task /\ task.from \in live /\ task.to \in live /\ task.from # task.to
      /\ task.todo # {} /\ \A va \in task.todo : m.p3[task.from][va] # NoEntry
  BY Current DEF TaskInv, duppage
<1>3. task.todo \in SUBSET VA
  BY <1>2 DEF Task
<1>4. PICK d, e, va : d = task.from /\ e = task.to /\ va = LowestOf(task.todo)
  OBVIOUS
<1>5. va \in task.todo /\ va \in VA
  BY <1>2, <1>3, <1>4, Lowest, Constants
<1>6. d \in live /\ e \in live /\ d # e /\ live \in SUBSET Env /\ d \in Env /\ e \in Env
  BY <1>2, <1>4, Current
<1>7. PICK old : old = m.p3[d][va]
  OBVIOUS
<1>8. old \in Entry
  BY <1>2, <1>4, <1>5, <1>6, <1>7, Current
<1>9. PICK p \in Page, perm \in Perm : p = old.page /\ perm = CowPerm(old.perm)
  <2>1. old.page \in Page /\ old.perm \in Perm
    BY <1>8 DEF Entry
  <2> QED BY <2>1, CowPermIs
<1>10. PICK r, c, h : /\ r = page_insert(m, e, e, p, va, perm) /\ c = r.m
                      /\ h = WithPerm(c, d, va, perm)
  OBVIOUS
<1>11. CASE Panic
  <2>1. /\ m' = m /\ live' = live /\ shared' = shared /\ parent' = parent /\ task' = task
        /\ panicked' = TRUE
    BY <1>11 DEF Panic
  <2>2. TaskInv'
    BY <2>1, Current DEF TaskInv
  <2> QED BY <2>1, <2>2, Stays
<1>12. CASE /\ r.ok /\ Becomes(h, {}) /\ task' = Loop("dup", d, e, task.todo \ {va})
            /\ UNCHANGED <<live, parent, panicked>>
  <2>1. Held(m, live, p)
    <3>1. PICK s : s = <<"p3", d, va>>
      OBVIOUS
    <3>2. s \in Slots(live) /\ s[1] = "p3" /\ PageAt(m, s) = p
      BY <1>5, <1>6, <1>7, <1>9, <3>1, SlotCases DEF PageAt
    <3> QED BY <1>1, <1>6, <3>2, Current, MappedIsHeld DEF Good
  <2>2. PICK y \in Entry : y.page = p /\ y.perm = perm
    BY EntryOf
  <2>3. /\ Good(c, live, x) /\ c.p3 = Put(m.p3, e, va, y)
        /\ c.tlb \subseteq m.tlb /\ (Sfence = "all" => c.tlb = {})
    BY <1>1, <1>5, <1>6, <1>10, <1>12, <2>1, <2>2, InsertEffect
  <2>4. PICK f, g, f2 : f = m.p3 /\ g = c.p3 /\ f2 = h.p3
    OBVIOUS
  <2>5. /\ g \in [Env -> [VA -> Entry \cup {NoEntry}]]
        /\ \A b \in Env, v \in VA : g[b][v] = IF b = e /\ v = va THEN y ELSE f[b][v]
    BY <1>5, <1>6, <2>3, <2>4, Current, PutEntry DEF Put
  <2>6. c.p3[d][va] # NoEntry /\ c.p3[d][va].page = p
    BY <1>5, <1>6, <1>7, <1>8, <1>9, <2>4, <2>5, Constants
  <2>7. Good(h, live, x) /\ h.p3 = Put(c.p3, d, va, y) /\ h.tlb = c.tlb
    BY <1>5, <1>6, <1>10, <2>2, <2>3, <2>6, PermEffect
  <2>9. f2 = Put(Put(f, e, va, y), d, va, y)
    BY <2>3, <2>4, <2>7
  <2>10. Copied(f, f2)
    BY <1>5, <1>6, <1>7, <1>8, <1>9, <2>2, <2>4, <2>9 DEF Copied
  <2>11. TlbMoves(m, h) /\ EntryMoves(m.p3, h.p3, {})
    BY <2>3, <2>4, <2>7, <2>10 DEF TlbMoves, EntryMoves
  <2>12. TaskInv'
    <3>1. CASE task.todo \ {va} = {}
      BY <1>12, <3>1, Idle DEF Loop
    <3>2. CASE task.todo \ {va} # {}
      <4>1. task' = [op |-> "dup", from |-> d, to |-> e, todo |-> task.todo \ {va}]
        BY <1>12, <3>2 DEF Loop
      <4>2. /\ task'.op = "dup" /\ task'.from = d /\ task'.to = e /\ task'.todo = task.todo \ {va}
            /\ task' \in Task
        BY <1>3, <1>6, <4>1 DEF Task
      <4>3. m'.p3 = f2
        BY <1>12, <2>4 DEF Becomes
      <4>4. \A v \in VA \ {va} : f2[d][v] = f[d][v]
        BY <1>5, <1>6, <2>4, <2>5, <2>7 DEF Put
      <4>5. \A v \in task.todo \ {va} : m'.p3[d][v] # NoEntry
        BY <1>2, <1>3, <1>4, <2>4, <4>3, <4>4
      <4> QED BY <1>6, <1>12, <3>2, <4>2, <4>5 DEF TaskInv
    <3> QED BY <3>1, <3>2
  <2>13. parent' \in [Env -> Env \cup {NULL}] /\ panicked' \in BOOLEAN /\ Good(h, live', x)
    BY <1>12, <2>7, Current DEF RestInv
  <2> QED BY <1>1, <1>12, <2>11, <2>12, <2>13, Current, Settles
<1>13. \/ Panic
       \/ /\ r.ok /\ Becomes(h, {}) /\ task' = Loop("dup", d, e, task.todo \ {va})
          /\ UNCHANGED <<live, parent, panicked>>
  BY <1>4, <1>7, <1>9, <1>10 DEF duppage, WithPerm
<1> QED BY <1>11, <1>12, <1>13

\* The indexes of the upper levels are natural numbers.
LEMMA IndexesAreNat == P1 \in SUBSET Nat /\ P2 \in SUBSET Nat
<1>1. ASSUME NEW a \in Nat, NEW n \in Nat \ {0} PROVE a \div n \in Nat
  OBVIOUS
<1>2. PTES * PTES \in Nat \ {0}
  <2>1. PICK n \in Nat \ {0} : n = PTES
    BY Constants
  <2>2. n * n \in Nat \ {0}
    OBVIOUS
  <2> QED BY <2>1, <2>2
<1>3. \A va \in VA : P1X(va) \in Nat /\ P2X(va) \in Nat
  BY <1>1, <1>2, Constants DEF P1X, P2X
<1> QED BY <1>3 DEF P1, P2

\* The begin of env_free preserves the invariant.
LEMMA FreeBeginSteps ==
    ASSUME PmapInv, NEW e \in Env, NEW d \in Env, env_free_begin(e, d)
    PROVE  Stepped
<1>1. /\ d \in live /\ task' = [NoTask EXCEPT !.op = "free", !.from = d]
      /\ m' = m /\ live' = live /\ parent' = parent /\ shared' = shared /\ panicked' = panicked
  BY DEF env_free_begin, Permitted
<1>2. task' = [op |-> "free", from |-> d, to |-> NULL, todo |-> {}]
  BY <1>1 DEF NoTask
<1>3. task' \in Task /\ task'.op = "free" /\ task'.from = d
  BY <1>2 DEF Task
<1>4. TaskInv'
  BY <1>1, <1>3 DEF TaskInv
<1>5. panicked' \in BOOLEAN
  BY <1>1, Current DEF RestInv
<1> QED BY <1>1, <1>4, <1>5, Stays

\* A round of env_free preserves the invariant.
LEMMA FreeRoundSteps ==
    ASSUME PmapInv, env_free_round
    PROVE  Stepped
<1>1. PICK x : Good(m, live, x) /\ Exact(x)
  BY Current
<1>2. PICK e : e = task.from
  OBVIOUS
<1>3. task.op = "free" /\ e \in live /\ panicked' = panicked /\ e \in Env
  BY <1>2, Current DEF env_free_round, TaskInv
<1>4. parent \in [Env -> Env \cup {NULL}] /\ panicked' \in BOOLEAN
  BY <1>3, Current DEF RestInv
<1>5. ASSUME NEW h, Becomes(h, {}), UNCHANGED <<live, parent, task>>, Good(h, live, x),
             TlbMoves(m, h), EntryMoves(m.p3, h.p3, {})
      PROVE  Stepped
  <2>1. TaskInv'
    BY <1>3, <1>5, Current DEF TaskInv
  <2>2. Good(h, live', x) /\ parent' \in [Env -> Env \cup {NULL}]
    BY <1>4, <1>5
  <2> QED BY <1>1, <1>4, <1>5, <2>1, <2>2, Current, Settles
<1>6. PICK tables2 : tables2 = {i \in P1 : m.p1[e][i] # NoPage}
  OBVIOUS
<1>7. PICK x2 : x2 = LowestOf(tables2)
  OBVIOUS
<1>8. PICK tables3 : tables3 = {i \in P2 : i \div PTES = x2 /\ m.p2[e][i] # NoPage}
  OBVIOUS
<1>9. PICK x3 : x3 = LowestOf(tables3)
  OBVIOUS
<1>10. PICK pages : pages = {va \in VA : P2X(va) = x3 /\ Mapped(m, e, va)}
  OBVIOUS
<1>11. tables2 # {} => x2 \in P1 /\ m.p1[e][x2] # NoPage
  BY <1>6, <1>7, IndexesAreNat, Lowest
<1>12. tables3 # {} => x3 \in P2 /\ m.p2[e][x3] # NoPage
  BY <1>8, <1>9, IndexesAreNat, Lowest
<1>13. CASE /\ tables3 # {} /\ pages # {} /\ Becomes(page_remove(m, e, LowestOf(pages)), {})
            /\ UNCHANGED <<live, parent, task>>
  <2>1. LowestOf(pages) \in VA
    BY <1>10, <1>13, Constants, Lowest
  <2>0. PICK va \in VA : va = LowestOf(pages)
    BY <2>1
  <2>2. PICK h : va = LowestOf(pages) /\ h = page_remove(m, e, va)
    BY <2>0
  <2>3. Good(h, live, x) /\ TlbMoves(m, h) /\ EntryMoves(m.p3, h.p3, {})
    BY <1>1, <1>3, <2>2, RemoveMoves
  <2>4. Becomes(h, {})
    BY <1>13, <2>2
  <2> QED BY <1>5, <1>13, <2>3, <2>4
<1>14. CASE /\ tables3 # {} /\ pages = {}
            /\ Becomes([page_decref(m, m.p2[e][x3]) EXCEPT !.p2[e][x3] = NoPage], {})
            /\ UNCHANGED <<live, parent, task>>
  <2>1. PICK h : h = WithoutP3(m, e, x3)
    OBVIOUS
  <2>2. \A va \in VA : P2X(va) = x3 => m.p3[e][va] = NoEntry
    BY <1>10, <1>14 DEF Mapped
  <2>3. Good(h, live, x) /\ h.p3 = m.p3 /\ h.tlb = m.tlb
    BY <1>1, <1>3, <1>12, <1>14, <2>1, <2>2, DropP3Effect
  <2>4. TlbMoves(m, h) /\ EntryMoves(m.p3, h.p3, {})
    BY <2>3 DEF TlbMoves, EntryMoves
  <2>5. Becomes(h, {})
    BY <1>14, <2>1 DEF WithoutP3
  <2> QED BY <1>5, <1>14, <2>3, <2>4, <2>5
<1>15. CASE /\ tables2 # {} /\ tables3 = {}
            /\ Becomes([page_decref(m, m.p1[e][x2]) EXCEPT !.p1[e][x2] = NoPage], {})
            /\ UNCHANGED <<live, parent, task>>
  <2>1. PICK h : h = WithoutP2(m, e, x2)
    OBVIOUS
  <2>2. \A j \in P2 : j \div PTES = x2 => m.p2[e][j] = NoPage
    BY <1>8, <1>15
  <2>3. Good(h, live, x) /\ h.p3 = m.p3 /\ h.tlb = m.tlb
    BY <1>1, <1>3, <1>11, <1>15, <2>1, <2>2, DropP2Effect
  <2>4. TlbMoves(m, h) /\ EntryMoves(m.p3, h.p3, {})
    BY <2>3 DEF TlbMoves, EntryMoves
  <2>5. Becomes(h, {})
    BY <1>15, <2>1 DEF WithoutP2
  <2> QED BY <1>5, <1>15, <2>3, <2>4, <2>5
<1>16. CASE /\ tables2 = {} /\ Becomes(tlb_flush_asid(page_decref(m, m.pgdir[e]), e), {})
            /\ live' = live \ {e} /\ task' = NoTask
            /\ parent' = [d \in Env |-> IF e \in {d, parent[d]} THEN NULL ELSE parent[d]]
  <2>1. PICK h : h = tlb_flush_asid(page_decref(m, m.pgdir[e]), e)
    OBVIOUS
  <2>2. \A i \in P1 : m.p1[e][i] = NoPage
    BY <1>6, <1>16
  <2>3. Good(h, live \ {e}, x) /\ h.p3 = m.p3 /\ h.tlb \subseteq m.tlb
    BY <1>1, <1>3, <2>1, <2>2, DropPgdirEffect
  <2>4. TlbMoves(m, h) /\ EntryMoves(m.p3, h.p3, {})
    BY <2>3 DEF TlbMoves, EntryMoves
  <2>5. Becomes(h, {}) /\ Good(h, live', x)
    BY <1>16, <2>1, <2>3
  <2>6. parent' \in [Env -> Env \cup {NULL}]
    BY <1>4, <1>16
  <2>7. TaskInv'
    BY <1>16, Idle
  <2> QED BY <1>1, <1>4, <2>4, <2>5, <2>6, <2>7, Current, Settles
<1> QED BY <1>2, <1>6, <1>7, <1>8, <1>9, <1>10, <1>13, <1>14, <1>15, <1>16 DEF env_free_round

\* Every step of the specification is one of these.
LEMMA PmapSteps == PmapInv /\ [PmapNext]_vars => Stepped
<1> SUFFICES ASSUME PmapInv, [PmapNext]_vars PROVE Stepped
  OBVIOUS
<1>1. CASE UNCHANGED vars
  <2>1. /\ m' = m /\ live' = live /\ shared' = shared /\ parent' = parent /\ task' = task
        /\ panicked' = panicked
    BY <1>1 DEF vars
  <2>2. TaskInv' /\ panicked' \in BOOLEAN
    BY <2>1, Current DEF TaskInv, RestInv
  <2> QED BY <2>1, <2>2, Stays
<1>2. CASE \E e \in Env, va \in VA, perm \in Perms : env_create(e, va, perm)
  BY <1>2, CreateSteps
<1>3. CASE start_schedule
  <2>1. /\ m' = m /\ live' = live /\ shared' = shared /\ parent' = parent /\ task' = NoTask
        /\ panicked' = panicked
    BY <1>3 DEF start_schedule
  <2>2. TaskInv' /\ panicked' \in BOOLEAN
    BY <2>1, Idle, Current DEF RestInv
  <2> QED BY <2>1, <2>2, Stays
<1>4. CASE \E e \in Env : env_alloc_no_asid(e)
  BY <1>4, NoAsidSteps
<1>5. CASE \E e, d \in Env, va \in VA : sys_mem_unmap(e, d, va)
  BY <1>5, UnmapSteps
<1>6. CASE \E e, d \in Env, va \in VA, perm \in Perms : sys_mem_alloc(e, d, va, perm)
  BY <1>6, AllocSteps
<1>7. CASE \E e, d, f \in Env, va, w \in VA, perm \in Perms : sys_mem_map(e, d, va, f, w, perm)
  <2>1. PICK e, d, f \in Env, va, w \in VA, perm \in Perms : sys_mem_map(e, d, va, f, w, perm)
    BY <1>7
  <2>2. /\ d \in live /\ f \in live /\ task = NoTask /\ Share(d, va, f, w, perm)
        /\ UNCHANGED <<live, parent, task, panicked>>
    BY <2>1 DEF sys_mem_map, Quiet, Permitted
  <2> QED BY <2>2, ShareSteps
<1>8. CASE \E e, f \in Env, va, w \in VA, perm \in Perms : sys_ipc_try_send(e, va, f, w, perm)
  <2>1. PICK e, f \in Env, va, w \in VA, perm \in Perms : sys_ipc_try_send(e, va, f, w, perm)
    BY <1>8
  <2>2. /\ e \in live /\ f \in live /\ task = NoTask /\ Share(e, va, f, w, perm)
        /\ UNCHANGED <<live, parent, task, panicked>>
    BY <2>1 DEF sys_ipc_try_send, Quiet
  <2> QED BY <2>2, ShareSteps
<1>9. CASE \E e \in Env, va \in VA, write \in BOOLEAN : access(e, va, write)
  BY <1>9, AccessSteps
<1>10. CASE \E e \in Env, va \in VA, write \in BOOLEAN : do_page_fault(e, va, write)
  BY <1>10, FaultSteps
<1>11. CASE \E e, child \in Env : sys_exofork(e, child)
  BY <1>11, ForkSteps
<1>12. CASE duppage
  BY <1>12, DupSteps
<1>13. CASE \E e, d \in Env : env_free_begin(e, d)
  BY <1>13, FreeBeginSteps
<1>14. CASE env_free_round
  BY <1>14, FreeRoundSteps
<1> QED BY <1>1, <1>2, <1>3, <1>4, <1>5, <1>6, <1>7, <1>8, <1>9, <1>10, <1>11, <1>12, <1>13, <1>14
        DEF PmapNext

\* The invariant holds in every reachable state.
LEMMA PmapInvariant == ASSUME RefsFit PROVE PmapSpec => []PmapInv
<1>0. Init => PmapInv
  BY PmapInit
<1>1. PmapInv /\ [PmapNext]_vars => PmapInv'
  BY PmapSteps DEF Stepped
<1> QED BY <1>0, <1>1, PTL DEF PmapSpec

-----------------------------------------------------------------------------
(* Pages.                                                                    *)

\* The properties the runs check follow from the invariant.
LEMMA InvImpliesSafe == PmapInv => PmapTypeOK /\ PagesSafe
<1> SUFFICES ASSUME PmapInv PROVE PmapTypeOK /\ PagesSafe
  OBVIOUS
<1>1. PICK x : Good(m, live, x)
  BY Current
<1>2. m \in Memory /\ live \in SUBSET Env /\ Sound(m, live, x)
  BY <1>1 DEF Good
<1>3. PmapTypeOK
  BY <1>2, Current DEF PmapTypeOK, RestInv, TaskInv
<1>4. FreePagesUnused
  <2> SUFFICES ASSUME NEW p \in m.page_free_list PROVE m.pp_ref[p] = 0 /\ References(p) = {}
    BY DEF FreePagesUnused
  <2>1. m.pp_ref[p] = 0 /\ p \in Page
    BY <1>2, MemoryFacts DEF Sound, FreeZero
  <2>2. Refs(m, live, p) = {}
    BY <1>2, <2>1, Unreferenced
  <2> QED BY <2>1, <2>2, ReferencesAre
<1>5. TablesPrivate
  <2> SUFFICES ASSUME NEW p \in Page, IsTable(p) PROVE Cardinality(References(p)) = 1
    BY DEF TablesPrivate
  <2>1. PICK s \in Slots(live) : s[1] # "p3" /\ PageAt(m, s) = p
    <3>1. PICK e \in live : \/ m.pgdir[e] = p
                            \/ \E i \in P1 : m.p1[e][i] = p
                            \/ \E i \in P2 : m.p2[e][i] = p
      BY DEF IsTable
    <3>2. CASE m.pgdir[e] = p
      <4>1. <<"pgdir", e, 0>> \in Slots(live) /\ PageAt(m, <<"pgdir", e, 0>>) = p
        BY <3>2, SlotCases DEF PageAt
      <4> QED BY <4>1
    <3>3. CASE \E i \in P1 : m.p1[e][i] = p
      <4>1. PICK i \in P1 : m.p1[e][i] = p
        BY <3>3
      <4>2. <<"p1", e, i>> \in Slots(live) /\ PageAt(m, <<"p1", e, i>>) = p
        BY <4>1, SlotCases DEF PageAt
      <4> QED BY <4>2
    <3>4. CASE \E i \in P2 : m.p2[e][i] = p
      <4>1. PICK i \in P2 : m.p2[e][i] = p
        BY <3>4
      <4>2. <<"p2", e, i>> \in Slots(live) /\ PageAt(m, <<"p2", e, i>>) = p
        BY <4>1, SlotCases DEF PageAt
      <4> QED BY <4>2
    <3> QED BY <3>1, <3>2, <3>3, <3>4
  <2>2. Refs(m, live, p) = {s}
    BY <1>2, <2>1 DEF Refs, Sound, Private
  <2>3. Cardinality(Refs(m, live, p)) = 1
    BY <2>2, FS_Singleton
  <2> QED BY <2>3, ReferencesAre
<1> QED BY <1>3, <1>4, <1>5 DEF PagesSafe

\* Whatever fails for want of memory or ASIDs, page_decref never drops below zero
\* (PmapTypeOK), no page in use is given away and no page table is shared: for any
\* number of pages, address spaces, addresses and ASIDs for which pp_ref, a u_short,
\* cannot wrap (pmap.h:25).
THEOREM PagesSafeCorrect ==
    ASSUME RefsFit
    PROVE  PmapSpec => [](PmapTypeOK /\ PagesSafe)
<1>1. PmapSpec => []PmapInv
  BY PmapInvariant
<1> QED BY <1>1, InvImpliesSafe, PTL

\* Where every address space can have an ASID no page directory is lost, and pp_ref
\* is the number of entries that refer to the page, whatever fails for want of memory,
\* as long as that number fits in pp_ref's 16 bits (pmap.h:25).
THEOREM PagesExactCorrect ==
    ASSUME RefsFit, Cardinality(Env) <= NASID
    PROVE  PmapSpec => []PagesExact
<1>1. PmapInv => PagesExact
  <2> SUFFICES ASSUME PmapInv PROVE RefCountsExact
    BY InvImpliesSafe DEF PagesExact
  <2>1. PICK x : Good(m, live, x) /\ Exact(x)
    BY Current
  <2> SUFFICES ASSUME NEW p \in Page PROVE m.pp_ref[p] = Cardinality(References(p))
    BY DEF RefCountsExact
  <2>2. x[p] = 0
    BY <2>1 DEF Exact
  <2>3. m.pp_ref[p] = Cardinality(Refs(m, live, p)) + x[p]
    BY <2>1 DEF Good, Sound, Balanced
  <2>4. Cardinality(Refs(m, live, p)) \in Nat
    BY Current, RefsFinite
  <2> QED BY <2>2, <2>3, <2>4, ReferencesAre
<1>2. PmapSpec => []PmapInv
  BY PmapInvariant
<1> QED BY <1>1, <1>2, PTL

-----------------------------------------------------------------------------
(* The TLB and copy-on-write.                                                *)

\* Every entry of the TLB is one of the page tables.
TlbInv == \A t \in m.tlb : m.p3[t.env][t.va] = t.entry

\* Two places that map the same page, unless a program passed it on, may not write
\* to it, but for pages declared PTE_LIBRARY.
Apart(f, S) ==
    \A d, e \in Env, v, w \in VA :
        /\ f[d][v] # NoEntry /\ f[d][v].page = f[e][w].page /\ f[d][v].page \notin S
        /\ "W" \in f[d][v].perm /\ "LIBRARY" \notin f[d][v].perm
        => d = e /\ v = w

\* Writable pages stay private along the moves of EntryMoves.
LEMMA MovesKeepApart ==
    ASSUME NEW f \in [Env -> [VA -> Entry \cup {NoEntry}]], NEW S, NEW T, NEW g,
           Apart(f, S), EntryMoves(f, g, T), SharedKept(g, S, T)
    PROVE  Apart(g, T)
<1>0. NoEntry.page = NoPage /\ NoPage \notin Page /\ \A y \in Entry : y.page \in Page
  BY Constants DEF NoEntry, Entry
<1>1. SUFFICES ASSUME NEW d \in Env, NEW e \in Env, NEW v \in VA, NEW w \in VA,
                      g[d][v] # NoEntry, g[d][v].page = g[e][w].page, g[d][v].page \notin T,
                      "W" \in g[d][v].perm, "LIBRARY" \notin g[d][v].perm
               PROVE  d = e /\ v = w
  BY DEF Apart
<1>2. g[d][v].page \notin S
  BY <1>1 DEF SharedKept
<1>3. CASE g = f
  BY <1>1, <1>2, <1>3 DEF Apart
<1>4. CASE Cleared(f, g)
  <2>1. PICK b \in Env, a \in VA : g = Put(f, b, a, NoEntry)
    BY <1>4 DEF Cleared
  <2>2. \A c \in Env, u \in VA : g[c][u] = IF c = b /\ u = a THEN NoEntry ELSE f[c][u]
    BY <2>1, PutEntry DEF Put
  <2>3. f[d][v] \in Entry /\ g[d][v] = f[d][v]
    BY <1>1, <2>2
  <2>4. g[e][w] = f[e][w]
    BY <1>0, <1>1, <2>2, <2>3
  <2> QED BY <1>1, <1>2, <2>3, <2>4 DEF Apart
<1>5. CASE Fresh(f, g)
  <2>1. PICK b \in Env, a \in VA, y \in Entry :
           g = Put(f, b, a, y) /\ \A c \in Env, u \in VA : f[c][u].page # y.page
    BY <1>5 DEF Fresh
  <2>2. \A c \in Env, u \in VA : g[c][u] = IF c = b /\ u = a THEN y ELSE f[c][u]
    BY <2>1, PutEntry DEF Put
  <2>3. CASE d = b /\ v = a
    BY <1>1, <2>1, <2>2, <2>3
  <2>4. CASE e = b /\ w = a
    BY <1>1, <2>1, <2>2, <2>4
  <2>5. CASE ~(d = b /\ v = a) /\ ~(e = b /\ w = a)
    BY <1>1, <1>2, <2>2, <2>5 DEF Apart
  <2> QED BY <2>3, <2>4, <2>5
<1>6. CASE Passed(f, g, T)
  <2>1. PICK b \in Env, a \in VA, y \in Entry : g = Put(f, b, a, y) /\ y.page \in T
    BY <1>6 DEF Passed
  <2>2. \A c \in Env, u \in VA : g[c][u] = IF c = b /\ u = a THEN y ELSE f[c][u]
    BY <2>1, PutEntry DEF Put
  <2>3. g[d][v] = f[d][v] /\ g[e][w] = f[e][w]
    BY <1>1, <2>1, <2>2
  <2> QED BY <1>1, <1>2, <2>3 DEF Apart
<1>7. CASE Copied(f, g)
  <2>1. PICK b \in Env, c \in Env, a \in VA, y \in Entry :
           /\ b # c /\ f[b][a] \in Entry
           /\ y.page = f[b][a].page /\ y.perm = CowPerm(f[b][a].perm)
           /\ g = Put(Put(f, c, a, y), b, a, y)
    BY <1>7 DEF Copied
  <2>2. PICK f1 : f1 = Put(f, c, a, y)
    OBVIOUS
  <2>3. /\ f1 \in [Env -> [VA -> Entry \cup {NoEntry}]]
        /\ \A i \in Env, u \in VA : f1[i][u] = IF i = c /\ u = a THEN y ELSE f[i][u]
    BY <2>2, PutEntry DEF Put
  <2>4. \A i \in Env, u \in VA : g[i][u] = IF i = b /\ u = a THEN y ELSE f1[i][u]
    <3>1. g = [f1 EXCEPT ![b][a] = y]
      BY <2>1, <2>2 DEF Put
    <3> QED BY <2>3, <3>1
  <2>5. \A i \in Env, u \in VA : g[i][u] = IF i \in {b, c} /\ u = a THEN y ELSE f[i][u]
    BY <2>3, <2>4
  <2>6. ~("W" \in y.perm /\ "LIBRARY" \notin y.perm)
    <3>1. f[b][a].perm \in Perm
      BY <2>1 DEF Entry
    <3> QED BY <2>1, <3>1, CowPermIs
  <2>7. g[d][v] = f[d][v] /\ ~(d \in {b, c} /\ v = a)
    BY <1>1, <2>5, <2>6
  <2>8. CASE e \in {b, c} /\ w = a
    <3>1. f[d][v].page = f[b][a].page
      BY <1>1, <2>1, <2>5, <2>7, <2>8
    <3>2. d = b /\ v = a
      BY <1>1, <1>2, <2>7, <3>1 DEF Apart
    <3> QED BY <2>7, <3>2
  <2>9. CASE ~(e \in {b, c} /\ w = a)
    <3>1. g[e][w] = f[e][w]
      BY <2>5, <2>9
    <3> QED BY <1>1, <1>2, <2>7, <3>1 DEF Apart
  <2> QED BY <2>8, <2>9
<1> QED BY <1>3, <1>4, <1>5, <1>6, <1>7 DEF EntryMoves

\* With a full flush the invariants on TLB and sharing hold as well.
LEMMA CowInvariant ==
    ASSUME RefsFit, Sfence = "all"
    PROVE  PmapSpec => [](PmapInv /\ TlbInv /\ Apart(m.p3, shared))
<1>1. Init => PmapInv /\ TlbInv /\ Apart(m.p3, shared)
  <2> SUFFICES ASSUME Init PROVE TlbInv /\ Apart(m.p3, shared)
    BY PmapInit
  <2>1. TlbInv
    BY DEF Init, TlbInv
  <2>2. m.p3 = [e \in Env |-> [va \in VA |-> NoEntry]]
    BY DEF Init
  <2> QED BY <2>1, <2>2 DEF Apart
<1>2. PmapInv /\ TlbInv /\ Apart(m.p3, shared) /\ [PmapNext]_vars
        => PmapInv' /\ TlbInv' /\ Apart(m.p3, shared)'
  <2> SUFFICES ASSUME PmapInv, TlbInv, Apart(m.p3, shared), [PmapNext]_vars
               PROVE  PmapInv' /\ TlbInv' /\ Apart(m.p3, shared)'
    OBVIOUS
  <2>1. /\ PmapInv' /\ TlbMoves(m, m') /\ EntryMoves(m.p3, m'.p3, shared')
        /\ SharedKept(m'.p3, shared, shared')
    BY PmapSteps DEF Stepped
  <2>2. TlbInv'
    BY <2>1 DEF TlbInv, TlbMoves
  <2>3. PICK f, g, S, T : f = m.p3 /\ g = m'.p3 /\ S = shared /\ T = shared'
    OBVIOUS
  <2>4. Apart(g, T)
    BY <2>1, <2>3, Current, MovesKeepApart
  <2> QED BY <2>1, <2>2, <2>3, <2>4
<1> QED BY <1>1, <1>2, PTL DEF PmapSpec

\* Where sfence.vma removes every entry, what the TLB holds for a live address space
\* is what its page table says.  (Where it removes only what it names, the property
\* fails: tlb_invalidate passes on 16 bits of the address.)  pp_ref does not wrap.
THEOREM TlbCoherentCorrect ==
    ASSUME RefsFit, Sfence = "all"
    PROVE  PmapSpec => []TlbCoherent
<1>1. TlbInv => TlbCoherent
  BY DEF TlbInv, TlbCoherent
<1>2. PmapSpec => [](PmapInv /\ TlbInv /\ Apart(m.p3, shared))
  BY CowInvariant
<1> QED BY <1>1, <1>2, PTL

\* Copy-on-write, where sfence.vma removes every entry: a page that a program can
\* write, by its page table or through the TLB, is in nobody else's reach unless a
\* program passed it on or declared it PTE_LIBRARY, as long as pp_ref, a u_short,
\* cannot wrap (pmap.h:25).
THEOREM CowIsolationCorrect ==
    ASSUME RefsFit, Sfence = "all"
    PROVE  PmapSpec => []CowIsolation
<1>1. PmapInv /\ TlbInv /\ Apart(m.p3, shared) => CowIsolation
  <2> SUFFICES ASSUME PmapInv, TlbInv, Apart(m.p3, shared), NEW t \in Reaches, NEW u \in Reaches,
                      t.entry.page = u.entry.page, t.entry.page \notin shared,
                      "W" \in t.entry.perm, "LIBRARY" \notin t.entry.perm
               PROVE  t.env = u.env /\ t.va = u.va
    BY DEF CowIsolation
  <2>1. ASSUME NEW r \in Reaches
        PROVE  r.env \in Env /\ r.va \in VA /\ m.p3[r.env][r.va] = r.entry /\ r.entry # NoEntry
    <3>1. CASE r \in m.tlb
      <4>1. r \in [env : Env, va : VA, entry : Entry]
        BY <3>1, Current, MemoryFacts
      <4> QED BY <3>1, <4>1, Constants DEF TlbInv
    <3>2. CASE \E q \in live \X VA : /\ Mapped(m, q[1], q[2])
                                     /\ r = [env |-> q[1], va |-> q[2], entry |-> m.p3[q[1]][q[2]]]
      BY <3>2, Current DEF Mapped
    <3> QED BY <3>1, <3>2 DEF Reaches
  <2>2. m.p3[t.env][t.va] = t.entry /\ t.entry # NoEntry /\ t.env \in Env /\ t.va \in VA
    BY <2>1
  <2>3. m.p3[u.env][u.va] = u.entry /\ u.env \in Env /\ u.va \in VA
    BY <2>1
  <2> QED BY <2>2, <2>3 DEF Apart
<1>2. PmapSpec => [](PmapInv /\ TlbInv /\ Apart(m.p3, shared))
  BY CowInvariant
<1> QED BY <1>1, <1>2, PTL
=============================================================================
