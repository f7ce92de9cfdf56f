---------------------------- MODULE KernelSpace ----------------------------
(***************************************************************************)
(* The kernel half of the address spaces: the window of device mappings    *)
(* (kern/kmmap.c), kmap and kunmap (kern/pmap.c), the demand paging of the *)
(* heap (kernel_passive_alloc, kern/tlbex.c) and the copy of the kernel's  *)
(* first-level entries into a new environment (env_setup_vm, kern/env.c).  *)
(*                                                                         *)
(* The boot page table and every environment have their own first-level    *)
(* table; an environment shares the lower tables of the slots that the     *)
(* boot table had when the environment was made, and no others.            *)
(*                                                                         *)
(* A virtual page is a number from the begin of the heap on; SPAN pages    *)
(* lie under one first-level entry.  The two lower levels of Sv39 are one  *)
(* table here.  Pages 0 .. HEAP-1 are the heap, KMMAP_BEGIN ..             *)
(* KMMAP_BEGIN+KMMAP_COUNT-1 the window; in the kernel, as here, the last  *)
(* heap page and the first window page may share a slot.                   *)
(***************************************************************************)
EXTENDS Integers, FiniteSets, FiniteSetsExt, Sequences

CONSTANTS
    Env,            \* environments
    SPAN,           \* pages under one first-level entry
    HEAP,           \* pages of the heap
    KMMAP_BEGIN,    \* first page of the window
    KMMAP_COUNT,    \* pages of the window
    COPIED,         \* slots env_setup_vm copies: P1X count / sizeof(Pte)
    PageCounts,     \* page counts of the mappings asked for
    MaxMapped,      \* bound: pages mapped in the window at a time
    Table,          \* page-table pages
    Frame           \* physical pages that can back the heap

boot == "kernel_boot_pgdir"

ASSUME KernelSpaceAssumption ==
    /\ {SPAN, KMMAP_COUNT, COPIED} \subseteq Nat \ {0}
    /\ {HEAP, KMMAP_BEGIN, MaxMapped} \subseteq Nat
    /\ HEAP <= KMMAP_BEGIN
    /\ PageCounts \subseteq 1 .. SPAN          \* a slot is a gigabyte
    /\ Table \subseteq Nat \ {0} /\ IsFiniteSet(Table) /\ Table # {}
    /\ Frame \subseteq Nat
    /\ IsFiniteSet(Env) /\ boot \notin Env

NoTable == 0
None == <<>>
HeapPage == 0 .. HEAP - 1
Window == 0 .. KMMAP_COUNT - 1          \* indices of kmmap_bmap
Slot(v) == v \div SPAN
Slots == 0 .. Slot(KMMAP_BEGIN + KMMAP_COUNT) + 1

VARIABLES
    alive,         \* environments that are not ENV_FREE
    p1,            \* first-level tables: [space -> [slot -> table or NoTable]]
    pte,           \* lower tables: [table -> [page of the slot -> entry or None]]
    used,          \* page-table pages and heap frames handed out
    kmmap_bmap,    \* for each page of the window: pages to its mapping's end, 0 if free
    mappings,      \* what the callers of kmmap_alloc hold: [at, pages, pa]
    overrun        \* kmmap_alloc looked past the end of kmmap_bmap

spaceVars == <<alive, p1, pte, used, kmmap_bmap, mappings, overrun>>

Space == Env \cup {boot}
FreeTables == {t \in Table : <<"table", t>> \notin used}
\* Bound: a page-table page is left for every table kmap may have to make.
\* (Out of memory pgdir_walk leaves no entry and map_mem panics.)
TablesLeft == Cardinality(FreeTables) >= 2 * (1 + Cardinality(alive))
FreeFrames == {f \in Frame : <<"frame", f>> \notin used}

\* What space s maps at page v.
Lookup(s, v) ==
    IF p1[s][Slot(v)] = NoTable THEN None ELSE pte[p1[s][Slot(v)]][v % SPAN]

\* kmalloc_init: the table under the heap's first slot exists before any
\* environment does.
kmalloc_init_table ==
    LET t == Min(Table) IN
    /\ p1 = [s \in Space |-> [i \in Slots |-> IF s = boot /\ i = 0 THEN t ELSE NoTable]]
    /\ used = {<<"table", t>>}

SpaceInit ==
    /\ kmalloc_init_table
    /\ alive = {}
    /\ pte = [t \in Table |-> [i \in 0 .. SPAN - 1 |-> None]]
    /\ kmmap_bmap = [i \in Window |-> 0]
    /\ mappings = {}
    /\ overrun = FALSE

----------------------------------------------------------------------------
(* Environments *)

\* The page directory is a zeroed page; of the kernel's half memcpy copies
\* 0x1FF - P1X(HIGH_ADDR_IMM) + 1 bytes: that many entries divided by eight.
env_setup_vm(e) ==
    /\ e \notin alive
    /\ alive' = alive \cup {e}
    /\ p1' = [p1 EXCEPT ![e] =
                 [i \in Slots |-> IF i < COPIED THEN p1[boot][i] ELSE NoTable]]
    /\ UNCHANGED <<pte, used, kmmap_bmap, mappings, overrun>>

\* env_free releases the user half only: a lower table of the kernel half
\* that kmap made for this environment alone stays allocated.
env_free(e) ==
    /\ e \in alive
    /\ alive' = alive \ {e}
    /\ p1' = [p1 EXCEPT ![e] = [i \in Slots |-> NoTable]]
    /\ UNCHANGED <<pte, used, kmmap_bmap, mappings, overrun>>

----------------------------------------------------------------------------
(* map_mem and unmap_mem over a set of address spaces.  What map_mem gives *)
(* is a record of the tables: [p1, pte, used].                             *)

\* pgdir_walk with create makes a table where there is none.
TablesFor(missing) ==
    CHOOSE g \in [missing -> FreeTables] : \A j, k \in missing : g[j] = g[k] => j = k

\* The entries of a function from pages to entries, stored in each of the spaces.
map_mem(spaces, entries) ==
    LET missing == {p \in spaces \X {Slot(v) : v \in DOMAIN entries} : p1[p[1]][p[2]] = NoTable}
        made == TablesFor(missing)
        dir == [s \in Space |-> [i \in Slots |->
                   IF <<s, i>> \in missing THEN made[<<s, i>>] ELSE p1[s][i]]]
    IN  [p1 |-> dir,
         pte |-> [t \in Table |-> [j \in 0 .. SPAN - 1 |->
                     LET at == {v \in DOMAIN entries :
                                   v % SPAN = j /\ \E s \in spaces : dir[s][Slot(v)] = t}
                     IN  IF at = {} THEN pte[t][j] ELSE entries[CHOOSE v \in at : TRUE]]],
         used |-> used \cup {<<"table", made[p]>> : p \in missing}]

\* pgdir_walk without create: an absent table is skipped.
unmap_mem(spaces, pages) ==
    [t \in Table |-> [j \in 0 .. SPAN - 1 |->
        IF \E s \in spaces, v \in pages : p1[s][Slot(v)] = t /\ v % SPAN = j
        THEN None ELSE pte[t][j]]]

Mmio(v, pa, n) == [u \in v .. v + n - 1 |-> <<"mmio", pa + (u - v)>>]

\* A bug: the environments that exist keep the tables they have.
kmap_BootOnly(v, pa, n) == map_mem({boot}, Mmio(v, pa, n))

\* kmap: the boot table and every environment that is not free.
kmap(v, pa, n) == map_mem(alive \cup {boot}, Mmio(v, pa, n))

kunmap(v, n) == unmap_mem(alive \cup {boot}, v .. v + n - 1)

Set(w) == p1' = w.p1 /\ pte' = w.pte /\ used' = w.used

----------------------------------------------------------------------------
(* The window *)

\* The inner loop of kmmap_alloc tests i .. i+n-1 without a bound: for a run
\* that leaves the array, what lies behind it decides (zero or not).
Available(i, n, zeroBehind) ==
    /\ \A j \in (i .. i + n - 1) \cap Window : kmmap_bmap[j] = 0
    /\ i + n <= KMMAP_COUNT \/ zeroBehind

\* Each page of the run holds the number of pages to the run's end.
Marked(i, n) == [j \in Window |-> IF j \in i .. i + n - 1 THEN i + n - j
                                                      ELSE kmmap_bmap[j]]

\* First fit.  A run that fits is taken at once; the scan reaches a run that
\* leaves the array only when no run before it fits.
kmmap_alloc(n, pa) ==
    /\ TablesLeft
    /\ FoldSet(LAMBDA m, s : s + m.pages, n, mappings) <= MaxMapped
    /\ UNCHANGED alive
    /\ \E zeroBehind \in BOOLEAN :
       LET starts == {i \in Window : kmmap_bmap[i] = 0 /\ Available(i, n, zeroBehind)}
       IN  IF starts = {}
             THEN UNCHANGED <<p1, pte, used, kmmap_bmap, mappings, overrun>>
             ELSE LET i == Min(starts) IN
                  /\ Set(kmap(KMMAP_BEGIN + i, pa, n))
                  /\ kmmap_bmap' = Marked(i, n)
                  /\ mappings' = mappings \cup {[at |-> i, pages |-> n, pa |-> pa]}
                  /\ overrun' = (overrun \/ i + n > KMMAP_COUNT)

\* kmmap_free of the first page of a mapping: the count it finds there says
\* how much to unmap.
kmmap_free(m) ==
    /\ m \in mappings
    /\ LET n == kmmap_bmap[m.at] IN
       /\ pte' = kunmap(KMMAP_BEGIN + m.at, n)
       /\ kmmap_bmap' = [j \in Window |-> IF j \in m.at .. m.at + n - 1
                                            THEN 0 ELSE kmmap_bmap[j]]
    /\ mappings' = mappings \ {m}
    /\ UNCHANGED <<alive, p1, used, overrun>>

----------------------------------------------------------------------------
(* The kernel, running on the tables of s, touches a heap page that s does *)
(* not map: do_page_fault calls kernel_passive_alloc, which inserts a new  *)
(* page in the boot table, in the place of one that is there.              *)

kernel_passive_alloc(s, v) ==
    /\ Lookup(s, v) = None
    /\ FreeFrames # {} /\ TablesLeft
    /\ LET f == Min(FreeFrames)
           w == map_mem({boot}, [u \in {v} |-> <<"frame", f>>])
       IN  p1' = w.p1 /\ pte' = w.pte /\ used' = w.used \cup {<<"frame", f>>}
    /\ UNCHANGED <<alive, kmmap_bmap, mappings, overrun>>

SpaceNext ==
    \/ \E e \in Env : env_setup_vm(e) \/ env_free(e)
    \/ \E n \in PageCounts : kmmap_alloc(n, 10 * (1 + Cardinality(mappings)))
    \/ \E m \in mappings : kmmap_free(m)
    \/ \E s \in alive \cup {boot}, v \in HeapPage : kernel_passive_alloc(s, v)

----------------------------------------------------------------------------
(* Properties *)

\* The heap is one memory: every environment maps a heap page to the frame
\* the boot table maps it to, or the kernel would see other bytes in every
\* environment and fault on the page forever in this one.
HeapShared ==
    \A e \in alive, v \in HeapPage : Lookup(e, v) = Lookup(boot, v)

\* The callers' mappings do not overlap, and every address space maps in the
\* window exactly their pages: what kmap did before an environment was made,
\* after it, and what kunmap undid.
WindowExact ==
    /\ \A m, n \in mappings :
          m # n => (m.at .. m.at + m.pages - 1)
                      \cap (n.at .. n.at + n.pages - 1) = {}
    /\ \A s \in alive \cup {boot}, i \in Window :
          LET own == {m \in mappings : i \in m.at .. m.at + m.pages - 1}
          IN  Lookup(s, KMMAP_BEGIN + i) =
                  IF own = {} THEN None
                  ELSE LET m == CHOOSE m \in own : TRUE
                       IN  <<"mmio", m.pa + (i - m.at)>>

\* Every lower table in use hangs in the table of an address space that
\* exists: env_free loses none.
NoTableLost ==
    \A t \in Table \ FreeTables :
        \E s \in alive \cup {boot}, i \in Slots : p1[s][i] = t

\* kmmap_alloc stays inside its bitmap.
NoOverrun == ~overrun

\* kmalloc_init, kmap, kunmap and env_setup_vm give every address space one and
\* the same kernel half: a kernel pointer means the same in each of them.
KernelHalfAgrees == HeapShared /\ WindowExact
============================================================================
