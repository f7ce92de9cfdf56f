-------------------------------- MODULE Pmap --------------------------------
(***************************************************************************)
(* Physical pages, page tables and the TLB: kern/pmap.c, the system calls  *)
(* on memory, page faults (kern/traps.c, kern/tlbex.c) and the copy-on-    *)
(* write fork (kern/fork.c).                                               *)
(*                                                                         *)
(* The memory is one record m, and a function of the code that changes it  *)
(* is an operator from records to records, so that a handler is written as *)
(* the calls it makes.  dup_userspace and env_free loop over the pages of  *)
(* an address space: a round of the loop is a step of its own, and while a *)
(* loop is under way nothing else happens, as in the kernel.               *)
(*                                                                         *)
(* An address space stands for its ASID: live environments have distinct   *)
(* ones (AsidsExact in module Env).                                        *)
(***************************************************************************)
EXTENDS Integers, FiniteSets

CONSTANTS
    Env,        \* address spaces
    NPage,      \* pages 1 .. NPage are managed by the free list
    VA,         \* virtual page numbers in use, from UTEMP to UTOP
    PTES,       \* entries of a page table, 512 in the code
    USTACKTOP,  \* fork copies the page numbers below; nothing is at this one
    NASID,      \* how many address spaces may have an ASID
    RefMod,     \* pp_ref is counted modulo this: a u_short, 2^16
    Perms,      \* the permissions programs ask for
    Sfence,     \* "exact": sfence.vma removes what it names; "all": everything
    NULL

ASSUME PmapAssumption ==
    /\ NPage \in Nat /\ VA \subseteq Nat /\ IsFiniteSet(VA) /\ IsFiniteSet(Env) /\ NULL \notin Env
    /\ PTES \in Nat \ {0} /\ USTACKTOP \in Nat \ VA /\ NASID \in Nat /\ RefMod \in Nat \ {0}
    /\ Perms \subseteq SUBSET {"W", "LIBRARY"} /\ Sfence \in {"exact", "all"}

Page == 1 .. NPage
NoPage == 0

\* The page of a third-level entry and its permissions besides reading.
Perm == SUBSET {"W", "LIBRARY", "COW"}
Entry == [page : Page, perm : Perm]
NoEntry == [page |-> NoPage, perm |-> {}]

P2X(va) == va \div PTES
P1X(va) == va \div (PTES * PTES)
P2 == {P2X(va) : va \in VA}
P1 == {P1X(va) : va \in VA}

VARIABLES
    m,          \* the memory, see Memory
    live,       \* the environments that have an address space
    parent,     \* the parent of an environment, for envid2env's check
    task,       \* the loop under way, see Task
    shared,     \* history: pages that a program passed on by sys_mem_map or IPC
    panicked

vars == <<m, live, parent, task, shared, panicked>>

\* pp_ref and the free list; for each address space its page directory, the
\* second-level tables in it, the third-level tables in those, and their
\* entries; and what the TLB holds.
Memory == [pp_ref : [Page -> Nat], page_free_list : SUBSET Page,
           pgdir : [Env -> Page \cup {NoPage}],
           p1 : [Env -> [P1 -> Page \cup {NoPage}]],
           p2 : [Env -> [P2 -> Page \cup {NoPage}]],
           p3 : [Env -> [VA -> Entry \cup {NoEntry}]],
           tlb : SUBSET [env : Env, va : VA, entry : Entry]]

\* Before the first environment runs the kernel creates some; later dup_userspace
\* copies the pages at todo, or env_free takes an address space down.
NoTask == [op |-> "none", from |-> NULL, to |-> NULL, todo |-> {}]
Boot == [NoTask EXCEPT !.op = "boot"]
Task == [op : {"boot", "none", "dup", "free"}, from : Env \cup {NULL}, to : Env \cup {NULL},
         todo : SUBSET VA]

Init ==
    /\ m = [pp_ref |-> [p \in Page |-> 0], page_free_list |-> Page,
            pgdir |-> [e \in Env |-> NoPage],
            p1 |-> [e \in Env |-> [x \in P1 |-> NoPage]],
            p2 |-> [e \in Env |-> [x \in P2 |-> NoPage]],
            p3 |-> [e \in Env |-> [va \in VA |-> NoEntry]],
            tlb |-> {}]
    /\ live = {}
    /\ parent = [e \in Env |-> NULL]
    /\ task = Boot
    /\ shared = {}
    /\ panicked = FALSE

-----------------------------------------------------------------------------
(* pmap.c                                                                   *)

\* page_alloc takes a free page and leaves its pp_ref at 0.  Which one it is makes
\* no difference but for the page's name, so it is the one with the lowest number,
\* and the order of the free list is left out.
CanAlloc(k, n) == Cardinality(k.page_free_list) >= n
LowestOf(S) == CHOOSE n \in S : \A i \in S : n <= i
First(k) == LowestOf(k.page_free_list)
page_alloc(k) == [k EXCEPT !.page_free_list = @ \ {First(k)}]

page_free(k, p) == [k EXCEPT !.page_free_list = @ \cup {p}]

\* The assertion that pp_ref is not 0 is part of PmapTypeOK.
page_decref(k, p) ==
    LET dropped == [k EXCEPT !.pp_ref[p] = @ - 1]
    IN  IF dropped.pp_ref[p] = 0 THEN page_free(dropped, p) ELSE dropped

\* tlb_invalidate is declared with a 16-bit va (include/mmu.h:309): of a page
\* number only the low 4 bits are passed on.
LowBits == 16

\* Mutant: nothing is invalidated.
tlb_invalidate_Lost(k, e, va) == k

tlb_invalidate(k, e, va) ==
    [k EXCEPT !.tlb = IF Sfence = "all" THEN {}
                      ELSE {t \in @ : ~(t.env = e /\ t.va = va % LowBits)}]

tlb_flush_asid(k, e) ==
    [k EXCEPT !.tlb = IF Sfence = "all" THEN {} ELSE {t \in @ : t.env # e}]

\* pgdir_walk: whether there is an entry for va, and the memory with the tables
\* it made.  Without a second-level table it makes two tables if it may; without
\* a third-level one it makes that in any case.
Walk(ok, k) == [ok |-> ok, m |-> k]
Counted(k, p) == [k EXCEPT !.pp_ref[p] = (@ + 1) % RefMod]
NewP2(k, e, va) == LET p == First(k) IN [Counted(page_alloc(k), p) EXCEPT !.p1[e][P1X(va)] = p]
NewP3(k, e, va) == LET p == First(k) IN [Counted(page_alloc(k), p) EXCEPT !.p2[e][P2X(va)] = p]

pgdir_walk(k, e, va, create) ==
    CASE k.p1[e][P1X(va)] = NoPage ->
            IF create /\ CanAlloc(k, 2) THEN Walk(TRUE, NewP3(NewP2(k, e, va), e, va))
                                        ELSE Walk(FALSE, k)
      [] k.p1[e][P1X(va)] # NoPage /\ k.p2[e][P2X(va)] = NoPage ->
            IF CanAlloc(k, 1) THEN Walk(TRUE, NewP3(k, e, va)) ELSE Walk(FALSE, k)
      [] OTHER -> Walk(TRUE, k)

\* page_lookup's walk can make a table, too.
page_lookup(k, e, va) == pgdir_walk(k, e, va, FALSE).m
Mapped(k, e, va) == k.p3[e][va] # NoEntry

\* Mutant: the entry stays.
page_remove_NoClear(k, e, va) ==
    IF Mapped(k, e, va) THEN tlb_invalidate(page_decref(k, k.p3[e][va].page), e, va) ELSE k

page_remove(k, e, va) ==
    LET looked == page_lookup(k, e, va)
        dropped == page_decref(looked, looked.p3[e][va].page)
    IN  IF Mapped(looked, e, va)
        THEN tlb_invalidate([dropped EXCEPT !.p3[e][va] = NoEntry], e, va)
        ELSE looked

\* Mutant: mapping the same page again counts it again.
page_insert_CountsTwice(k, e, asid, p, va, perm) ==
    LET removed == IF k.p3[e][va].page \in {NoPage, p} THEN k ELSE page_remove(k, e, va)
        walk == pgdir_walk(tlb_invalidate(removed, asid, va), e, va, TRUE)
    IN  IF walk.ok
        THEN Walk(TRUE, [Counted(walk.m, p) EXCEPT !.p3[e][va] = [page |-> p, perm |-> perm]])
        ELSE walk

\* page_insert: whether it succeeded, and the memory.  asid is whose TLB entries
\* are invalidated.
page_insert(k, e, asid, p, va, perm) ==
    LET entry == [page |-> p, perm |-> perm]
        looked == page_lookup(k, e, va)
        removed == page_remove(looked, e, va)
        walk == pgdir_walk(tlb_invalidate(removed, asid, va), e, va, TRUE)
    IN  CASE looked.p3[e][va].page = p ->
                Walk(TRUE, [tlb_invalidate(looked, asid, va) EXCEPT !.p3[e][va] = entry])
          [] looked.p3[e][va].page # p /\ walk.ok ->
                Walk(TRUE, [Counted(walk.m, p) EXCEPT !.p3[e][va] = entry])
          [] OTHER -> walk

-----------------------------------------------------------------------------
(* System calls on memory.                                                  *)

Quiet == task = NoTask /\ ~panicked
Permitted(e, d) == e \in live /\ d \in live /\ (d = e \/ parent[d] = e)

\* A page is no longer shared once it is free.
Becomes(k, passed) == m' = k /\ shared' = (shared \cup passed) \ k.page_free_list
Panic == panicked' = TRUE /\ UNCHANGED <<m, live, parent, task, shared>>

\* e maps a new page for d.  If the page cannot be inserted it is lost.
sys_mem_alloc(e, d, va, perm) ==
    /\ Quiet /\ Permitted(e, d) /\ CanAlloc(m, 1)
    /\ Becomes(page_insert(page_alloc(m), d, d, First(m), va, perm).m, {})
    /\ UNCHANGED <<live, parent, task, panicked>>

\* d's page at srcva becomes f's page at dstva.
Share(d, srcva, f, dstva, perm) ==
    LET looked == page_lookup(m, d, srcva)
        p == looked.p3[d][srcva].page
    IN  IF Mapped(looked, d, srcva)
        THEN Becomes(page_insert(looked, f, f, p, dstva, perm).m, {p})
        ELSE Becomes(looked, {})

sys_mem_map(e, d, srcva, f, dstva, perm) ==
    /\ Quiet /\ Permitted(e, d) /\ Permitted(e, f)
    /\ Share(d, srcva, f, dstva, perm)
    /\ UNCHANGED <<live, parent, task, panicked>>

\* The page sent with a message: the receiver is anyone.
sys_ipc_try_send(e, srcva, f, dstva, perm) ==
    /\ Quiet /\ {e, f} \subseteq live /\ e # f
    /\ Share(e, srcva, f, dstva, perm)
    /\ UNCHANGED <<live, parent, task, panicked>>

sys_mem_unmap(e, d, va) ==
    /\ Quiet /\ Permitted(e, d)
    /\ Becomes(page_remove(m, d, va), {})
    /\ UNCHANGED <<live, parent, task, panicked>>

-----------------------------------------------------------------------------
(* A program reads or writes memory.                                        *)

Allows(entry, write) == write => "W" \in entry.perm
Cached(e, va) == {t \in m.tlb : t.env = e /\ t.va = va}

\* The access succeeds through the TLB, which nothing records, or through the
\* page table, and then the TLB keeps the entry.
access(e, va, write) ==
    /\ Quiet /\ e \in live
    /\ Cached(e, va) = {}
    /\ Mapped(m, e, va) /\ Allows(m.p3[e][va], write)
    /\ m' = [m EXCEPT !.tlb = @ \cup {[env |-> e, va |-> va, entry |-> m.p3[e][va]]}]
    /\ UNCHANGED <<live, parent, task, shared, panicked>>

Faults(e, va, write) ==
    IF Cached(e, va) # {} THEN \E t \in Cached(e, va) : ~Allows(t.entry, write)
                          ELSE ~Mapped(m, e, va) \/ ~Allows(m.p3[e][va], write)

\* passive_alloc is given the envid for the ASID: no entry of e is invalidated.
passive_alloc(k, e, va) ==
    LET inserted == page_insert(page_alloc(k), e, NULL, First(k), va, {"W"})
    IN  IF CanAlloc(k, 1) /\ inserted.ok THEN Becomes(inserted.m, {}) /\ UNCHANGED panicked
                                         ELSE panicked' = TRUE /\ UNCHANGED <<m, shared>>

do_cow(k, e, va) ==
    LET perm == (k.p3[e][va].perm \ {"COW"}) \cup {"W"}
    IN  IF CanAlloc(k, 1)
        THEN /\ Becomes(page_insert(page_alloc(k), e, e, First(k), va, perm).m, {})
             /\ UNCHANGED panicked
        ELSE panicked' = TRUE /\ UNCHANGED <<m, shared>>

\* A write to a page without permission is an error of the program, which stops
\* the kernel: programs do it only if the TLB deceives them.
do_page_fault(e, va, write) ==
    /\ Quiet /\ e \in live /\ Faults(e, va, write)
    /\ LET looked == page_lookup(m, e, va)
       IN  \/ /\ ~Mapped(looked, e, va)
              /\ passive_alloc(looked, e, va)
           \/ /\ Mapped(looked, e, va) /\ "COW" \in looked.p3[e][va].perm
              /\ do_cow(looked, e, va)
           \/ /\ Mapped(looked, e, va) /\ "COW" \notin looked.p3[e][va].perm
              /\ "W" \in looked.p3[e][va].perm
              /\ panicked' = TRUE /\ UNCHANGED <<m, shared>>
    /\ UNCHANGED <<live, parent, task>>

-----------------------------------------------------------------------------
(* Address spaces come and go.                                              *)

\* env_setup_vm; then env_alloc draws an ASID.
env_setup_vm(k, e) == LET p == First(k) IN [Counted(page_alloc(k), p) EXCEPT !.pgdir[e] = p]
AsidLeft == Cardinality(live) < NASID

\* env_create, called only while booting, loads a program of one page; the kernel
\* stops when there is no memory for it.
env_create(e, va, perm) ==
    /\ task = Boot /\ ~panicked
    /\ e \notin live /\ AsidLeft /\ CanAlloc(m, 1)
    /\ LET made == env_setup_vm(m, e)
           loaded == page_insert(page_alloc(made), e, e, First(made), va, perm)
       IN  \/ /\ CanAlloc(m, 2) /\ loaded.ok
              /\ Becomes(loaded.m, {})
              /\ live' = live \cup {e}
              /\ UNCHANGED <<parent, task, panicked>>
           \/ /\ ~(CanAlloc(m, 2) /\ loaded.ok)
              /\ Panic

start_schedule ==
    /\ task = Boot /\ live # {} /\ ~panicked
    /\ task' = NoTask
    /\ UNCHANGED <<m, live, parent, shared, panicked>>

\* env_alloc for env_create or sys_exofork when there is no ASID: the new page
\* directory is not given back.
env_alloc_no_asid(e) ==
    /\ task = Boot \/ (Quiet /\ live # {})
    /\ e \notin live /\ ~AsidLeft /\ CanAlloc(m, 1)
    /\ Becomes(env_setup_vm(m, e), {})
    /\ UNCHANGED <<live, parent, task, panicked>>

Below(e) == {va \in VA : va < USTACKTOP /\ Mapped(m, e, va)}
Loop(op, from, to, todo) == IF todo = {} THEN NoTask
                            ELSE [op |-> op, from |-> from, to |-> to, todo |-> todo]

sys_exofork(e, child) ==
    /\ Quiet /\ e \in live /\ child \notin live /\ AsidLeft /\ CanAlloc(m, 1)
    /\ Becomes(env_setup_vm(m, child), {})
    /\ live' = live \cup {child}
    /\ parent' = [parent EXCEPT ![child] = e]
    /\ task' = Loop("dup", e, child, Below(e))
    /\ UNCHANGED panicked

\* Mutant: the page stays writable.
CowPerm_KeepsW(perm) ==
    IF "LIBRARY" \in perm THEN perm ELSE IF "W" \in perm THEN perm \cup {"COW"} ELSE perm

\* What duppage makes of the permissions, in the child and in the parent.
CowPerm(perm) ==
    IF "W" \in perm /\ "LIBRARY" \notin perm THEN (perm \ {"W"}) \cup {"COW"} ELSE perm

\* A round of dup_userspace.  The parent's entry is changed in place, after the
\* child's was inserted.
duppage ==
    /\ task.op = "dup" /\ ~panicked
    /\ LET va == LowestOf(task.todo)
           old == m.p3[task.from][va]
           perm == CowPerm(old.perm)
           copied == page_insert(m, task.to, task.to, old.page, va, perm)
       IN  \/ /\ copied.ok
              /\ Becomes([copied.m EXCEPT !.p3[task.from][va].perm = perm], {})
              /\ task' = Loop("dup", task.from, task.to, task.todo \ {va})
              /\ UNCHANGED <<live, parent, panicked>>
           \/ /\ ~copied.ok
              /\ Panic

\* env_free goes through the tables in order: it removes the pages of a third-level
\* table, then drops that table; after its third-level tables a second-level table;
\* at last the page directory and the TLB entries of the address space.
env_free_begin(e, d) ==
    /\ Quiet /\ Permitted(e, d)
    /\ task' = [NoTask EXCEPT !.op = "free", !.from = d]
    /\ UNCHANGED <<m, live, parent, shared, panicked>>

env_free_round ==
    /\ task.op = "free"
    /\ LET e == task.from
           tables2 == {x \in P1 : m.p1[e][x] # NoPage}
           x2 == LowestOf(tables2)
           tables3 == {x \in P2 : x \div PTES = x2 /\ m.p2[e][x] # NoPage}
           x3 == LowestOf(tables3)
           pages == {va \in VA : P2X(va) = x3 /\ Mapped(m, e, va)}
       IN  \/ /\ tables2 # {} /\ tables3 # {} /\ pages # {}
              /\ Becomes(page_remove(m, e, LowestOf(pages)), {})
              /\ UNCHANGED <<live, parent, task>>
           \/ /\ tables2 # {} /\ tables3 # {} /\ pages = {}
              /\ Becomes([page_decref(m, m.p2[e][x3]) EXCEPT !.p2[e][x3] = NoPage], {})
              /\ UNCHANGED <<live, parent, task>>
           \/ /\ tables2 # {} /\ tables3 = {}
              /\ Becomes([page_decref(m, m.p1[e][x2]) EXCEPT !.p1[e][x2] = NoPage], {})
              /\ UNCHANGED <<live, parent, task>>
           \/ /\ tables2 = {}
              /\ Becomes(tlb_flush_asid(page_decref(m, m.pgdir[e]), e), {})
              /\ live' = live \ {e}
              /\ parent' = [d \in Env |-> IF e \in {d, parent[d]} THEN NULL ELSE parent[d]]
              /\ task' = NoTask
    /\ UNCHANGED panicked

-----------------------------------------------------------------------------
PmapNext ==
    \/ \E e \in Env, va \in VA, perm \in Perms : env_create(e, va, perm)
    \/ start_schedule
    \/ \E e \in Env : env_alloc_no_asid(e)
    \/ \E e, d \in Env, va \in VA : sys_mem_unmap(e, d, va)
    \/ \E e, d \in Env, va \in VA, perm \in Perms : sys_mem_alloc(e, d, va, perm)
    \/ \E e, d, f \in Env, va, w \in VA, perm \in Perms : sys_mem_map(e, d, va, f, w, perm)
    \/ \E e, f \in Env, va, w \in VA, perm \in Perms : sys_ipc_try_send(e, va, f, w, perm)
    \/ \E e \in Env, va \in VA, write \in BOOLEAN : access(e, va, write)
    \/ \E e \in Env, va \in VA, write \in BOOLEAN : do_page_fault(e, va, write)
    \/ \E e, child \in Env : sys_exofork(e, child)
    \/ duppage
    \/ \E e, d \in Env : env_free_begin(e, d)
    \/ env_free_round

PmapSpec == Init /\ [][PmapNext]_vars

-----------------------------------------------------------------------------
(* Properties.                                                              *)

\* Where the address spaces in L refer to pages.
Slots(L) ==
    ({"pgdir"} \X L \X {0}) \cup ({"p1"} \X L \X P1) \cup ({"p2"} \X L \X P2)
    \cup ({"p3"} \X L \X VA)

\* No count can wrap: the address spaces have fewer places in use than pp_ref can
\* count, one being kept for a directory that is lost.  Nothing in the code sees to
\* it: 1024 environments can map one page more than 65535 times.
RefsFit == Cardinality(Slots(Env)) + 2 < RefMod

\* The references that the live address spaces make to p: where each is.
References(p) ==
    ({"pgdir"} \X {e \in live : m.pgdir[e] = p} \X {0})
    \cup {s \in {"p1"} \X live \X P1 : m.p1[s[2]][s[3]] = p}
    \cup {s \in {"p2"} \X live \X P2 : m.p2[s[2]][s[3]] = p}
    \cup {s \in {"p3"} \X live \X VA : m.p3[s[2]][s[3]].page = p}

IsTable(p) == \E e \in live : \/ m.pgdir[e] = p
                              \/ \E x \in P1 : m.p1[e][x] = p
                              \/ \E x \in P2 : m.p2[e][x] = p

\* What a program can reach, by its page tables or by what the TLB still holds.
Reaches == {[env |-> q[1], va |-> q[2], entry |-> m.p3[q[1]][q[2]]] :
                q \in {r \in live \X VA : Mapped(m, r[1], r[2])}}
           \cup {t \in m.tlb : t.env \in live}

\* The variables have their types.  That pp_ref stays a natural number is
\* page_decref's assertion (pmap.c:645).
PmapTypeOK ==
    /\ m \in Memory /\ live \subseteq Env /\ parent \in [Env -> Env \cup {NULL}]
    /\ task \in Task /\ shared \subseteq Page /\ panicked \in BOOLEAN

\* page_insert, page_remove, pgdir_walk, duppage and env_free keep pp_ref: it is
\* the number of entries of live address spaces that refer to the page, as long as
\* the counts fit in 16 bits (RefsFit).
RefCountsExact == \A p \in Page : m.pp_ref[p] = Cardinality(References(p))

\* page_decref frees no page that a live address space still refers to, as a table
\* or as a mapping, and page_alloc gives away none.
FreePagesUnused == \A p \in m.page_free_list : m.pp_ref[p] = 0 /\ References(p) = {}

\* A page that holds a page table (pgdir_walk, env_setup_vm) is used for that alone:
\* it holds no other table, and no program has it mapped.
TablesPrivate == \A p \in Page : IsTable(p) => Cardinality(References(p)) = 1

\* Whatever fails for want of memory or ASIDs, no page in use is given away and no
\* table is shared ...
PagesSafe == FreePagesUnused /\ TablesPrivate

\* ... and while nothing fails the counts are exact as well.
PagesExact == PmapTypeOK /\ RefCountsExact /\ PagesSafe

\* What the TLB holds for a live address space is what its page table says: whoever
\* changes an entry also invalidates it (page_insert: "in all cases the TLB entries
\* concerned are removed", pmap.c:519; tlb_invalidate, mmu.h:305).
TlbCoherent ==
    \A t \in m.tlb : t.env \in live => m.p3[t.env][t.va] = t.entry

\* Copy-on-write (duppage, do_cow): a page that no program passed on, and that a
\* program can write, not declared PTE_LIBRARY, is in no other program's reach and
\* at no other address.
CowIsolation ==
    \A t, u \in Reaches :
        /\ t.entry.page = u.entry.page /\ t.entry.page \notin shared
        /\ "W" \in t.entry.perm /\ "LIBRARY" \notin t.entry.perm
        => t.env = u.env /\ t.va = u.va

\* Outside dup_userspace, a page that is copy-on-write at an address cannot be
\* written there through the TLB: duppage maps it copy-on-write "both in the parent
\* and the child" (fork.c:15).
CowNotWritable ==
    task.op # "dup" =>
        \A t \in m.tlb : LET entry == m.p3[t.env][t.va] IN
            t.env \in live /\ entry.page = t.entry.page /\ "COW" \in entry.perm
            => "W" \notin t.entry.perm

\* Every page is free or in use by a live address space: env_alloc changes the
\* physical pages only when it succeeds (env.c:373).
PagesAccounted == \A p \in Page : p \in m.page_free_list \/ References(p) # {}

\* page_remove does nothing when va is not mapped (pmap.c:659), so sys_mem_unmap
\* never takes a page off the free list.
UnmapTakesNoPage ==
    [][(\E e, d \in Env, va \in VA : sys_mem_unmap(e, d, va))
        => m.page_free_list \subseteq m'.page_free_list]_vars
=============================================================================
