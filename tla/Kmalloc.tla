------------------------------ MODULE Kmalloc ------------------------------
(***************************************************************************)
(* The kernel heap of kern/kmalloc.c: a list of blocks in address order,   *)
(* each a header of MBLOCK_SIZE bytes and its data, from which kmalloc     *)
(* takes the first free block that is large enough and into which kfree    *)
(* merges the neighbours of the block it releases.                         *)
(*                                                                         *)
(* Addresses are bytes from KMALLOC_BEGIN_VA.  A block is a record         *)
(* [addr, size, free]; the fields ptr (always addr + MBLOCK_SIZE, the      *)
(* magic number kfree tests) and mb_link (the order of the sequence) are   *)
(* not repeated in it.                                                     *)
(***************************************************************************)
EXTENDS Integers, Sequences, FiniteSets, FiniteSetsExt, SequencesExt

CONSTANTS
    MBLOCK_SIZE,          \* sizeof(struct MBlock): 40
    KMALLOC_HEAP_SIZE,    \* bytes of the heap
    Sizes,                \* the sizes callers ask for
    MaxLive               \* bound: allocations alive at a time

ASSUME KmallocAssumption ==
    /\ MBLOCK_SIZE \in Nat \ {0} /\ KMALLOC_HEAP_SIZE \in Nat
    /\ MBLOCK_SIZE % 8 = 0 /\ KMALLOC_HEAP_SIZE % 8 = 0
    /\ KMALLOC_HEAP_SIZE >= MBLOCK_SIZE
    /\ Sizes \subseteq Nat /\ MaxLive \in Nat

VARIABLES
    mblock_list,   \* the blocks, in list order
    live,          \* what the callers hold: [ptr, asked] of every allocation
    refused        \* the size of the last call if it returned NULL, else -1

heapVars == <<mblock_list, live, refused>>

ROUND8(n) == ((n + 7) \div 8) * 8

\* kmalloc_init: one free block spans the heap.
kmalloc_init ==
    /\ mblock_list = << [addr |-> 0, size |-> KMALLOC_HEAP_SIZE - MBLOCK_SIZE,
                         free |-> TRUE] >>
    /\ live = {}
    /\ refused = -1

----------------------------------------------------------------------------
(* kmalloc: the block takes a remainder too small for a header and eight   *)
(* bytes of data; a larger one becomes a free block after it.              *)

Fits(size) == {i \in DOMAIN mblock_list :
                  mblock_list[i].free /\ size <= mblock_list[i].size}

Split(b, size) ==
    << [b EXCEPT !.size = size, !.free = FALSE],
       [addr |-> b.addr + MBLOCK_SIZE + size,
        size |-> b.size - size - MBLOCK_SIZE, free |-> TRUE] >>

\* A bug: the remainder is split off whenever it is not zero.
Carve_AnyRemainder(b, size) ==
    IF b.size = size THEN << [b EXCEPT !.free = FALSE] >> ELSE Split(b, size)

Carve(b, size) ==
    IF b.size - size < MBLOCK_SIZE + 8 THEN << [b EXCEPT !.free = FALSE] >>
                                       ELSE Split(b, size)

kmalloc(n) ==
    LET size == ROUND8(n) IN
    /\ Cardinality(live) < MaxLive
    /\ IF Fits(size) = {}
         THEN refused' = n /\ UNCHANGED <<mblock_list, live>>
         ELSE LET i == Min(Fits(size)) IN
              /\ mblock_list' = SubSeq(mblock_list, 1, i - 1)
                                  \o Carve(mblock_list[i], size)
                                  \o SubSeq(mblock_list, i + 1, Len(mblock_list))
              /\ live' = live \cup {[ptr |-> mblock_list[i].addr + MBLOCK_SIZE,
                                     asked |-> n]}
              /\ refused' = -1

----------------------------------------------------------------------------
(* kfree merges the next block into the released one first, then the       *)
(* released one into the block before it.                                  *)

Release(i) ==
    LET next == i < Len(mblock_list) /\ mblock_list[i + 1].free
        prev == i > 1 /\ mblock_list[i - 1].free
        first == IF prev THEN i - 1 ELSE i
        last == IF next THEN i + 1 ELSE i
        Merged(j) == MBLOCK_SIZE + mblock_list[j].size
        size == mblock_list[i].size + (IF next THEN Merged(i + 1) ELSE 0)
                                    + (IF prev THEN Merged(i - 1) ELSE 0)
    IN  SubSeq(mblock_list, 1, first - 1)
          \o << [mblock_list[first] EXCEPT !.size = size, !.free = TRUE] >>
          \o SubSeq(mblock_list, last + 1, Len(mblock_list))

\* The callers free what they hold, once: the range test and the test of the
\* magic number pass, and kfree does not detect a second free.
kfree(a) ==
    /\ a \in live
    /\ \E i \in DOMAIN mblock_list :
          /\ mblock_list[i].addr + MBLOCK_SIZE = a.ptr
          /\ mblock_list' = Release(i)
    /\ live' = live \ {a}
    /\ refused' = -1

\* What allocation_summarize prints, adding up along the list: the bytes in use,
\* headers included, and the bytes left.
allocation_summarize ==
    LET sum[i \in 0 .. Len(mblock_list)] ==
            IF i = 0 THEN [left |-> 0, allocated |-> 0]
            ELSE IF mblock_list[i].free
                 THEN [left |-> sum[i - 1].left + mblock_list[i].size,
                       allocated |-> sum[i - 1].allocated + MBLOCK_SIZE]
                 ELSE [left |-> sum[i - 1].left,
                       allocated |-> sum[i - 1].allocated + MBLOCK_SIZE + mblock_list[i].size]
    IN  sum[Len(mblock_list)]

HeapNext == \/ \E n \in Sizes : kmalloc(n)
            \/ \E a \in live : kfree(a)

HeapSpec == kmalloc_init /\ [][HeapNext]_heapVars

----------------------------------------------------------------------------
(* Properties *)

\* The blocks tile the heap: each begins where the one before it ends, the
\* last ends with the heap, and the summary accounts for every byte.
HeapTiled ==
    /\ mblock_list[1].addr = 0
    /\ \A i \in DOMAIN mblock_list :
          /\ mblock_list[i].size >= 0
          /\ mblock_list[i].addr + MBLOCK_SIZE + mblock_list[i].size =
                IF i = Len(mblock_list) THEN KMALLOC_HEAP_SIZE
                                        ELSE mblock_list[i + 1].addr
    /\ allocation_summarize.left + allocation_summarize.allocated
         = KMALLOC_HEAP_SIZE

\* No two allocations share a byte and none covers a header, after any
\* sequence of kmalloc and kfree: the blocks tile the heap, the used ones are
\* what the callers hold, one for each, and each is as large as was asked.
AllocationsDisjoint ==
    /\ HeapTiled
    /\ Cardinality({i \in DOMAIN mblock_list : ~mblock_list[i].free})
         = Cardinality(live)
    /\ \A a \in live : \E i \in DOMAIN mblock_list :
          /\ ~mblock_list[i].free
          /\ a.ptr = mblock_list[i].addr + MBLOCK_SIZE
          /\ a.asked <= mblock_list[i].size

\* NULL means that the heap has no room: no run of bytes free of allocations
\* and of their headers could hold a header and the size asked for.  This
\* rests on kfree leaving no two free blocks side by side.
NullMeansNoRoom ==
    refused >= 0 =>
        \A from, to \in 0 .. Len(mblock_list) :
            (from < to /\ \A i \in from + 1 .. to : mblock_list[i].free) =>
                mblock_list[to].addr + mblock_list[to].size
                    - mblock_list[from + 1].addr < ROUND8(refused)

\* kmalloc and kfree after any sequence of calls: what is handed out is disjoint
\* and large enough, and what is refused did not fit.
HeapCorrect == AllocationsDisjoint /\ NullMeansNoRoom
============================================================================
