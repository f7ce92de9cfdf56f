------------------------------- MODULE Loader -------------------------------
(***************************************************************************)
(* How a program image gets into an environment: load_icode (kern/env.c)   *)
(* walks the loadable segments, elf_load_seg (lib/elfloader.c) splits a    *)
(* segment at page boundaries, load_icode_mapper gives every part a fresh  *)
(* page and maps it.                                                       *)
(*                                                                         *)
(* A page is PAGE bytes; a byte is <<segment, offset>> of the file, or     *)
(* ZeroByte.  Addresses are small numbers.                                 *)
(***************************************************************************)
EXTENDS Integers, Sequences, FiniteSetsExt

CONSTANTS
    PAGE,        \* bytes of a page
    TABLE,       \* entries of a page table, 512 in the code
    Images,      \* images: sequences of segments [va, filesz, memsz, loadable]
    FreePages    \* how many pages page_alloc has left

ASSUME LoaderAssumption ==
    PAGE \in Nat \ {0} /\ TABLE \in Nat \ {0} /\ FreePages \subseteq Nat

VARIABLES
    header,      \* the binary begins with the whole ELF header of an executable
    image,       \* the image being loaded
    next,        \* index of the next program header
    as,          \* the address space: [page number -> contents], partial
    left,        \* pages left to page_alloc
    ended        \* "loading", "loaded" or "panic"

loadVars == <<header, image, next, as, left, ended>>

ZeroByte == <<0, 0>>

LoadInit(images, pages) ==
    /\ header \in BOOLEAN
    /\ image \in images /\ next = 1
    /\ as = <<>> /\ left \in pages
    /\ ended = "loading"

\* A bug, of an earlier version of the function: for a small file part the
\* loops begin inside the page that is already mapped.
Begin_Small(seg) == Min({seg.filesz, PAGE - (seg.va % PAGE)})

\* Where the loops begin: the start of the segment or of its second page.
Begin(seg) == PAGE - (seg.va % PAGE)

\* A loop from a by pages while it is below b: how many rounds, and where each begins.
Parts(a, b) == IF a < b THEN (b - a + PAGE - 1) \div PAGE ELSE 0
PageSteps(a, b) == [k \in 1 .. Parts(a, b) |-> a + (k - 1) * PAGE]

\* Where the loop over the file begins, and where the one over the rest does.
FileFrom(seg) == IF seg.va % PAGE = 0 THEN 0 ELSE Begin(seg)
BssFrom(seg) == FileFrom(seg) + Parts(FileFrom(seg), seg.filesz) * PAGE

\* The calls of map_page: [va, offset, from, len], from = -1 for no source.
HeadCall(seg) ==
    IF seg.va % PAGE = 0 THEN <<>>
    ELSE << [va |-> seg.va, offset |-> seg.va % PAGE, from |-> 0,
             len |-> Min({seg.filesz, PAGE - (seg.va % PAGE)})] >>
FileCall(seg, i) == [va |-> seg.va + i, offset |-> 0, from |-> i,
                     len |-> Min({seg.filesz - i, PAGE})]
BssCall(seg, i) == [va |-> seg.va + i, offset |-> 0, from |-> -1, len |-> 0]

elf_load_seg(seg) ==
    LET file == PageSteps(FileFrom(seg), seg.filesz)
        bss == PageSteps(BssFrom(seg), seg.memsz)
    IN  HeadCall(seg) \o [k \in DOMAIN file |-> FileCall(seg, file[k])]
                      \o [k \in DOMAIN bss |-> BssCall(seg, bss[k])]

\* load_icode_mapper: the page of a call of segment n, zeroed before it is filled.
load_icode_mapper(n, c) ==
    [b \in 0 .. PAGE - 1 |->
        IF c.from >= 0 /\ b \in c.offset .. c.offset + c.len - 1
          THEN <<n, c.from + b - c.offset>> ELSE ZeroByte]

\* The calls in order: page_insert takes away what was mapped there before.
page_insert_all(space, n, calls) ==
    [v \in DOMAIN space \cup {calls[k].va \div PAGE : k \in DOMAIN calls} |->
        LET at == {k \in DOMAIN calls : calls[k].va \div PAGE = v}
        IN  IF at = {} THEN space[v] ELSE load_icode_mapper(n, calls[Max(at)])]

\* The pages the calls take: one each, and one for every table of either level
\* pgdir_walk has to make.  (A page mapped before would be given back.)
Taken(space, calls) ==
    LET new(span) == {calls[k].va \div (PAGE * span) : k \in DOMAIN calls}
                     \ {v \div span : v \in DOMAIN space}
    IN  Len(calls) + Cardinality(new(TABLE)) + Cardinality(new(TABLE * TABLE))

\* elf_from: the size, the magic number and the type.
elf_from == header

\* load_icode: one program header; other types are skipped.  A binary that is
\* no executable is a panic, and so is a page that cannot be had.
load_icode ==
    /\ ended = "loading"
    /\ UNCHANGED <<header, image>>
    /\ IF ~elf_from
         THEN ended' = "panic" /\ UNCHANGED <<next, as, left>>
       ELSE IF next > Len(image)
         THEN ended' = "loaded" /\ UNCHANGED <<next, as, left>>
       ELSE IF ~image[next].loadable
         THEN next' = next + 1 /\ UNCHANGED <<as, left, ended>>
       ELSE LET calls == elf_load_seg(image[next]) IN
            IF Taken(as, calls) > left
              THEN ended' = "panic" /\ UNCHANGED <<next, as, left>>
              ELSE /\ as' = page_insert_all(as, next, calls)
                   /\ left' = left - Taken(as, calls)
                   /\ next' = next + 1 /\ UNCHANGED ended

----------------------------------------------------------------------------
(* Properties *)

ByteAt(a) == IF a \div PAGE \in DOMAIN as THEN {as[a \div PAGE][a % PAGE]} ELSE {}

\* A loaded program sees every byte of its file where the segment says, and
\* zeros in the rest of the segment's memory, whatever its alignment.
LoadedExact ==
    ended = "loaded" =>
        \A n \in DOMAIN image : image[n].loadable =>
            \A i \in 0 .. image[n].memsz - 1 :
                ByteAt(image[n].va + i) = {IF i < image[n].filesz THEN <<n, i>> ELSE ZeroByte}
============================================================================
