--------------------------------- MODULE Fs ---------------------------------
(***************************************************************************)
(* The file-system server (fs/fs.c, fs/serv.c), the library its clients    *)
(* use (user/lib/file.c, fsipc.c, fd.c) and the disk image that            *)
(* tools/fsformat.c makes.                                                 *)
(*                                                                         *)
(* Blocks are 0 (boot), 1 (superblock), 2 (bitmap), 3 (the root            *)
(* directory's block) and data from 4 on.  Sizes are in blocks.  The       *)
(* server handles one request at a time; the block writes of a request     *)
(* reach the disk one by one, and the machine may stop between any two.    *)
(* A client's file pages are the server's cache pages, mapped shared.      *)
(***************************************************************************)
EXTENDS Integers, FiniteSets, Sequences

CONSTANTS
    Client, Name, Data,     \* Data: what a program fills a block with
    s_nblocks,              \* blocks of the disk, 1024 in the code
    NDIRECT, NINDIRECT,     \* 10 and 1024 in the code
    MAXOPEN,                \* 1024 in the code
    FILE2BLK,               \* entries of the directory's block
    Files,                  \* the files of the image: a sequence of [name, size]
    MaxSize,                \* the largest size that a program asks for
    MaxCalls, MaxCrashes,   \* bounds
    Scarce,                 \* bound: what the kernel may refuse, as sets (see scarce)
    CrashInCheck,           \* whether the machine may stop in check_write_block
    NONE

ASSUME FsAssumption ==
    /\ s_nblocks \in Nat /\ s_nblocks > 4 /\ Data \subseteq 1 .. s_nblocks
    /\ NDIRECT \in Nat \ {0} /\ NINDIRECT \in Nat /\ NINDIRECT >= NDIRECT
    /\ MAXOPEN \in Nat \ {0} /\ FILE2BLK \in Nat \ {0} /\ MaxCalls \in Nat /\ MaxCrashes \in Nat
    /\ CrashInCheck \in BOOLEAN /\ IsFiniteSet(Client) /\ NONE \notin Client \cup Name
    /\ MaxSize \in 0 .. NINDIRECT
    /\ IsFiniteSet(Name) /\ Files \in Seq([name : Name, size : 0 .. MaxSize])
    /\ \A j, k \in 1 .. Len(Files) : j # k => Files[j].name # Files[k].name

Slot == 1 .. FILE2BLK      \* entries of the directory
Blk == 4 .. s_nblocks - 1
FileBno == 0 .. NINDIRECT - 1
OpenId == 0 .. MAXOPEN - 1

\* Error codes of include/error.h; PANIC is the end of the server, PANIC_NO_MEM its
\* end for want of memory; GROWN is the end of the model, see dir_block.
E_INVAL == -3
E_NO_MEM == -4
E_NO_DISK == -8
E_MAX_OPEN == -9
E_NOT_FOUND == -10
E_FILE_EXISTS == -12
PANIC == -1000
PANIC_NO_MEM == -1001
GROWN == -1002

VARIABLES
    disk,       \* superblock, the directory's length in it, bitmap (the free
                \* blocks), directory, data blocks
    mem,        \* the server's copies, its block cache, and the dirty bits
    srv,        \* the server: pc, the block writes still to do, whom it serves, the answer
    opentab,    \* [OpenId -> whether the page exists, the file]
    cl,         \* the clients, each with one descriptor
    scarce,     \* the pages the kernel refuses the server in the next request, by
                \* the block they are for; 0 is the page of an open file
    marked,     \* history: the blocks that the close in progress has marked dirty
    safe,       \* history: what a successful close has promised, by directory entry
    calls, crashes

vars == <<disk, mem, srv, opentab, cl, scarce, marked, safe, calls, crashes>>

\* A block as words; index blocks hold block numbers, data blocks what was written.
Filled(v) == [i \in FileBno |-> v]
Unmapped == [i \in {} |-> 0]

NoFile == [name |-> NONE, size |-> 0, direct |-> [i \in 0 .. NDIRECT - 1 |-> 0], indirect |-> 0]

-----------------------------------------------------------------------------
(* tools/fsformat.c: files are laid out one after the other.                 *)

\* A file's blocks: next_block for each block of data, and one more when
\* save_block_link meets the first block behind the direct ones.
Blocks(f) == f.size + (IF f.size > NDIRECT THEN 1 ELSE 0)

\* nextbno before each file and at the end: block 3 is the directory's.
Starts == {b \in [1 .. Len(Files) + 1 -> 4 .. s_nblocks] :
              b[1] = 4 /\ \A k \in 1 .. Len(Files) : b[k + 1] = b[k] + Blocks(Files[k])}
nextbno == CHOOSE b \in Starts : TRUE

\* The disk and its directory have room for the files.
ASSUME ImageFits == Starts # {} /\ Len(Files) <= FILE2BLK

\* The block of file k's n-th block; the index block follows the first it points to.
save_block_link(k, n) == nextbno[k] + n + (IF n > NDIRECT THEN 1 ELSE 0)
IndexOf(k) == nextbno[k] + NDIRECT + 1

\* create_file gives out the entries in order.
write_file(k) ==
    [name |-> Files[k].name, size |-> Files[k].size,
     direct |-> [n \in 0 .. NDIRECT - 1 |-> IF n < Files[k].size THEN save_block_link(k, n) ELSE 0],
     indirect |-> IF Files[k].size > NDIRECT THEN IndexOf(k) ELSE 0]

index_block(k) ==
    [n \in FileBno |-> IF n >= NDIRECT /\ n < Files[k].size THEN save_block_link(k, n) ELSE 0]

Image ==
    [dir |-> [s \in Slot |-> IF s <= Len(Files) THEN write_file(s) ELSE NoFile],
     data |-> [b \in Blk |->
                  LET of == {k \in 1 .. Len(Files) : Files[k].size > NDIRECT /\ IndexOf(k) = b}
                  IN  IF of = {} THEN Filled(0) ELSE index_block(CHOOSE k \in of : TRUE)]]

\* flush_bitmap: what was not handed out is free.
flush_bitmap == nextbno[Len(Files) + 1] .. s_nblocks - 1

-----------------------------------------------------------------------------
NoClient == [pc |-> "idle", fd |-> FALSE, fileid |-> 0, f_size |-> 0,
             pages |-> [n \in FileBno |-> 0], name |-> NONE, mode |-> {},
             i |-> 0, to |-> 0, val |-> 0]

Server(pc) == [pc |-> pc, writes |-> <<>>, whom |-> NONE, r |-> 0, promise |-> NONE]

NoMem == [free |-> {}, dir |-> [s \in Slot |-> NoFile], nblock |-> 1,
          cache |-> [b \in Blk |-> Unmapped], dirty |-> {}]

serve_init == [o \in OpenId |-> [page |-> FALSE, file |-> 0]]

Init ==
    /\ disk = [super |-> "good", nblock |-> 1, free |-> flush_bitmap, dir |-> Image.dir, data |-> Image.data]
    /\ mem = NoMem
    /\ srv = Server("read_super")
    /\ opentab = serve_init
    /\ cl = [c \in Client |-> NoClient]
    /\ scarce = {} /\ marked = [c \in Client |-> {}]
    /\ safe = [s \in Slot |-> NONE]
    /\ calls = 0 /\ crashes = 0

-----------------------------------------------------------------------------
(* Blocks.  An operation gives the memory after it, the block writes it did, *)
(* and its result; one that fails ends the sequence of operations it is in.  *)

Done(m, w, r) == [m |-> m, w |-> w, r |-> r]
Return(m, r) == Done(m, <<>>, r)
Then(x, Op(_, _)) ==
    IF x.r < 0 THEN x
    ELSE LET y == Op(x.m, x.r) IN [y EXCEPT !.w = x.w \o @]

block_is_free(m, b) == b \in m.free
block_is_mapped(m, b) == m.cache[b] # Unmapped
block_is_dirty(m, b) == b \in m.dirty

\* syscall_mem_alloc for the page of an unmapped block.
Refused(m, b) == ~block_is_mapped(m, b) /\ b \in scarce

\* What was read from the disk has been stored by the server, so it is dirty.
read_block(m, b) ==
    IF b \notin Blk \/ block_is_free(m, b) THEN Return(m, PANIC)
    ELSE IF block_is_mapped(m, b) THEN Return(m, b)
    ELSE IF Refused(m, b) THEN Return(m, E_NO_MEM)
    ELSE Return([m EXCEPT !.cache[b] = disk.data[b], !.dirty = @ \cup {b}], b)

\* A block that is in the cache from an earlier use keeps contents and dirty bit.
map_block(m, b) == IF block_is_mapped(m, b) THEN m ELSE [m EXCEPT !.cache[b] = Filled(0)]

free_block(m, b) == IF b \in Blk THEN [m EXCEPT !.free = @ \cup {b}] ELSE m

\* Mutant: the bit is not cleared.
alloc_block_num_KeepsBit(m) ==
    LET b == CHOOSE x \in m.free : \A y \in m.free : x <= y
    IN  IF m.free = {} THEN Return(m, E_NO_DISK)
        ELSE Done(m, <<[what |-> "bitmap", free |-> m.free]>>, b)

\* The bitmap is written as soon as a block is taken.
alloc_block_num(m) ==
    LET b == CHOOSE x \in m.free : \A y \in m.free : x <= y
    IN  IF m.free = {} THEN Return(m, E_NO_DISK)
        ELSE Done([m EXCEPT !.free = @ \ {b}], <<[what |-> "bitmap", free |-> m.free \ {b}]>>, b)

\* Without a page the block is free again, in memory: the bitmap on the disk has
\* been written.
alloc_block(m) ==
    Then(alloc_block_num(m),
         LAMBDA m1, b : IF Refused(m1, b) THEN Return(free_block(m1, b), E_NO_MEM)
                        ELSE Return(map_block(m1, b), b))

dirty_block(m, b) ==
    IF ~block_is_mapped(m, b) THEN Return(m, E_NOT_FOUND)
    ELSE Return([m EXCEPT !.dirty = @ \cup {b}], 0)

-----------------------------------------------------------------------------
(* Files.  s is the file's directory entry, n a block number in the file.    *)

\* Where the pointer is: in the entry, or in the index block, which is used at n,
\* as it is when it comes from the allocator.
file_block_walk(m, s, n, alloc) ==
    IF n < NDIRECT THEN Return(m, 0)
    ELSE IF n >= NINDIRECT THEN Return(m, E_INVAL)
    ELSE IF m.dir[s].indirect # 0 THEN read_block(m, m.dir[s].indirect)
    ELSE IF ~alloc THEN Return(m, E_NOT_FOUND)
    ELSE Then(alloc_block(m), LAMBDA m1, b : read_block([m1 EXCEPT !.dir[s].indirect = b], b))

Pointer(m, s, n) == IF n < NDIRECT THEN m.dir[s].direct[n] ELSE m.cache[m.dir[s].indirect][n]
SetPointer(m, s, n, b) ==
    IF n < NDIRECT THEN [m EXCEPT !.dir[s].direct[n] = b]
    ELSE [m EXCEPT !.cache[m.dir[s].indirect][n] = b, !.dirty = @ \cup {m.dir[s].indirect}]

file_map_block(m, s, n, alloc) ==
    Then(file_block_walk(m, s, n, alloc),
         LAMBDA m1, x :
            IF Pointer(m1, s, n) # 0 THEN Return(m1, Pointer(m1, s, n))
            ELSE IF ~alloc THEN Return(m1, E_NOT_FOUND)
            ELSE Then(alloc_block(m1), LAMBDA m2, b : Return(SetPointer(m2, s, n, b), b)))

\* file_clear_block for each n of a set ns: the pointers of a file's entry ...
\* Mutant: the pointer stays.
file_clear_block_KeepsPointer(m, s, ns) ==
    [m EXCEPT !.free = @ \cup ({m.dir[s].direct[n] : n \in ns} \cap Blk)]

file_clear_block(m, s, ns) ==
    [m EXCEPT !.free = @ \cup ({m.dir[s].direct[n] : n \in ns} \cap Blk),
              !.dir[s].direct = [n \in DOMAIN @ |-> IF n \in ns THEN 0 ELSE @[n]]]

\* ... and those in its index block, which is looked for again at every n: a block
\* that is its own index is free at the next.
clear_indirect(m, s, ns) ==
    Then(file_block_walk(m, s, NDIRECT, FALSE),
         LAMBDA m1, ix :
            LET old == m1.cache[ix]
                given == {old[n] : n \in ns}
            IN  IF \E n \in ns : old[n] = ix /\ \E k \in ns : n < k THEN Return(m1, PANIC)
                ELSE Return([m1 EXCEPT !.free = @ \cup (given \cap Blk),
                                       !.cache[ix] = [n \in FileBno |-> IF n \in ns THEN 0 ELSE old[n]],
                                       !.dirty = IF given \subseteq {0} THEN @ ELSE @ \cup {ix}], 0))

file_get_block(m, s, n) == Then(file_map_block(m, s, n, TRUE), LAMBDA m1, b : read_block(m1, b))

file_dirty(m, s, n) == Then(file_map_block(m, s, n, FALSE), LAMBDA m1, b : dirty_block(m1, b))

\* The numbers of S as a loop that counts up meets them.
InOrder(S) ==
    CHOOSE q \in [1 .. Cardinality(S) -> S] :
        (\A x \in S : \E i \in DOMAIN q : q[i] = x) /\ \A i, j \in DOMAIN q : i < j => q[i] < q[j]
DataWrites(bs) == [i \in DOMAIN bs |-> [what |-> "data", b |-> bs[i]]]

\* The dirty blocks of the file; one without a disk block is passed over, and so is
\* one whose index block cannot be read.  The index block is looked at for every
\* block behind the direct ones.
file_flush(m, s) ==
    LET size == m.dir[s].size
        x == IF size > NDIRECT THEN file_block_walk(m, s, NDIRECT, FALSE) ELSE Return(m, 0)
        last == IF x.r < 0 THEN NDIRECT ELSE size
        written == {n \in 0 .. size - 1 : n < last /\ block_is_dirty(x.m, Pointer(x.m, s, n))}
        ns == InOrder(written)
    IN  IF x.r = PANIC THEN Return(m, PANIC)
        ELSE Done(x.m, DataWrites([i \in DOMAIN ns |-> Pointer(x.m, s, ns[i])]), 0)

\* The directory's block is dirty since it was read.  Its entries fill sectors of
\* their own, and sectors are written one by one.
flush_dir(m) == Done(m, [s \in Slot |-> [what |-> "dir", s |-> s, file |-> m.dir[s]]], 0)

\* An error of file_clear_block is a panic.
file_truncate(m, s, size) ==
    LET gone == size .. m.dir[s].size - 1
        m0 == file_clear_block(m, s, {n \in gone : n < NDIRECT})
        far == {n \in gone : n >= NDIRECT}
        x0 == IF far = {} THEN Return(m0, 0) ELSE clear_indirect(m0, s, far)
        cleared == IF x0.r = E_NO_MEM THEN Return(x0.m, PANIC_NO_MEM)
                   ELSE IF x0.r < 0 THEN Return(x0.m, PANIC) ELSE x0
    IN  Then(cleared,
             LAMBDA m1, x :
                LET m2 == IF size <= NDIRECT /\ m1.dir[s].indirect # 0
                          THEN [free_block(m1, m1.dir[s].indirect) EXCEPT !.dir[s].indirect = 0]
                          ELSE m1
                IN  Return([m2 EXCEPT !.dir[s].size = size], 0))

\* Mutant: the directory is not written.
file_set_size_NoFlush(m, s, size) ==
    Then(IF m.dir[s].size > size THEN file_truncate(m, s, size) ELSE Return(m, 0),
         LAMBDA m1, x : Return([m1 EXCEPT !.dir[s].size = size], 0))

file_set_size(m, s, size) ==
    Then(IF m.dir[s].size > size THEN file_truncate(m, s, size) ELSE Return(m, 0),
         LAMBDA m1, x : flush_dir([m1 EXCEPT !.dir[s].size = size]))

\* Mutant: the file's blocks are not written.
file_close_NoFlush(m, s) == flush_dir(m)

\* The file's blocks, then the directory.
file_close(m, s) == Then(file_flush(m, s), LAMBDA m1, x : flush_dir(m1))

\* file_get_block of the directory's second block, which does not exist: from where
\* it is allocated on, the model has nothing to say (its entries are whatever the
\* block was last used for).
dir_block(m) == Then(alloc_block(m), LAMBDA m1, b : Return(m1, GROWN))

\* walk_path and dir_lookup, in a root directory without subdirectories.  A lookup
\* that has to go through a second block gives the directory one.
Named(m, name) == {s \in Slot : m.dir[s].name = name}
walk_path(m, name) ==
    IF Named(m, name) # {}
      THEN Return(m, CHOOSE s \in Named(m, name) : \A t \in Named(m, name) : s <= t)
    ELSE IF m.nblock > 1 THEN dir_block(m)
    ELSE Return(m, E_NOT_FOUND)

\* The first unused entry; without one the directory is made longer, and stays so
\* when there is no block for it.
dir_alloc_file(m) ==
    IF Named(m, NONE) # {}
      THEN Return(m, CHOOSE s \in Named(m, NONE) : \A t \in Named(m, NONE) : s <= t)
      ELSE dir_block([m EXCEPT !.nblock = @ + 1])

\* Only the name of the new entry is set.  When dir_alloc_file fails the answer is
\* still walk_path's.
file_create(m, name) ==
    LET w == walk_path(m, name)
        f == dir_alloc_file(w.m)
    IN  IF w.r >= 0 THEN Return(m, E_FILE_EXISTS)
        ELSE IF w.r # E_NOT_FOUND THEN w
        ELSE IF f.r = GROWN THEN f
        ELSE IF f.r < 0 THEN [f EXCEPT !.r = E_NOT_FOUND]
        ELSE Return([m EXCEPT !.dir[f.r].name = name], f.r)

file_remove(m, name) ==
    Then(walk_path(m, name),
         LAMBDA m1, s : Then(file_truncate(m1, s, 0),
                             LAMBDA m2, x : flush_dir([m2 EXCEPT !.dir[s].name = NONE])))

\* Every dirty block in order of its number: superblock, bitmap, directory, data.
fs_sync(m) ==
    Done(m, <<[what |-> "super", nblock |-> m.nblock], [what |-> "bitmap", free |-> m.free]>>
            \o flush_dir(m).w
            \o DataWrites(InOrder(m.dirty)), 0)

-----------------------------------------------------------------------------
(* The server: start-up and requests.                                        *)

\* read_super and the superblock's check: the block on disk is overwritten ...
read_super ==
    /\ srv.pc = "read_super"
    /\ IF disk.super = "good"
       THEN disk' = [disk EXCEPT !.super = "OOPS!"] /\ srv' = Server("check_write_block")
       ELSE srv' = Server("panic") /\ UNCHANGED disk
    /\ UNCHANGED <<mem, opentab, cl, scarce, marked, safe, calls, crashes>>

\* ... and written again from the copy in the cache page of block 0.
check_write_block ==
    /\ srv.pc = "check_write_block"
    /\ disk' = [disk EXCEPT !.super = "good"]
    /\ srv' = Server("read_bitmap")
    /\ UNCHANGED <<mem, opentab, cl, scarce, marked, safe, calls, crashes>>

\* The bitmap is read, and with it here the directory, which the first request
\* reads; the bitmap block itself must be in use.
read_bitmap ==
    /\ srv.pc = "read_bitmap"
    /\ mem' = [NoMem EXCEPT !.free = disk.free, !.dir = disk.dir, !.nblock = disk.nblock]
    /\ srv' = Server(IF disk.free \cap 0 .. 2 = {} THEN "serve" ELSE "panic")
    /\ UNCHANGED <<disk, opentab, cl, scarce, marked, safe, calls, crashes>>

pageref(o) ==
    IF ~opentab[o].page THEN 0
    ELSE 1 + Cardinality({c \in Client : cl[c].fd /\ cl[c].fileid = o})

\* Mutant: an entry that one client holds is taken.
open_alloc_Shared == {o \in OpenId : pageref(o) <= 2}

open_alloc == {o \in OpenId : pageref(o) <= 1}

\* Each request gives the answer as above and the table of open files.
Answer(x, tab) == [x |-> x, tab |-> tab]

\* file_create, if asked for, and file_open.
Found(c) ==
    LET created == IF "O_CREAT" \in cl[c].mode THEN file_create(mem, cl[c].name) ELSE Return(mem, 0)
        opened == walk_path(created.m, cl[c].name)
    IN  IF created.r < 0 /\ created.r # E_FILE_EXISTS THEN created ELSE opened

Opened(c) ==
    Then(Found(c), LAMBDA m, s :
                        IF "O_TRUNC" \in cl[c].mode THEN file_set_size(m, s, 0) ELSE Return(m, 0))

\* The answer's result is the entry taken; the client gets its page with it.
serve_open(c) ==
    LET o == CHOOSE p \in open_alloc : \A q \in open_alloc : p <= q
        file == IF Found(c).r >= 0 THEN Found(c).r ELSE opentab[o].file
    IN  IF open_alloc = {} THEN Answer(Return(mem, E_MAX_OPEN), opentab)
        ELSE IF ~opentab[o].page /\ 0 \in scarce THEN Answer(Return(mem, E_NO_MEM), opentab)
        ELSE Answer(Then(Opened(c), LAMBDA m, x : Return(m, o)),
                    [opentab EXCEPT ![o] = [page |-> TRUE, file |-> file]])

\* The answer x to a request on an open file, when open_lookup finds the file.
open_lookup(c, x) == Answer(IF pageref(cl[c].fileid) <= 1 THEN Return(mem, E_INVAL) ELSE x, opentab)
File_(c) == opentab[cl[c].fileid].file

serve_map(c) == open_lookup(c, file_get_block(mem, File_(c), cl[c].i))
serve_set_size(c) == open_lookup(c, file_set_size(mem, File_(c), cl[c].to))
serve_dirty(c) == open_lookup(c, file_dirty(mem, File_(c), cl[c].i))
serve_close(c) == open_lookup(c, file_close(mem, File_(c)))
serve_remove(c) == Answer(file_remove(mem, cl[c].name), opentab)
serve_sync == Answer(fs_sync(mem), opentab)

serve_table(c) ==
    CASE cl[c].pc = "open" -> serve_open(c)
      [] cl[c].pc = "map" -> serve_map(c)
      [] cl[c].pc \in {"set_size", "rollback"} -> serve_set_size(c)
      [] cl[c].pc = "dirty" -> serve_dirty(c)
      [] cl[c].pc = "close" -> serve_close(c)
      [] cl[c].pc = "remove" -> serve_remove(c)
      [] cl[c].pc = "sync" -> serve_sync

\* History: what a close promises of file s to client c, that is the entry and the
\* contents of those blocks of the file that the client had mapped by this descriptor
\* and that the close's own DIRTY requests have met.
Promise(c, m, s) ==
    LET held == {n \in FileBno : /\ n < m.dir[s].size /\ n < cl[c].f_size
                                 /\ n < NDIRECT \/ m.dir[s].indirect # 0
                                 /\ cl[c].pages[n] \in marked[c] /\ cl[c].pages[n] = Pointer(m, s, n)}
    IN  [s |-> s, name |-> m.dir[s].name, size |-> m.dir[s].size,
         blocks |-> [n \in held |-> [b |-> cl[c].pages[n], words |-> m.cache[cl[c].pages[n]]]]]

\* The blocks marked by the close that c is in, when the answer to its request is x.
MarkedBy(c, x) ==
    IF cl[c].pc = "dirty" /\ x.r >= 0 THEN marked[c] \cup {Pointer(x.m, File_(c), cl[c].i)} ELSE {}

\* The kernel runs short of memory while the server works on the next request.
no_memory ==
    /\ srv.pc = "serve" /\ srv.whom = NONE /\ scarce = {}
    /\ \E c \in Client : cl[c].pc # "idle"
    /\ scarce' \in Scarce
    /\ UNCHANGED <<disk, mem, srv, opentab, cl, marked, safe, calls, crashes>>

\* How a request leaves the server: at work on its writes, or ended.
Served(c, x) ==
    IF x.r = PANIC THEN Server("panic")
    ELSE IF x.r = PANIC_NO_MEM THEN Server("out_of_memory")
    ELSE IF x.r = GROWN THEN Server("grown")
    ELSE [srv EXCEPT !.writes = x.w, !.whom = c, !.r = x.r,
                     !.promise = IF cl[c].pc = "close" /\ x.r >= 0
                                 THEN Promise(c, x.m, opentab[cl[c].fileid].file)
                                 ELSE NONE]

serve(c) ==
    LET a == serve_table(c)
    IN  /\ srv.pc = "serve" /\ srv.whom = NONE /\ cl[c].pc # "idle"
        /\ opentab' = a.tab
        /\ mem' = a.x.m
        /\ srv' = Served(c, a.x)
        /\ scarce' = {} /\ marked' = [marked EXCEPT ![c] = MarkedBy(c, a.x)]
        /\ safe' = [s \in Slot |-> IF /\ a.x.m.dir[s].name = mem.dir[s].name
                                      /\ a.x.m.dir[s].size = mem.dir[s].size
                                   THEN safe[s] ELSE NONE]
        /\ UNCHANGED <<disk, cl, calls, crashes>>

\* The next block write of the request; a data page is read as it is now.
write_block ==
    LET w == Head(srv.writes)
    IN  /\ srv.pc = "serve" /\ srv.writes # <<>>
        /\ srv' = [srv EXCEPT !.writes = Tail(@)]
        /\ disk' = CASE w.what = "super" -> [disk EXCEPT !.nblock = w.nblock]
                     [] w.what = "bitmap" -> [disk EXCEPT !.free = w.free]
                     [] w.what = "dir" -> [disk EXCEPT !.dir[w.s] = w.file]
                     [] w.what = "data" -> [disk EXCEPT !.data[w.b] = mem.cache[w.b]]
        /\ UNCHANGED <<mem, opentab, cl, scarce, marked, safe, calls, crashes>>

-----------------------------------------------------------------------------
(* The clients.  A call is a sequence of requests; "i" and "to" bound loops. *)

Idle(k) == [k EXCEPT !.pc = "idle", !.name = NONE, !.mode = {}, !.i = 0, !.to = 0, !.val = 0]

\* MAP requests for blocks i .. to - 1, then the end of the call.
MapFrom(k, i, to) == IF i < to THEN [k EXCEPT !.pc = "map", !.i = i, !.to = to] ELSE Idle(k)

\* open: the descriptor page has arrived; on an error later it stays.
OpenGoesOn(k, r) ==
    LET f == mem.dir[opentab[r].file]
    IN  IF r < 0 THEN Idle(k)
        ELSE MapFrom([k EXCEPT !.fd = TRUE, !.fileid = r, !.f_size = f.size], 0, f.size)

\* A failed MAP in ftruncate sets the old size again; in open it ends the call.
MapGoesOn(k, r) ==
    IF r >= 0 THEN MapFrom([k EXCEPT !.pages[k.i] = r], k.i + 1, k.to)
    ELSE IF k.mode = {"ftruncate"} THEN [k EXCEPT !.pc = "rollback", !.to = k.val]
    ELSE Idle(k)

\* ftruncate: growing maps, shrinking unmaps.  The old size is kept in val.
SetSizeGoesOn(k, r) ==
    IF r < 0 THEN Idle(k)
    ELSE MapFrom([k EXCEPT !.pages = [n \in FileBno |-> IF n \in k.to .. k.val - 1 THEN 0 ELSE @[n]]],
                 k.val, k.to)

\* The requests: what the client waits for.
fsipc_set_size(k, size) == [k EXCEPT !.pc = "set_size", !.to = size]
fsipc_remove(k, name) == [k EXCEPT !.pc = "remove", !.name = name]
fsipc_close(k) == [k EXCEPT !.pc = "close"]
fsipc_dirty(k, i) == [k EXCEPT !.pc = "dirty", !.i = i]

DirtyFrom(k, i) == IF i < k.f_size THEN fsipc_dirty(k, i) ELSE fsipc_close(k)

\* close unmaps the descriptor whatever file_close said; file_close gives up at the
\* first error and keeps the pages.
fd_close(k) == [Idle(k) EXCEPT !.fd = FALSE, !.fileid = 0, !.f_size = 0]
DirtyGoesOn(k, r) == IF r < 0 THEN fd_close(k) ELSE DirtyFrom(k, k.i + 1)
CloseGoesOn(k, r) ==
    IF r < 0 THEN fd_close(k)
    ELSE fd_close([k EXCEPT !.pages = [n \in FileBno |-> IF n < k.f_size THEN 0 ELSE @[n]]])

GoesOn(k, r) ==
    CASE k.pc = "open" -> OpenGoesOn(k, r)
      [] k.pc = "map" -> MapGoesOn(k, r)
      [] k.pc = "set_size" -> SetSizeGoesOn(k, r)
      [] k.pc = "dirty" -> DirtyGoesOn(k, r)
      [] k.pc = "close" -> CloseGoesOn(k, r)
      [] k.pc \in {"rollback", "remove", "sync"} -> Idle(k)

\* fsipc: the answer arrives.
fsipc(c) ==
    /\ srv.pc = "serve" /\ srv.whom = c /\ srv.writes = <<>>
    /\ srv' = Server("serve")
    /\ cl' = [cl EXCEPT ![c] = GoesOn(cl[c], srv.r)]
    /\ safe' = IF srv.promise # NONE THEN [safe EXCEPT ![srv.promise.s] = srv.promise] ELSE safe
    /\ UNCHANGED <<disk, mem, opentab, scarce, marked, calls, crashes>>

Call(c, k) ==
    /\ srv.pc = "serve" /\ cl[c].pc = "idle" /\ calls < MaxCalls
    /\ calls' = calls + 1
    /\ cl' = [cl EXCEPT ![c] = k]
    /\ UNCHANGED <<disk, mem, srv, opentab, scarce, marked, safe, crashes>>

open(c, name, mode) == ~cl[c].fd /\ Call(c, [cl[c] EXCEPT !.pc = "open", !.name = name, !.mode = mode])
remove(c, name) == Call(c, fsipc_remove(cl[c], name))
sync(c) == Call(c, [cl[c] EXCEPT !.pc = "sync"])
close(c) == cl[c].fd /\ Call(c, DirtyFrom(cl[c], 0))

\* The size in the descriptor is changed first, and stays if a MAP fails.
ftruncate(c, size) ==
    /\ cl[c].fd
    /\ Call(c, [fsipc_set_size(cl[c], size) EXCEPT !.mode = {"ftruncate"},
                                                   !.val = cl[c].f_size, !.f_size = size])

\* A store into the file's pages (file_write after it has made the file long
\* enough); a page that is not mapped is a new page that nobody else sees.
file_write(c, n, v) ==
    LET b == cl[c].pages[n]
        keeps(p) == IF p = NONE THEN TRUE ELSE \A i \in DOMAIN p.blocks : p.blocks[i].b # b
    IN  /\ srv.pc = "serve" /\ cl[c].pc = "idle" /\ cl[c].fd /\ n < cl[c].f_size /\ b # 0
        /\ mem.cache[b] # Filled(v)
        /\ mem' = [mem EXCEPT !.cache[b] = Filled(v)]
        /\ safe' = [s \in Slot |-> IF keeps(safe[s]) THEN safe[s] ELSE NONE]
        /\ srv' = [srv EXCEPT !.promise = IF keeps(@) THEN @ ELSE NONE]
        /\ UNCHANGED <<disk, opentab, cl, scarce, marked, calls, crashes>>

\* A client ends without closing its file.
exit(c) ==
    /\ cl[c].pc = "idle" /\ cl[c] # NoClient
    /\ cl' = [cl EXCEPT ![c] = NoClient]
    /\ UNCHANGED <<disk, mem, srv, opentab, scarce, marked, safe, calls, crashes>>

\* The machine stops and starts again: only the disk is left.
Crash ==
    /\ crashes < MaxCrashes /\ (CrashInCheck \/ disk.super = "good")
    /\ crashes' = crashes + 1
    /\ mem' = NoMem /\ srv' = Server("read_super") /\ opentab' = serve_init
    /\ cl' = [c \in Client |-> NoClient]
    /\ scarce' = {} /\ marked' = [c \in Client |-> {}]
    /\ UNCHANGED <<disk, safe, calls>>

-----------------------------------------------------------------------------
Mode == SUBSET {"O_CREAT", "O_TRUNC"}

ClientCalls(c) ==
    \/ \E name \in Name, mode \in Mode : open(c, name, mode)
    \/ \E name \in Name : remove(c, name)
    \/ \E size \in 0 .. MaxSize : ftruncate(c, size)
    \/ \E n \in FileBno, v \in Data : file_write(c, n, v)
    \/ close(c) \/ sync(c) \/ exit(c)

Next ==
    \/ read_super \/ check_write_block \/ read_bitmap \/ write_block \/ no_memory \/ Crash
    \/ \E c \in Client : serve(c) \/ fsipc(c) \/ ClientCalls(c)

FsSpec == Init /\ [][Next]_vars

-----------------------------------------------------------------------------
(* Properties.                                                               *)

FsTypeOK ==
    /\ disk.super \in {"good", "OOPS!"} /\ disk.free \subseteq Blk
    /\ DOMAIN disk.dir = Slot /\ DOMAIN disk.data = Blk
    /\ mem.free \subseteq Blk /\ mem.dirty \subseteq {b \in Blk : block_is_mapped(mem, b)}
    /\ \A s \in Slot : mem.dir[s].name \in Name \cup {NONE} /\ mem.dir[s].size \in 0 .. NINDIRECT
    /\ srv.pc \in {"read_super", "check_write_block", "read_bitmap", "serve", "panic",
                   "out_of_memory", "grown"}
    /\ srv.whom \in Client \cup {NONE}
    /\ \A o \in OpenId : opentab[o].file \in Slot \cup {0}
    /\ \A c \in Client : cl[c].fileid \in OpenId /\ cl[c].f_size \in 0 .. NINDIRECT
    /\ calls \in 0 .. MaxCalls /\ crashes \in 0 .. MaxCrashes

\* The server survives every sequence of requests, every stop of the machine and every
\* page that the kernel refuses it: it never reads a free block (fs.c:224), truncation
\* finds every block (1389, 1397), and the superblock is good whenever it starts (565).
\* The one exception is pc "out_of_memory": truncating a file that has an index block,
\* when that is not in the cache and there is no page for it.
NoServerPanic ==
    /\ srv.pc # "panic"
    /\ srv.pc = "out_of_memory" => \E s \in Slot : mem.dir[s].indirect # 0

\* fs_init and the serve_ functions keep the server's state and never stop it.
ServerSound == FsTypeOK /\ NoServerPanic

\* The blocks that the entries of a directory d point to, with index blocks from ix.
Pointers(d, ix) ==
    [p \in {<<s, n>> : s \in Slot, n \in -1 .. NINDIRECT - 1} |->
        LET f == d[p[1]]
        IN  IF p[2] = -1 THEN f.indirect
            ELSE IF p[2] < NDIRECT THEN f.direct[p[2]]
            ELSE IF f.indirect \in Blk /\ ix[f.indirect] # Unmapped THEN ix[f.indirect][p[2]] ELSE 0]

OwnedOnce(d, ix, free) ==
    LET ptr == Pointers(d, ix)
    IN  \A p \in DOMAIN ptr : ptr[p] # 0 =>
            /\ ptr[p] \in Blk \ free
            /\ \A q \in DOMAIN ptr : q # p => ptr[q] # ptr[p]

\* In the server's memory a block belongs to one file, at one place, and is marked
\* used in the bitmap (fs.c:415, 463, 781, 851, 901).
BlocksOwnedOnce == OwnedOnce(mem.dir, mem.cache, mem.free)

\* On the disk, after every single block write and so wherever the machine stops, no
\* block that a file uses is marked free and none belongs to two files: the bitmap is
\* written when a block is taken (fs.c:470) and the directory before a block that was
\* given up can be taken again (1444, 1637).
DiskPointersUsed == OwnedOnce(disk.dir, disk.data, disk.free)

DiskPointer(s, n) ==
    LET f == disk.dir[s]
    IN  IF n < NDIRECT THEN f.direct[n] ELSE IF f.indirect \in Blk THEN disk.data[f.indirect][n] ELSE 0

\* When close has returned 0 the file is on the disk, with the contents of the pages
\* the client had mapped and the close has marked dirty, and stays there through stops
\* of the machine and whatever is done to other files, until the file itself is changed
\* (fs.c:1557, serv.c:388).  (A page that is the file's at the end but was not when
\* file_close's DIRTY request for it was served, because another client changed the
\* file's size in between, is not covered: it need not be written.)
ClosedIsDurable ==
    \A s \in Slot : safe[s] # NONE =>
        /\ disk.dir[s].name = safe[s].name /\ disk.dir[s].size = safe[s].size
        /\ \A n \in DOMAIN safe[s].blocks :
            /\ DiskPointer(s, n) = safe[s].blocks[n].b
            /\ disk.data[safe[s].blocks[n].b] = safe[s].blocks[n].words

\* Two clients never hold the same entry of the table of open files, however they
\* open, fail to open, close and exit: an entry is taken only while its page is the
\* server's alone (serv.c:116, 178).
OpenSlotPrivate ==
    \A c, d \in Client : (cl[c].fd /\ cl[d].fd /\ c # d) => cl[c].fileid # cl[d].fileid
=============================================================================
