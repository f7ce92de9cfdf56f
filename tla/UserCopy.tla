------------------------------ MODULE UserCopy -----------------------------
(***************************************************************************)
(* How the kernel reaches the memory of its environments: copy_user_space  *)
(* and copy_user_space_to_env (kern/userspace.c), the system calls and the *)
(* interrupt delivery that use them, and sys_get_process_list, which fills *)
(* a heap buffer first.                                                    *)
(*                                                                         *)
(* The copy tests the first page of the user's buffer in the environment's *)
(* table; memcpy then goes through whatever table satp selects, and a page *)
(* it finds unmapped or not writable is an exception in kernel code.  A    *)
(* buffer is its first page and whether it runs into the next one; a page  *)
(* holds one value.  Pages are Page, the last of them (XSTACK) the         *)
(* exception stack, which fork does not share.  A mapping is writable      *)
(* ("rw"), read-only ("ro"), copy-on-write ("cow") or writable and shared  *)
(* on purpose ("library", PTE_LIBRARY: descriptors, pipes, the console).   *)
(***************************************************************************)
EXTENDS Integers, FiniteSets, FiniteSetsExt

CONSTANTS
    Envs,        \* environments
    NPAGE,       \* user pages of an environment
    Frames,      \* physical pages
    NENV,        \* what sys_get_process_list takes for the most environments
    MaxLens,     \* the lengths callers give sys_get_process_list
    DmaPages     \* bound: the pages whose physical address drivers ask for

ASSUME UserCopyAssumption ==
    /\ NPAGE \in Nat \ {0} /\ NENV \in Nat
    /\ Frames \subseteq Nat /\ MaxLens \subseteq Nat

VARIABLES
    there,       \* environments that exist
    curenv,      \* the running one
    cur_pgdir,   \* the environment whose table env_run selected
    satp,        \* the environment whose table the processor uses
    pt,          \* [env -> [page -> {} or {[frame, perm]}]]
    mem,         \* [frame -> the environment that wrote it last, or "zero"]
    got,         \* what the last copy from a user delivered: <<page, value>>, or NoCopy
    asked,       \* the last answer of sys_get_physical_address: {} or {[env, page, frame]}
    listed,      \* the last sys_get_process_list: entries written and room
    panicked     \* the kernel has panicked

copyVars == <<there, curenv, cur_pgdir, satp, pt, mem, got, asked, listed, panicked>>

NoCopy == <<>>
Page == 0 .. NPAGE - 1
XSTACK == NPAGE - 1
Buffer == {<<v>> : v \in Page} \cup {<<v, v + 1>> : v \in 0 .. NPAGE - 3}
Perm == {"rw", "ro", "cow", "library"}
CanWrite(x) == x.perm \in {"rw", "library"}
InUse(t) == UNION {{x.frame : x \in t[e][v]} : e \in Envs, v \in Page}
FreeFrame(t) == Min(Frames \ InUse(t))
Entry(e, v) == CHOOSE x \in pt[e][v] : TRUE
NoList == [written |-> 0, room |-> 0]

CopyInit ==
    /\ there \in {{e} : e \in Envs}
    /\ curenv = (CHOOSE e \in there : TRUE)
    /\ cur_pgdir = curenv /\ satp = curenv
    /\ pt = [e \in Envs |-> [v \in Page |-> {}]]
    /\ mem = [f \in Frames |-> "zero"]
    /\ got = NoCopy /\ asked = {} /\ listed = NoList
    /\ panicked = FALSE

\* What environment e sees on page v.
View(e, v) == IF pt[e][v] = {} THEN "zero" ELSE mem[Entry(e, v).frame]

\* A fresh page for e: zeroed by page_alloc, or a copy (do_cow).
WithFrame(t, e, v, perm) == [t EXCEPT ![e][v] = {[frame |-> FreeFrame(t), perm |-> perm]}]
FrameLeft == Frames \ InUse(pt) # {}      \* bound: memory does not run out

----------------------------------------------------------------------------
(* Environments *)

\* The running environment stores into page v.  do_page_fault: passive_alloc
\* gives a missing page, do_cow copies a copy-on-write one, and a read-only
\* page is an access violation, for which the kernel panics.
user_store(v) ==
    /\ ~panicked /\ FrameLeft /\ v # XSTACK
    /\ LET has(p) == pt[curenv][v] # {} /\ Entry(curenv, v).perm = p
           t == IF pt[curenv][v] = {} \/ has("cow") THEN WithFrame(pt, curenv, v, "rw") ELSE pt
       IN  IF has("ro") THEN panicked' = TRUE /\ UNCHANGED <<pt, mem>>
           ELSE /\ pt' = t
                /\ mem' = [mem EXCEPT ![(CHOOSE x \in t[curenv][v] : TRUE).frame] = curenv]
                /\ UNCHANGED panicked
    /\ got' = NoCopy
    /\ listed' = NoList
    /\ UNCHANGED <<there, curenv, cur_pgdir, satp, asked>>

\* sys_mem_alloc of the caller for itself: a zeroed page takes the place of
\* what was mapped at v.
sys_mem_alloc(v, perm) ==
    /\ ~panicked /\ FrameLeft /\ v # XSTACK
    /\ pt' = WithFrame(pt, curenv, v, perm)
    /\ mem' = [mem EXCEPT ![FreeFrame(pt)] = "zero"]
    /\ got' = NoCopy
    /\ listed' = NoList
    /\ UNCHANGED <<there, curenv, cur_pgdir, satp, asked, panicked>>


\* duppage: a writable page becomes copy-on-write, unless it is to stay
\* shared; any other page is shared with the permissions it has.
duppage(x) == IF x.perm = "rw" THEN [x EXCEPT !.perm = "cow"] ELSE x

\* fork, that is sys_exofork and dup_userspace: parent and child map the same
\* pages below the exception stack.
fork(c) ==
    /\ ~panicked /\ c \notin there
    /\ there' = there \cup {c}
    /\ LET shared == [v \in Page |-> IF v = XSTACK THEN {}
                        ELSE {duppage(x) : x \in pt[curenv][v]}]
       IN  pt' = [pt EXCEPT ![c] = shared,
                            ![curenv] = [shared EXCEPT ![XSTACK] = pt[curenv][XSTACK]]]
    /\ got' = NoCopy
    /\ listed' = NoList
    /\ UNCHANGED <<curenv, cur_pgdir, satp, mem, asked, panicked>>

\* env_run: cur_pgdir follows curenv, and satp follows it.
env_run(e) ==
    /\ ~panicked /\ e \in there
    /\ curenv' = e /\ cur_pgdir' = e /\ satp' = e
    /\ got' = NoCopy
    /\ listed' = NoList
    /\ UNCHANGED <<there, pt, mem, asked, panicked>>

----------------------------------------------------------------------------
(* The copies *)

\* do_kernel_exception, and the panics of the copies themselves.
do_kernel_exception == panicked' = TRUE /\ UNCHANGED <<pt, mem, got>>

\* copy_user_space from the running environment: it must map the first page;
\* memcpy reads the others through satp.
copy_from_user(buf) ==
    IF pt[curenv][buf[1]] = {} \/ \E i \in DOMAIN buf : pt[satp][buf[i]] = {}
      THEN do_kernel_exception
      ELSE got' = <<buf[1], View(satp, buf[1])>> /\ UNCHANGED <<pt, mem, panicked>>

\* memcpy to a user's buffer through the table h.
Store(t, h, buf) ==
    IF \E v \in {buf[i] : i \in DOMAIN buf} :
            t[h][v] = {} \/ (\E x \in t[h][v] : ~CanWrite(x))
      THEN do_kernel_exception
      ELSE /\ pt' = t
           /\ mem' = [f \in Frames |->
                IF \E i \in DOMAIN buf : \E x \in t[h][buf[i]] : x.frame = f
                  THEN h ELSE mem[f]]
           /\ got' = NoCopy
           /\ UNCHANGED panicked

\* A bug: supervisor stores ignore the write permission of a user page.
copy_to_user_NoFault(e, h, buf) ==
    LET t == IF pt[e][buf[1]] = {} THEN WithFrame(pt, e, buf[1], "rw") ELSE pt
        w == [t EXCEPT ![h] = [v \in Page |-> {[x EXCEPT !.perm = "rw"] : x \in t[h][v]}]]
    IN  Store(w, h, buf)

\* The first page is allocated when environment e lacks it; the store goes
\* through h.
copy_to_user(e, h, buf) ==
    Store(IF pt[e][buf[1]] = {} THEN WithFrame(pt, e, buf[1], "rw") ELSE pt, h, buf)

UnchangedRun == UNCHANGED <<there, curenv, cur_pgdir, satp>>

\* The system calls that read a buffer of the caller: sys_print_cons copies a
\* string, sys_set_trapframe a register frame, which lands in the kernel's
\* stack or in the environment's structure; neither touches user memory.
sys_print_cons(buf) ==
    ~panicked /\ copy_from_user(buf) /\ UnchangedRun /\ listed' = NoList /\ UNCHANGED asked

sys_set_trapframe(v) ==
    ~panicked /\ copy_from_user(<<v>>) /\ UnchangedRun /\ listed' = NoList /\ UNCHANGED asked

\* Those that fill one: sys_read_dev, sys_get_device.
kernel_writes(buf) ==
    /\ ~panicked /\ FrameLeft
    /\ copy_to_user(curenv, satp, buf)
    /\ UnchangedRun /\ listed' = NoList /\ UNCHANGED asked

\* A bug: the table of the target stays selected.
table_after_Target(e) == e

\* copy_user_space_to_env selects the table of cur_pgdir again when done.
table_after(e) == cur_pgdir

\* handle_env_interrupt pushes the frame of an environment that is not running.
copy_user_space_to_env(e) ==
    /\ ~panicked /\ FrameLeft /\ e \in there \ {curenv}
    /\ copy_to_user(e, e, <<XSTACK>>)
    /\ satp' = table_after(e)
    /\ listed' = NoList
    /\ UNCHANGED <<there, curenv, cur_pgdir, asked>>

----------------------------------------------------------------------------
(* sys_get_process_list: a heap buffer for min(max_len, NENV) entries is   *)
(* filled with every environment there is, and copied out.                 *)

sys_get_process_list(max_len, buf) ==
    /\ ~panicked /\ FrameLeft
    /\ listed' = [written |-> Cardinality(there), room |-> Min({max_len, NENV})]
    /\ copy_to_user(curenv, satp, buf)
    /\ UnchangedRun /\ UNCHANGED asked

\* user/lib/process.c: get_process_list passes its caller's length on;
\* find_process_by_name and get_envid list into a static array of NENV.
get_process_list(max_len, buf) == sys_get_process_list(max_len, buf)
find_process_by_name(buf) == sys_get_process_list(NENV, buf)
get_envid(buf) == sys_get_process_list(NENV, buf)

\* va2pa walks the table of the caller: {} when there is no entry.
va2pa(e, v) == {x.frame : x \in pt[e][v]}

\* A driver asks where its buffer is, to give the address to a device.
sys_get_physical_address(v) ==
    /\ ~panicked
    /\ asked' = {[env |-> curenv, page |-> v, frame |-> f] : f \in va2pa(curenv, v)}
    /\ got' = NoCopy
    /\ UnchangedRun /\ listed' = NoList /\ UNCHANGED <<pt, mem, panicked>>

CopyNext ==
    \/ \E v \in Page : user_store(v) \/ sys_set_trapframe(v)
    \/ \E v \in Page \cap DmaPages : sys_get_physical_address(v)
    \/ \E v \in Page, perm \in Perm \ {"cow"} : sys_mem_alloc(v, perm)
    \/ \E e \in Envs : fork(e) \/ env_run(e) \/ copy_user_space_to_env(e)
    \/ \E b \in Buffer : sys_print_cons(b) \/ kernel_writes(b) \/ find_process_by_name(b) \/ get_envid(b)
    \/ \E n \in MaxLens, b \in Buffer : get_process_list(n, b)

CopySpec == CopyInit /\ [][CopyNext]_copyVars

----------------------------------------------------------------------------
(* Properties *)

\* e maps page v to a frame that somebody else maps with PTE_LIBRARY too.
SharedOnPurpose(e, v) ==
    \E x \in pt[e][v], d \in Envs \ {e}, w \in Page : \E y \in pt[d][w] :
        x.perm = "library" /\ y.perm = "library" /\ x.frame = y.frame

\* A step for one environment, of the kernel or its own, changes what another
\* one sees on none of its pages, but for the pages both map with PTE_LIBRARY,
\* which fork leaves shared and writable on purpose (kern/fork.c, duppage): a
\* copy does not land in a frame still shared copy-on-write or read-only
\* after a fork, nor in the environment whose table was selected before.
CopiesArePrivate ==
    [][\A e \in Envs \ {curenv}, v \in Page :
            \/ View(e, v)' = View(e, v)
            \/ View(e, v)' = e
            \/ SharedOnPurpose(e, v)
            \/ e \notin there]_copyVars

\* Between two copies the processor uses the table of the running
\* environment, and what a system call read is what its caller has there.
KernelSeesCaller ==
    /\ satp = curenv
    /\ got # NoCopy => got[2] = View(curenv, got[1])

\* A system call that is given a buffer in the caller's memory does not bring
\* the kernel down.
NoCopyPanic == ~panicked

\* sys_get_process_list writes no more than its buffer holds, and answers no
\* more than the caller has room for.
ListFits == listed.written <= listed.room \/ listed = NoList

\* A physical address the kernel gave a driver stays the address of that page.
PhysicalAddressStays ==
    \A a \in asked : \E x \in pt[a.env][a.page] : x.frame = a.frame
============================================================================
