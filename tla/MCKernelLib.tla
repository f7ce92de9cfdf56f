---------------------------- MODULE MCKernelLib ----------------------------
(***************************************************************************)
(* The kernel's sequential services for TLC: the heap's lists, the kernel  *)
(* half of the address spaces, the copies from and to user space, the      *)
(* page-table window, console output, strings and the program loader.      *)
(* They share no variable here, so a behaviour exercises the one that part *)
(* names and leaves the others as they began.                              *)
(***************************************************************************)
EXTENDS Kmalloc, KernelSpace, UserCopy, Vpt, Text, CString, Loader, TLC

CONSTANTS
    e1, e2,
    Part        \* the parts to exercise

VARIABLE part

libVars == <<heapVars, spaceVars, copyVars, textVars, loadVars, stringVars, vptVars, part>>

\* The environments are alike.
MCSymmetry == Permutations({e1, e2})

\* Nothing depends on what the last sys_get_physical_address and the last
\* sys_get_process_list answered (asked, listed of UserCopy).
LibView == <<heapVars, spaceVars, vptVars, textVars, stringVars, loadVars, part,
             there, curenv, cur_pgdir, satp, pt, mem, got, panicked>>

\* The inputs of a part that is not exercised are fixed.
Inputs(p, all) == IF part = p THEN all ELSE {CHOOSE i \in all : TRUE}

LibInit ==
    /\ part \in Part
    /\ kmalloc_init /\ SpaceInit /\ CopyInit /\ VptInit
    /\ TextInit(Inputs("text", Calls))
    /\ StringInit(Inputs("string", Jobs))
    /\ LoadInit(Inputs("load", Images), Inputs("load", FreePages))

LibNext ==
    \/ /\ part = "heap" /\ HeapNext
       /\ UNCHANGED <<spaceVars, copyVars, vptVars, textVars, stringVars, loadVars, part>>
    \/ /\ part = "space" /\ SpaceNext
       /\ UNCHANGED <<heapVars, copyVars, vptVars, textVars, stringVars, loadVars, part>>
    \/ /\ part = "copy" /\ CopyNext
       /\ UNCHANGED <<heapVars, spaceVars, vptVars, textVars, stringVars, loadVars, part>>
    \/ /\ part = "vpt" /\ VptNext
       /\ UNCHANGED <<heapVars, spaceVars, copyVars, textVars, stringVars, loadVars, part>>
    \/ /\ part = "text" /\ TextNext
       /\ UNCHANGED <<heapVars, spaceVars, copyVars, vptVars, stringVars, loadVars, part>>
    \/ /\ part = "string" /\ StringNext
       /\ UNCHANGED <<heapVars, spaceVars, copyVars, vptVars, textVars, loadVars, part>>
    \/ /\ part = "load" /\ load_icode
       /\ UNCHANGED <<heapVars, spaceVars, copyVars, vptVars, textVars, stringVars, part>>

LibSpec == LibInit /\ [][LibNext]_libVars

----------------------------------------------------------------------------
(* Inputs.  With INT = 16 and LONG = 64: %d of 12 is -4, %ld of 52 is -12. *)

F(op, fmt, args) == [op |-> op, fmt |-> fmt, args |-> args, rest |-> <<>>]

MCCalls == {
    F("debugf", <<"a", "%", "0", "4", "d">>, <<12>>),
    [F("debugf", <<"!", "%", "d", ":">>, <<7>>) EXCEPT
        !.rest = <<[fmt |-> <<"%", "s">>, args |-> <<<<"w", "h", "y">>>>],
                   [fmt |-> <<"\n">>, args |-> <<>>]>>],
    F("debugf", <<"%", "-", "4", "d", "%", "4", "s">>, <<12, <<"x", "y">>>>),
    F("debugf", <<"%", "%", "%", "5", "l", "X", "%">>, <<47>>),
    F("printf", <<"%", "l", "d", "%", "2", "c">>, <<52, <<"c">>>>),
    F("printf", <<"%", "-", "3", "u", "%", "0", "3", "b">>, <<7, 5>>),
    F("printf", <<"a", "%", "9", "d">>, <<3>>),
    F("printk", <<"%", "s", ":", " ", "%", "l", "x", "\n">>, <<<<"k">>, 63>>)}

\* The same conversions for an argument with the highest bit of an int set.
HighCalls == {F("debugf", <<"%", "u">>, <<12>>)}

\* Every alignment of both addresses, and lengths up to two words and a half.
MCJobs ==
    {[op |-> "memcpy", d |-> d, s |-> s, n |-> n] : d \in 0 .. 7, s \in 64 .. 71, n \in 0 .. 20}
    \cup {[op |-> "memset", d |-> d, n |-> n] : d \in 0 .. 7, n \in 0 .. 20}
    \cup {[op |-> "string", p |-> p, q |-> q] : p, q \in BoundedSeq({1, 2}, 3)}

S(va, filesz, memsz) == [va |-> va, filesz |-> filesz, memsz |-> memsz, loadable |-> TRUE]

\* One segment of every shape over two pages, and two on pages of their own
\* with a header that is not loaded in between.
MCImages ==
    {<<S(va, f, m)>> : va \in 4 .. 7, f \in 0 .. 9, m \in 1 .. 12}
    \cup {<<S(4, 3, 6), [S(8, 1, 1) EXCEPT !.loadable = FALSE], S(14, 3, 5)>>}
WellFormed == {i \in MCImages : \A n \in DOMAIN i : i[n].filesz <= i[n].memsz}

\* Two segments that meet in a page.
SharedPage == {<<S(4, 5, 5), S(10, 2, 2)>>}
============================================================================
