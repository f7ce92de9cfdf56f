-------------------------------- MODULE Pipe --------------------------------
(***************************************************************************)
(* Pipes and the descriptors that lead to them: user/lib/pipe.c, the parts *)
(* of user/lib/fd.c that every device shares, user/lib/console.c's open,   *)
(* and fork, which shares the pages.                                       *)
(*                                                                         *)
(* Each page mapping is a step of its own: pipe_close unmaps the           *)
(* descriptor's page before the pipe's, dup maps the pipe's before the     *)
(* descriptor's, and a peer may look at the reference counts in between.   *)
(* A process may be preempted between any two steps; env_runs then         *)
(* changes, which is kept as a mark on a check that is under way.          *)
(***************************************************************************)
EXTENDS Integers, FiniteSets, Sequences

CONSTANTS
    Proc, First,    \* the processes; First is there from the start
    MAXFD,          \* descriptor numbers 0 .. MAXFD - 1, 32 in the code
    PIPE_SIZE,      \* 32 in the code
    PosMod,         \* positions are taken modulo this, 2^32 in the code
    OneUser,        \* whether the processes use each end one at a time
    MaxBytes,       \* bound on the bytes written
    MaxDup          \* bound on the calls of dup, opencons and pipe_is_closed

ASSUME PipeAssumption ==
    /\ First \in Proc /\ IsFiniteSet(Proc) /\ MAXFD \in Nat /\ MAXFD > 2
    /\ PIPE_SIZE \in Nat \ {0} /\ PosMod \in Nat /\ PosMod > PIPE_SIZE
    /\ PosMod % PIPE_SIZE = 0 /\ OneUser \in BOOLEAN
    /\ MaxBytes \in Nat /\ MaxDup \in Nat

FdNo == 0 .. MAXFD - 1
Byte == 1 .. MaxBytes       \* the k-th byte written is k

VARIABLES
    fdpage,     \* which descriptor page is mapped: a read end, a write end, the console
    data,       \* whether the pipe's page is mapped at the descriptor's data address
    live,       \* the processes that exist
    pipe,       \* p_rpos, p_wpos, p_buf; whether the pipe was made
    pr,         \* what each process is doing
    sent, got,  \* history: how many bytes were written, which were delivered
    dups

vars == <<fdpage, data, live, pipe, pr, sent, got, dups>>
pages == <<fdpage, data>>
pipestate == <<pipe, sent, got>>

Idle == [pc |-> "idle", fd |-> 0, n |-> 0, i |-> 0, from |-> -1, fdref |-> 0, piperef |-> 0, stale |-> FALSE]

Init ==
    /\ fdpage = [p \in Proc |-> [i \in FdNo |-> "none"]]
    /\ data = [p \in Proc |-> [i \in FdNo |-> FALSE]]
    /\ live = {First}
    /\ pipe = [rpos |-> 0, wpos |-> 0, buf |-> [k \in 0 .. PIPE_SIZE - 1 |-> 0], made |-> FALSE]
    /\ pr = [p \in Proc |-> Idle]
    /\ sent = 0 /\ got = <<>> /\ dups = 0

\* Process p takes a step: the others are not running, so one that is in the middle
\* of a check finds that env_runs has changed.
Window == {"fdref", "piperef", "after"}
Step(p, k) ==
    /\ p \in live
    /\ pr' = [q \in Proc |-> IF q = p THEN k
                             ELSE [pr[q] EXCEPT !.stale = @ \/ pr[q].pc \in Window]]

At(p, pc) == pr[p].pc = pc
Goto(p, pc) == Step(p, [pr[p] EXCEPT !.pc = pc])
Returns(p) == Step(p, Idle)

-----------------------------------------------------------------------------
(* Descriptors: fd.c.                                                        *)

Free(p) == {i \in 0 .. MAXFD - 2 : fdpage[p][i] = "none"}
fd_alloc(p) == CHOOSE i \in Free(p) : \A j \in Free(p) : i <= j
fd_lookup(p, i) == fdpage[p][i] # "none"

\* Makes the pipe: two descriptor pages and one page mapped for both.
pipe_(p) ==
    LET r == fd_alloc(p)
        w == CHOOSE i \in Free(p) \ {r} : \A j \in Free(p) \ {r} : i <= j
    IN  /\ At(p, "idle") /\ ~pipe.made /\ Cardinality(Free(p)) >= 2
        /\ fdpage' = [fdpage EXCEPT ![p][r] = "r", ![p][w] = "w"]
        /\ data' = [data EXCEPT ![p][r] = TRUE, ![p][w] = TRUE]
        /\ pipe' = [pipe EXCEPT !.made = TRUE]
        /\ Returns(p)
        /\ UNCHANGED <<live, sent, got, dups>>

opencons(p) ==
    /\ At(p, "idle") /\ Free(p) # {} /\ dups < MaxDup
    /\ dups' = dups + 1
    /\ fdpage' = [fdpage EXCEPT ![p][fd_alloc(p)] = "c"]
    /\ Returns(p)
    /\ UNCHANGED <<data, live, pipestate>>

\* The pages are PTE_LIBRARY: the child maps the same ones.
fork(p, q) ==
    /\ At(p, "idle") /\ q \notin live
    /\ live' = live \cup {q}
    /\ fdpage' = [fdpage EXCEPT ![q] = fdpage[p]]
    /\ data' = [data EXCEPT ![q] = data[p]]
    /\ Returns(p)
    /\ UNCHANGED <<pipestate, dups>>

\* exit does not close; the kernel unmaps everything.
exit(p) ==
    /\ At(p, "idle")
    /\ live' = live \ {p}
    /\ fdpage' = [fdpage EXCEPT ![p] = [i \in FdNo |-> "none"]]
    /\ data' = [data EXCEPT ![p] = [i \in FdNo |-> FALSE]]
    /\ Returns(p)
    /\ UNCHANGED <<pipestate, dups>>

\* After close a dup goes on (from is the descriptor it copies).
AfterClose(p) == IF pr[p].from >= 0 THEN Goto(p, "dup_data") ELSE Returns(p)

close(p, i) ==
    /\ At(p, "idle") /\ fd_lookup(p, i)
    /\ Step(p, [Idle EXCEPT !.pc = "close_fd", !.fd = i])
    /\ UNCHANGED <<pages, live, pipestate, dups>>

\* Mutant: the pipe's page first.
close_fd_DataFirst(p) ==
    /\ At(p, "close_fd")
    /\ data' = [data EXCEPT ![p][pr[p].fd] = FALSE]
    /\ Goto(p, "close_data")
    /\ UNCHANGED <<fdpage, live, pipestate, dups>>

\* pipe_close's first unmapping; the console has only this page (fd_close).
close_fd(p) ==
    /\ At(p, "close_fd")
    /\ fdpage' = [fdpage EXCEPT ![p][pr[p].fd] = "none"]
    /\ IF fdpage[p][pr[p].fd] = "c" THEN AfterClose(p) ELSE Goto(p, "close_data")
    /\ UNCHANGED <<data, live, pipestate, dups>>

\* pipe_close's second; close's fd_close then finds nothing mapped.
close_data(p) ==
    /\ At(p, "close_data")
    /\ fdpage' = [fdpage EXCEPT ![p][pr[p].fd] = "none"]
    /\ data' = [data EXCEPT ![p][pr[p].fd] = FALSE]
    /\ AfterClose(p)
    /\ UNCHANGED <<live, pipestate, dups>>

dup(p, i, j) ==
    /\ At(p, "idle") /\ fd_lookup(p, i) /\ dups < MaxDup
    /\ dups' = dups + 1
    /\ Step(p, [Idle EXCEPT !.pc = IF fd_lookup(p, j) THEN "close_fd" ELSE "dup_data",
                            !.fd = j, !.from = i])
    /\ UNCHANGED <<pages, live, pipestate>>

dup_data(p) ==
    /\ At(p, "dup_data")
    /\ data' = [data EXCEPT ![p][pr[p].fd] = data[p][pr[p].from] \/ @]
    /\ Goto(p, "dup_fd")
    /\ UNCHANGED <<fdpage, live, pipestate, dups>>

\* The descriptor's page last.  dup onto itself has closed what it wants to copy:
\* the mapping fails and everything is unmapped.
dup_fd(p) ==
    LET k == pr[p]
    IN  /\ At(p, "dup_fd")
        /\ fdpage' = [fdpage EXCEPT ![p][k.fd] = fdpage[p][k.from]]
        /\ data' = [data EXCEPT ![p][k.fd] = @ /\ fd_lookup(p, k.from)]
        /\ Returns(p)
        /\ UNCHANGED <<live, pipestate, dups>>

-----------------------------------------------------------------------------
(* Reading and writing: read and write of fd.c check the mode, pipe.c does   *)
(* the rest.  Nothing in the code keeps two processes from using one end at  *)
(* the same time; with OneUser the processes themselves do not.              *)

Using(kind) == \E q \in Proc : pr[q].pc # "idle" /\ pr[q].n > 0 /\ fdpage[q][pr[q].fd] = kind

Used(d) == d % PosMod
InPipe == Used(pipe.wpos - pipe.rpos)

Start(p, i, n, kind, pc) ==
    /\ At(p, "idle") /\ fdpage[p][i] = kind
    /\ OneUser => ~Using(kind)
    /\ Step(p, [Idle EXCEPT !.pc = pc, !.fd = i, !.n = n])
    /\ UNCHANGED <<pages, live, pipestate, dups>>

read(p, i, n) == Start(p, i, n, "r", "read")
write(p, i, n) == sent + n <= MaxBytes /\ Start(p, i, n, "w", "write")

Room == InPipe < PIPE_SIZE

\* The inner loop's test; rpos < wpos compares the counters themselves.
read_test(p) ==
    LET k == pr[p]
    IN  /\ At(p, "read")
        /\ IF k.i < k.n /\ pipe.rpos < pipe.wpos THEN Goto(p, "take")
           ELSE IF k.i = k.n THEN Returns(p) ELSE Goto(p, "read_empty")
        /\ UNCHANGED <<pages, live, pipestate, dups>>

\* buf[i] = rbuf[rpos]; rpos++.  The byte is copied before the position moves, and
\* until then the writer does not use its place; another reader would take it too.
take(p) ==
    /\ At(p, "take")
    /\ got' = Append(got, pipe.buf[pipe.rpos % PIPE_SIZE])
    /\ pipe' = [pipe EXCEPT !.rpos = Used(@ + 1)]
    /\ Step(p, [pr[p] EXCEPT !.pc = "read", !.i = @ + 1])
    /\ UNCHANGED <<pages, live, sent, dups>>

\* Empty: what was read so far is returned; otherwise is the pipe closed?
read_empty(p) ==
    LET k == pr[p]
    IN  /\ At(p, "read_empty")
        /\ IF pipe.rpos # pipe.wpos THEN Goto(p, "read")
           ELSE IF k.i >= 1 THEN Returns(p) ELSE Goto(p, "before")
        /\ UNCHANGED <<pages, live, pipestate, dups>>

write_test(p) ==
    LET k == pr[p]
    IN  /\ At(p, "write")
        /\ IF k.i < k.n /\ Room THEN Goto(p, "put")
           ELSE IF k.i = k.n THEN Returns(p) ELSE Goto(p, "write_full")
        /\ UNCHANGED <<pages, live, pipestate, dups>>

\* Mutant: the byte goes to the place after the position.
put_NextPlace(p) ==
    /\ At(p, "put")
    /\ pipe' = [pipe EXCEPT !.buf[(pipe.wpos + 1) % PIPE_SIZE] = sent + 1]
    /\ Goto(p, "advance")
    /\ UNCHANGED <<pages, live, sent, got, dups>>

\* wbuf[wpos] = buf[i], then wpos++.
put(p) ==
    /\ At(p, "put")
    /\ pipe' = [pipe EXCEPT !.buf[pipe.wpos % PIPE_SIZE] = sent + 1]
    /\ Goto(p, "advance")
    /\ UNCHANGED <<pages, live, sent, got, dups>>

advance(p) ==
    /\ At(p, "advance")
    /\ pipe' = [pipe EXCEPT !.wpos = Used(@ + 1)]
    /\ sent' = sent + 1
    /\ Step(p, [pr[p] EXCEPT !.pc = "write", !.i = @ + 1])
    /\ UNCHANGED <<pages, live, got, dups>>

write_full(p) ==
    /\ At(p, "write_full")
    /\ Goto(p, IF InPipe # PIPE_SIZE THEN "write" ELSE "before")
    /\ UNCHANGED <<pages, live, pipestate, dups>>

-----------------------------------------------------------------------------
(* _pipe_is_closed: env_runs is read once, then the counts until env_runs is *)
(* what it was.                                                              *)

pipe_is_closed(p, i) ==
    /\ At(p, "idle") /\ fdpage[p][i] \in {"r", "w"} /\ dups < MaxDup
    /\ dups' = dups + 1
    /\ Step(p, [Idle EXCEPT !.pc = "before", !.fd = i])
    /\ UNCHANGED <<pages, live, pipestate>>

\* The check begins.
read_runs(p) ==
    /\ At(p, "before")
    /\ Goto(p, "fdref")
    /\ UNCHANGED <<pages, live, pipestate, dups>>

pageref_fd(kind) == Cardinality({x \in Proc \X FdNo : fdpage[x[1]][x[2]] = kind})
pageref_pipe == Cardinality({x \in Proc \X FdNo : data[x[1]][x[2]]})

read_fd_ref(p) ==
    /\ At(p, "fdref")
    /\ Step(p, [pr[p] EXCEPT !.pc = "piperef", !.fdref = pageref_fd(fdpage[p][pr[p].fd])])
    /\ UNCHANGED <<pages, live, pipestate, dups>>

read_pipe_ref(p) ==
    /\ At(p, "piperef")
    /\ Step(p, [pr[p] EXCEPT !.pc = "after", !.piperef = pageref_pipe])
    /\ UNCHANGED <<pages, live, pipestate, dups>>

ClosedFor(k) == k.fdref = k.piperef

\* Closed: the call returns.  Not closed: yield, then look again.
decide(p) ==
    LET k == pr[p]
        again == IF fdpage[p][k.fd] = "r" THEN "read_empty" ELSE "write_full"
    IN  /\ At(p, "after")
        /\ IF k.stale THEN Goto(p, "fdref")
           ELSE IF ClosedFor(k) \/ k.n = 0 THEN Returns(p)
           ELSE Step(p, [k EXCEPT !.pc = again, !.fdref = 0, !.piperef = 0])
        /\ UNCHANGED <<pages, live, pipestate, dups>>

\* The clock interrupts a check, and schedule lets the process go on.
Tick(p) ==
    /\ pr[p].pc \in Window /\ ~pr[p].stale
    /\ pr' = [pr EXCEPT ![p].stale = TRUE]
    /\ UNCHANGED <<pages, live, pipestate, dups>>

-----------------------------------------------------------------------------
GoesOn(p) ==
    \/ close_fd(p) \/ close_data(p) \/ dup_data(p) \/ dup_fd(p)
    \/ read_test(p) \/ take(p) \/ read_empty(p) \/ write_test(p) \/ put(p) \/ advance(p)
    \/ write_full(p) \/ read_runs(p) \/ read_fd_ref(p) \/ read_pipe_ref(p) \/ decide(p)

Calls(p) ==
    \/ pipe_(p) \/ opencons(p) \/ exit(p)
    \/ \E q \in Proc : fork(p, q)
    \/ \E i \in FdNo : \/ close(p, i) \/ pipe_is_closed(p, i)
                      \/ \E j \in FdNo : dup(p, i, j)
                      \/ \E n \in 1 .. PIPE_SIZE + 1 : read(p, i, n) \/ write(p, i, n)

Next == \E p \in Proc : GoesOn(p) \/ Calls(p) \/ Tick(p)

PipeSpec == Init /\ [][Next]_vars

\* Every process runs again and again (RunnableEventuallyRuns in module Ipc).
PipeFairSpec == PipeSpec /\ \A p \in Proc : WF_vars(GoesOn(p))

-----------------------------------------------------------------------------
(* Properties.                                                               *)

PipeTypeOK ==
    /\ fdpage \in [Proc -> [FdNo -> {"none", "r", "w", "c"}]]
    /\ data \in [Proc -> [FdNo -> BOOLEAN]]
    /\ pipe.rpos \in 0 .. PosMod - 1 /\ pipe.wpos \in 0 .. PosMod - 1
    /\ pipe.buf \in [0 .. PIPE_SIZE - 1 -> Nat] /\ sent \in Nat /\ got \in Seq(Nat)
    /\ \A p \in Proc : pr[p].fd \in FdNo /\ pr[p].from \in FdNo \cup {-1}

\* A pipe is a queue: what is read is what was written, in order, nothing lost or
\* read twice, and no more under way than the buffer holds, wherever the reader and
\* the writer are preempted and the positions wrap (pipe.c:171, 240) - as long as
\* the processes use each end one at a time (OneUser).  Two writers store at the same
\* place and both move the position (pipe.c:241-243): without OneUser it is false.
Contents == [k \in 1 .. InPipe |-> pipe.buf[(pipe.rpos + k - 1) % PIPE_SIZE]]
Fifo == INSTANCE BoundedFifo WITH queue <- Contents, out <- got, Size <- PIPE_SIZE
ImplementsFifo == Fifo!FifoSpec

\* When _pipe_is_closed says closed, nobody has the other end open, also when other
\* processes are in the middle of a close or a dup (pipe.c:129, 308, fd.c:201-216).
ClosedIsTruthful ==
    \A p \in Proc :
        (pr[p].pc = "after" /\ ~pr[p].stale /\ ClosedFor(pr[p])) =>
            \A q \in Proc, i \in FdNo :
                fdpage[q][i] \in {"none", "c", fdpage[p][pr[p].fd]}

\* pipe_read, pipe_write, pipe_close and dup keep the pipe's state, and what
\* _pipe_is_closed makes of it is true.
PipeSound == PipeTypeOK /\ ClosedIsTruthful

\* pipe.c:136 says that pipe_read returns 0 only if the pipe is closed and nothing
\* has been written since the last read.  A writer that writes and closes between
\* the reader's test for an empty pipe and its test for a closed one is missed.
ReadZeroMeansDrained ==
    [][\A p \in Proc :
        (pr[p].pc = "after" /\ pr[p].n > 0 /\ pr'[p] = Idle /\ fdpage[p][pr[p].fd] = "r")
            => pipe.rpos = pipe.wpos]_vars

\* pipe.c:113 says that the counts are read again until env_runs is unchanged.  The
\* value to compare with is read only once, so after one preemption it never is.
CheckEnds == \A p \in Proc : pr[p].pc = "before" ~> pr[p].pc \notin Window \cup {"before"}

\* A read that finds bytes in the pipe returns.  The positions are compared with <
\* (pipe.c:171): when the writer's has wrapped and the reader's has not, the reader
\* takes nothing and does not see an empty pipe either.
ReadTakes == \A p \in Proc : (pr[p].pc = "read" /\ InPipe > 0) ~> pr[p].pc # "read" /\ pr[p].pc # "read_empty"
=============================================================================
