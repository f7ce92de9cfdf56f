----------------------------- MODULE BoundedFifo -----------------------------
(***************************************************************************)
(* What a pipe promises: bytes come out in the order in which they went    *)
(* in, none twice and none lost, and at most Size are under way.           *)
(***************************************************************************)
EXTENDS Naturals, Sequences

CONSTANTS Byte, Size

VARIABLES
    queue,      \* the bytes under way
    out         \* the bytes delivered

FifoInit == queue = <<>> /\ out = <<>>

Put(v) == Len(queue) < Size /\ queue' = Append(queue, v) /\ UNCHANGED out
Get == queue # <<>> /\ out' = Append(out, Head(queue)) /\ queue' = Tail(queue)

FifoSpec == FifoInit /\ [][Get \/ \E v \in Byte : Put(v)]_<<queue, out>>
=============================================================================
