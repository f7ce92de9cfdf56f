----------------------------- MODULE AtomicDisk -----------------------------
(***************************************************************************)
(* What the block driver promises its clients: a call of                   *)
(* virtio_read_sector or virtio_write_sector (user/lib/virtio.c) takes     *)
(* effect on the disk at one instant between the call and its return, and  *)
(* a read returns what the sector held at that instant.                    *)
(***************************************************************************)
CONSTANTS Client, Sector, Data, NONE

VARIABLES
    disk,
    call,
    got         \* what the last call of each client returned

avars == <<disk, call, got>>

Request == [op : {"read", "write"}, sector : Sector, data : Data]

\* stage "called": not yet in effect; "done": in effect, result is what a read returns.
Idle == [stage |-> "idle", req |-> NONE, result |-> NONE]
Called(r) == [stage |-> "called", req |-> r, result |-> NONE]
Done(r, v) == [stage |-> "done", req |-> r, result |-> v]

AInit ==
    /\ disk \in [Sector -> Data]
    /\ call = [c \in Client |-> Idle]
    /\ got = [c \in Client |-> NONE]

Call(c, r) ==
    /\ call[c].stage = "idle"
    /\ call' = [call EXCEPT ![c] = Called(r)]
    /\ got' = [got EXCEPT ![c] = NONE]
    /\ UNCHANGED disk

Perform(c) ==
    /\ call[c].stage = "called"
    /\ LET r == call[c].req
       IN  \/ /\ r.op = "read"
              /\ call' = [call EXCEPT ![c] = Done(r, disk[r.sector])]
              /\ UNCHANGED disk
           \/ /\ r.op = "write"
              /\ call' = [call EXCEPT ![c] = Done(r, NONE)]
              /\ disk' = [disk EXCEPT ![r.sector] = r.data]
    /\ UNCHANGED got

Return(c) ==
    /\ call[c].stage = "done"
    /\ got' = [got EXCEPT ![c] = call[c].result]
    /\ call' = [call EXCEPT ![c] = Idle]
    /\ UNCHANGED disk

ANext == \E c \in Client : (\E r \in Request : Call(c, r)) \/ Perform(c) \/ Return(c)

DiskSpec == AInit /\ [][ANext]_avars
=============================================================================
