------------------------------- MODULE Virtio -------------------------------
(***************************************************************************)
(* The user-level block driver (driver/virtio) and its clients             *)
(* (user/lib/virtio.c): probing, the split virtqueue, the main loop and    *)
(* the interrupt handler that runs in the middle of it, and the replies.   *)
(*                                                                         *)
(* Of the kernel only this is kept: a send succeeds when the other side is *)
(* blocked in sys_ipc_recv, the request page is one physical page mapped   *)
(* by both sides, and an interrupt diverts the driver, wherever it is, to  *)
(* the one handler it registered (modules Ipc and EnvInterrupt).           *)
(***************************************************************************)
EXTENDS Integers, FiniteSets

CONSTANTS
    Client, Sector, Data,
    NVirtio,            \* virtio_mmio devices 0 .. NVirtio - 1
    MAX_QUEUE_SIZE,     \* descriptors and ring entries, 512 in the code
    QueueSizeMax,       \* the sizes of queue that devices offer (VIRTIO_QUEUE_SIZE_MAX)
    IdxMod,             \* ring indices are taken modulo this, 2^16 in the code
    Ops,                \* what clients ask for, see Op
    MaxBlk,             \* how many devices are writable disks
    DiskFails,          \* whether the disk may answer VIRTIO_BLK_S_IOERR
    InterruptedOps,     \* the requests in whose receive a client's own interrupts come
    MaxCalls,           \* bound on the number of calls
    NONE

\* "read" and "write" are the library's requests; "nofunc" is an unknown request
\* code, "nopage" a request without a page.
Op == {"read", "write", "nofunc", "nopage"}

ASSUME VirtioAssumption ==
    /\ Sector \subseteq Nat /\ Data \subseteq Nat /\ Data # {} /\ Sector # {}
    /\ IsFiniteSet(Client) /\ NONE \notin Client \cup Nat
    /\ NVirtio \in Nat \ {0} /\ MAX_QUEUE_SIZE \in Nat /\ MAX_QUEUE_SIZE >= 3 /\ MaxBlk \in Nat
    /\ QueueSizeMax \subseteq Nat /\ \A n \in QueueSizeMax : n >= 3     \* room for one chain
    /\ IdxMod \in Nat /\ IdxMod > MAX_QUEUE_SIZE /\ Ops \subseteq Op /\ MaxCalls \in Nat
    /\ DiskFails \in BOOLEAN /\ InterruptedOps \subseteq Ops

Dev == 0 .. NVirtio - 1
Blk == 1 .. NVirtio + 1         \* block device numbers start at 1
Desc == 0 .. MAX_QUEUE_SIZE - 1
Min2(a, b) == IF a < b THEN a ELSE b

\* What a virtio_mmio slot holds: nothing the kernel knows, no virtio device, one
\* without a driver, a read-only disk, a disk that refuses a status, a disk.
Kind == {"unknown", "nomagic", "other", "readonly", "stuck", "disk"}

VARIABLES
    dev,        \* of each device: whether its queue is ready, the available index it
                \* has reached, the interrupt status
    disk,       \* the contents of the disk that requests go to
    probe,      \* the next slot to probe
    blk,        \* block_device_idx and the tables it indexes
    queue,      \* the virtqueue of each block device
    main,       \* the main loop: pc and its locals
    drv,        \* in_progress, req_whom, req_type, the page at REQVA, panicked
    handler,    \* the interrupt handler
    client,     \* [Client -> pc, request, answer]
    page,       \* the contents of the clients' request pages (virtioipcbuf)
    got,        \* the last value each client's read returned
    done,       \* history: what the disk did for the call under way
    calls

vars == <<dev, disk, probe, blk, queue, main, drv, handler, client, page, got, done, calls>>
devices == <<probe, blk>>
clients == <<client, page, got, done, calls>>

\* A request page begins with the sector number, followed by the buffer; a read
\* delivers its data from the beginning of the page on, over the sector number.
\* What is in the page between two calls is never read, and neither is the buffer
\* of a read request.
NoPage == [head |-> 0, buffer |-> 0]

\* The main loop between two requests: its locals hold nothing that is used again.
MainAt(pc) == [pc |-> pc, ret |-> 0, val |-> "read", whom |-> NONE, perm |-> FALSE]

LowestOf(S) == CHOOSE n \in S : \A i \in S : n <= i
Filler == LowestOf(Data)

\* A descriptor by what it describes: a client's request header (with the copy of
\* type and sector that request_buffer holds), its page, or the status byte.
NoDesc == [what |-> "none", of |-> NONE, next |-> 0, type |-> "read", sector |-> 0]

Init ==
    /\ dev = [d \in Dev |-> [ready |-> FALSE, avail |-> 0, istatus |-> {}]]
    /\ disk = [s \in Sector |-> Filler]
    /\ probe = 0
    /\ blk = [next |-> 1, virtio |-> [b \in Blk |-> 0], handler |-> 0, codes |-> {}]
    /\ queue = [b \in Blk |-> [size |-> 0, occupied |-> {},
                               desc |-> [d \in Desc |-> NoDesc],
                               avail |-> [i \in Desc |-> 0], availIdx |-> 0,
                               used |-> [i \in Desc |-> 0], usedIdx |-> 0, last_seen_idx |-> 0]]
    /\ main = MainAt("probe")
    /\ drv = [in_progress |-> FALSE, req_whom |-> NONE, reqva |-> NONE, panicked |-> FALSE]
    /\ handler = [pc |-> "none", seen |-> {}, success |-> TRUE]
    /\ client = [c \in Client |-> [pc |-> "idle", req |-> NONE, val |-> 0]]
    /\ page = [c \in Client |-> NoPage]
    /\ got = [c \in Client |-> NONE]
    /\ done = [c \in Client |-> [performed |-> FALSE, result |-> NONE]]
    /\ calls = 0

-----------------------------------------------------------------------------
(* Probing: main's first loop, virtio_dev_init and init_block_device.        *)

\* The last status that the driver wrote and the device accepted.
Status(k) ==
    CASE k \in {"unknown", "nomagic"} -> "reset"
      [] k = "other" -> "acknowledge"
      [] k = "readonly" -> "failed"
      [] k = "stuck" -> "driver"
      [] k = "disk" -> "driver_ok"

\* A disk that accepts every status gets the next number, a queue and the handler.
\* register_user_interrupt_handler keeps one handler for the whole program, and the
\* number is advanced before last_seen_idx is set.  The queue is as long as the device's
\* maximum and the driver's areas allow.
init_block_device(d, max) ==
    /\ blk' = [blk EXCEPT !.next = @ + 1, !.virtio[blk.next] = d, !.handler = blk.next,
                          !.codes = @ \cup {d}]
    /\ queue' = [queue EXCEPT ![blk.next].size = Min2(max, MAX_QUEUE_SIZE),
                              ![blk.next].availIdx = 0, ![blk.next].usedIdx = 0,
                              ![blk.next + 1].last_seen_idx = MAX_QUEUE_SIZE]

virtio_dev_init ==
    /\ main.pc = "probe" /\ probe < NVirtio
    /\ probe' = probe + 1
    /\ \E k \in Kind :
        /\ dev' = [dev EXCEPT ![probe].ready = (Status(k) = "driver_ok")]
        /\ \/ /\ Status(k) = "driver_ok" /\ blk.next <= MaxBlk
              /\ \E max \in QueueSizeMax : init_block_device(probe, max)
           \/ Status(k) # "driver_ok" /\ UNCHANGED <<blk, queue>>
    /\ UNCHANGED <<disk, main, drv, handler, clients>>

\* After the last device the request loop begins.
ProbeEnd ==
    /\ main.pc = "probe" /\ probe = NVirtio
    /\ main' = MainAt("spin")
    /\ UNCHANGED <<devices, dev, disk, queue, drv, handler, clients>>

-----------------------------------------------------------------------------
(* The virtqueue: block.c.                                                   *)

FreeDesc(q) == Desc \ q.occupied
allocate_desc(q) == [q EXCEPT !.occupied = @ \cup {LowestOf(FreeDesc(q))}]

\* Mutant: the sector of the request is not copied into the header.
Chain_NoSector(q, c) ==
    LET q1 == allocate_desc(q)
        q2 == allocate_desc(q1)
        d1 == LowestOf(FreeDesc(q))
        d2 == LowestOf(FreeDesc(q1))
        d3 == LowestOf(FreeDesc(q2))
    IN  [allocate_desc(q2) EXCEPT
            !.desc[d1] = [what |-> "header", of |-> c, next |-> d2, type |-> main.val,
                          sector |-> 0],
            !.desc[d2] = [@ EXCEPT !.what = "data", !.of = c, !.next = d3],
            !.desc[d3] = [@ EXCEPT !.what = "status", !.of = c],
            !.avail = IF q.availIdx \in Desc THEN [@ EXCEPT ![q.availIdx] = d1] ELSE @,
            !.availIdx = (@ + 1) % IdxMod]

\* The chain of three descriptors, the entry in the available ring, the index.  The
\* ring is indexed by the running index itself: past its end the store goes astray, for
\* the first 6 * (MAX_QUEUE_SIZE + 2) indexes into the areas of disks that are not there
\* (queue_avail_area[2 .. 7], block.c:34).  What a later store overwrites is left out.
Chain(q, c) ==
    LET q1 == allocate_desc(q)
        q2 == allocate_desc(q1)
        d1 == LowestOf(FreeDesc(q))
        d2 == LowestOf(FreeDesc(q1))
        d3 == LowestOf(FreeDesc(q2))
    IN  [allocate_desc(q2) EXCEPT
            !.desc[d1] = [what |-> "header", of |-> c, next |-> d2, type |-> main.val,
                          sector |-> page[c].head],
            !.desc[d2] = [@ EXCEPT !.what = "data", !.of = c, !.next = d3],
            !.desc[d3] = [@ EXCEPT !.what = "status", !.of = c],
            !.avail = IF q.availIdx \in Desc THEN [@ EXCEPT ![q.availIdx] = d1] ELSE @,
            !.availIdx = (@ + 1) % IdxMod]

\* Requests always go to block device 1.
block_cmd(c) ==
    IF Cardinality(FreeDesc(queue[1])) < 3
    THEN /\ drv' = [drv EXCEPT !.req_whom = c, !.panicked = TRUE]
         /\ UNCHANGED queue
    ELSE /\ drv' = [drv EXCEPT !.req_whom = c]
         /\ queue' = [queue EXCEPT ![1] = Chain(queue[1], c)]

\* Mutant: the status descriptor is kept.
handle_used_KeepsStatus(q, i) ==
    LET d1 == q.used[i % q.size]
        d2 == q.desc[d1].next
    IN  [ok |-> TRUE, q |-> [q EXCEPT !.occupied = @ \ {d1, d2}]]

\* The checks of the chain; whatever the status byte says the answer is success.
handle_used(q, i) ==
    LET d1 == q.used[i % q.size]
        d2 == q.desc[d1].next
        d3 == q.desc[d2].next
    IN  IF q.desc[d1].what = "header" /\ q.desc[d2].what = "data" /\ q.desc[d3].what = "status"
        THEN [ok |-> TRUE, q |-> [q EXCEPT !.occupied = @ \ {d1, d2, d3}]]
        ELSE [ok |-> FALSE, q |-> q]

\* The used entries from last_seen_idx up to the device's index; when that has
\* wrapped, those up to the queue's size and then those from 0.
Pending(q) ==
    IF q.usedIdx >= q.last_seen_idx THEN q.last_seen_idx .. q.usedIdx - 1
    ELSE (q.last_seen_idx .. q.size - 1) \cup (0 .. q.usedIdx - 1)

HandleAll(q) ==
    LET results == {handle_used(q, i) : i \in Pending(q)}
    IN  [ok |-> \A r \in results : r.ok,
         q |-> [q EXCEPT !.occupied = {d \in @ : \A r \in results : d \in r.q.occupied},
                         !.last_seen_idx = q.usedIdx]]

\* The disk takes the next chain of its queue, moves the data, writes the status
\* and the used entry and raises its interrupt.  It refuses sectors it does not have.
DiskServes(b) ==
    LET d == blk.virtio[b]
        q == queue[b]
        head == q.avail[dev[d].avail % q.size]
        header == q.desc[head]
        c == q.desc[header.next].of
        fails == header.sector \notin Sector
        v == disk[header.sector]
    IN  /\ b < blk.next /\ dev[d].ready /\ dev[d].avail # q.availIdx
        /\ queue' = [queue EXCEPT ![b].used[q.usedIdx % q.size] = head,
                                  ![b].usedIdx = (@ + 1) % IdxMod]
        /\ dev' = [dev EXCEPT ![d].avail = (@ + 1) % IdxMod, ![d].istatus = @ \cup {"used"}]
        /\ \/ /\ header.type = "read" /\ ~fails
              /\ page' = [page EXCEPT ![c] = [head |-> v, buffer |-> v]]
              /\ done' = [done EXCEPT ![c] = [performed |-> TRUE, result |-> v]]
              /\ UNCHANGED disk
           \/ /\ header.type = "write" /\ ~fails
              /\ disk' = [disk EXCEPT ![header.sector] = page[c].buffer]
              /\ done' = [done EXCEPT ![c] = [performed |-> TRUE, result |-> NONE]]
              /\ UNCHANGED page
           \/ /\ fails \/ DiskFails
              /\ UNCHANGED <<disk, page, done>>
        /\ UNCHANGED <<devices, main, drv, handler, client, got, calls>>

\* A device may interrupt for another reason: its configuration changed.
ConfigChange(d) ==
    /\ dev[d].ready /\ "config" \notin dev[d].istatus
    /\ dev' = [dev EXCEPT ![d].istatus = @ \cup {"config"}]
    /\ UNCHANGED <<devices, disk, queue, main, drv, handler, clients>>

-----------------------------------------------------------------------------
(* The main loop: virtio.c.                                                  *)

Running == ~drv.panicked /\ handler.pc = "none"

\* Mutant: the loop does not wait for the request in progress.
WaitIdle_NoWait ==
    /\ Running /\ main.pc = "spin"
    /\ main' = MainAt("recv")
    /\ UNCHANGED <<devices, dev, disk, queue, drv, handler, clients>>

\* while (in_progress); then ipc_recv from anybody.
WaitIdle ==
    /\ Running /\ main.pc = "spin" /\ ~drv.in_progress
    /\ main' = MainAt("recv")
    /\ UNCHANGED <<devices, dev, disk, queue, drv, handler, clients>>

\* The receive has returned; what it wrote is in main.
Received ==
    /\ Running /\ main.pc = "woken"
    /\ main' = [main EXCEPT !.pc = "check"]
    /\ drv' = [drv EXCEPT !.in_progress = TRUE]
    /\ UNCHANGED <<devices, dev, disk, queue, handler, clients>>

\* The receive ended with -E_INTR: back to the beginning.  It ends with no other error
\* (virtio.c:280-283): the only other one that sys_ipc_recv answers is -E_INVAL for an
\* address that may not be mapped (syscall_all.c:737), and REQVA is a constant that may.
Interrupted ==
    /\ Running /\ main.pc = "check" /\ main.ret # 0
    /\ main' = MainAt("spin")
    /\ drv' = [drv EXCEPT !.in_progress = FALSE]
    /\ UNCHANGED <<devices, dev, disk, queue, handler, clients>>

\* A request code that is known, and a page with it.
Valid == main.val # "nofunc" /\ main.perm

Serve ==
    /\ Running /\ main.pc = "check" /\ main.ret = 0 /\ Valid
    /\ main' = MainAt("spin")
    /\ block_cmd(main.whom)
    /\ UNCHANGED <<devices, dev, disk, handler, clients>>

\* ipc_send repeats until the client receives; only then the driver goes on.
Refuse ==
    /\ Running /\ main.pc = "check" /\ main.ret = 0 /\ ~Valid
    /\ client[main.whom].pc = "recv"
    /\ client' = [client EXCEPT ![main.whom].pc = "got", ![main.whom].val = -1]
    /\ main' = MainAt("spin")
    /\ drv' = [drv EXCEPT !.in_progress = FALSE,
                          !.reqva = IF main.val = "nofunc" THEN NONE ELSE @]
    /\ UNCHANGED <<devices, dev, disk, queue, handler, page, got, done, calls>>

-----------------------------------------------------------------------------
(* The interrupt handler: handle_block_interrupt and notify_sender.          *)

\* The kernel diverts the driver to the handler; a receive under way ends with -E_INTR.
Interrupt(d) ==
    /\ ~drv.panicked /\ handler.pc = "none" /\ d \in blk.codes /\ dev[d].istatus # {}
    /\ handler' = [handler EXCEPT !.pc = "entry"]
    /\ main' = IF main.pc = "recv" THEN [main EXCEPT !.pc = "woken", !.ret = -1] ELSE main
    /\ UNCHANGED <<devices, dev, disk, queue, drv, clients>>

HandlerDev == blk.virtio[blk.handler]

handle_block_interrupt ==
    /\ handler.pc = "entry"
    /\ LET seen == dev[HandlerDev].istatus
           all == HandleAll(queue[blk.handler])
       IN  \/ /\ "used" \in seen
              /\ queue' = [queue EXCEPT ![blk.handler] = all.q]
              /\ handler' = [pc |-> "notify", seen |-> seen, success |-> all.ok]
           \/ /\ "used" \notin seen
              /\ handler' = [handler EXCEPT !.pc = "ack", !.seen = seen]
              /\ UNCHANGED queue
    /\ UNCHANGED <<devices, dev, disk, main, drv, clients>>

\* Mutant: the request stays in progress.
notify_sender_StaysBusy ==
    LET c == drv.req_whom
    IN  /\ handler.pc = "notify" /\ drv.in_progress
        /\ handler' = [handler EXCEPT !.pc = "ack"]
        /\ drv' = [drv EXCEPT !.reqva = NONE]
        /\ client' = IF client[c].pc = "recv"
                     THEN [client EXCEPT ![c].pc = "got", ![c].val = 0] ELSE client
        /\ UNCHANGED <<devices, dev, disk, queue, main, page, got, done, calls>>

\* One attempt to send: a client that does not wait gets no answer.
notify_sender ==
    LET c == drv.req_whom
    IN  /\ handler.pc = "notify" /\ ~drv.panicked
        /\ \/ /\ ~drv.in_progress
              /\ drv' = [drv EXCEPT !.panicked = TRUE]
              /\ UNCHANGED <<client, handler>>
           \/ /\ drv.in_progress
              /\ handler' = [handler EXCEPT !.pc = "ack"]
              /\ drv' = [drv EXCEPT !.in_progress = FALSE, !.req_whom = NONE, !.reqva = NONE]
              /\ client' = IF client[c].pc = "recv"
                           THEN [client EXCEPT ![c].pc = "got",
                                               ![c].val = IF handler.success THEN 0 ELSE -1]
                           ELSE client
        /\ UNCHANGED <<devices, dev, disk, queue, main, page, got, done, calls>>

\* The interrupts that were seen are acknowledged, and the handler returns.
Acknowledge ==
    /\ handler.pc = "ack"
    /\ dev' = [dev EXCEPT ![HandlerDev].istatus = @ \ handler.seen]
    /\ handler' = [pc |-> "none", seen |-> {}, success |-> TRUE]
    /\ UNCHANGED <<devices, disk, queue, main, drv, clients>>

-----------------------------------------------------------------------------
(* The clients: user/lib/virtio.c with ipc_send and ipc_recv.                *)

Req == {r \in [op : Ops, sector : Sector, data : Data] :
            /\ r.op = "write" \/ r.data = Filler
            /\ r.op \in {"read", "write"} \/ r.sector = LowestOf(Sector)}

CallDisk(c, r) ==
    /\ client[c].pc = "idle" /\ calls < MaxCalls
    /\ calls' = calls + 1
    /\ client' = [client EXCEPT ![c] = [pc |-> "send", req |-> r, val |-> 0]]
    /\ page' = [page EXCEPT ![c] = [head |-> r.sector, buffer |-> r.data]]
    /\ done' = [done EXCEPT ![c] = [performed |-> FALSE, result |-> NONE]]
    /\ got' = IF r.op \in {"read", "write"} THEN [got EXCEPT ![c] = NONE] ELSE got
    /\ UNCHANGED <<devices, dev, disk, queue, main, drv, handler>>

\* The send that succeeds; the ones before it change nothing.
Send(c) ==
    LET op == client[c].req.op
    IN  /\ client[c].pc = "send" /\ main.pc = "recv" /\ ~drv.panicked
        /\ client' = [client EXCEPT ![c].pc = "sent"]
        /\ main' = [pc |-> "woken", ret |-> 0, val |-> op, whom |-> c, perm |-> op # "nopage"]
        /\ drv' = IF op # "nopage" THEN [drv EXCEPT !.reqva = c] ELSE drv
        /\ UNCHANGED <<devices, dev, disk, queue, handler, page, got, done, calls>>

Receive(c) ==
    /\ client[c].pc = "sent"
    /\ client' = [client EXCEPT ![c].pc = "recv"]
    /\ UNCHANGED <<devices, dev, disk, queue, main, drv, handler, page, got, done, calls>>

\* A client with a handler of its own, whose receive ends with -E_INTR: a read that
\* is interrupted is sent again, with the page as it is; any other call returns.
ClientInterrupted(c) ==
    /\ client[c].pc = "recv" /\ client[c].req.op \in InterruptedOps
    /\ client' = [client EXCEPT ![c].pc = IF client[c].req.op = "read" THEN "send" ELSE "idle"]
    /\ UNCHANGED <<devices, dev, disk, queue, main, drv, handler, page, got, done, calls>>

ReturnFrom(c) ==
    /\ client[c].pc = "got"
    /\ client' = [client EXCEPT ![c].pc = "idle", ![c].req = NONE]
    /\ got' = [got EXCEPT ![c] = CASE client[c].req.op = "read" -> page[c].head
                                   [] client[c].req.op = "write" -> NONE
                                   [] OTHER -> @]
    /\ done' = [done EXCEPT ![c] = [performed |-> FALSE, result |-> NONE]]
    /\ page' = [page EXCEPT ![c] = NoPage]
    /\ UNCHANGED <<devices, dev, disk, queue, main, drv, handler, calls>>

-----------------------------------------------------------------------------
MainLoop ==
    virtio_dev_init \/ ProbeEnd \/ WaitIdle \/ Received \/ Interrupted \/ Serve \/ Refuse

Handler == handle_block_interrupt \/ notify_sender \/ Acknowledge

Requested == \E b \in Blk : DiskServes(b)
Delivered == \E d \in Dev : Interrupt(d)

ClientGoesOn(c) == Receive(c) \/ ReturnFrom(c)

Next ==
    \/ MainLoop \/ Handler \/ Delivered \/ Requested
    \/ \E d \in Dev : ConfigChange(d)
    \/ \E c \in Client : \/ \E r \in Req : CallDisk(c, r)
                        \/ Send(c) \/ ClientInterrupted(c) \/ ClientGoesOn(c)

VirtioSpec == Init /\ [][Next]_vars

\* The scheduler lets the driver and the clients run (RunnableEventuallyRuns in
\* module Ipc), interrupts are delivered, and the disk serves its queue.  An
\* interrupt handler returns to the program it interrupted, so that program gets on
\* however often it is interrupted: strong fairness of the main loop.
Fairness ==
    /\ SF_vars(MainLoop) /\ WF_vars(Handler) /\ WF_vars(Delivered) /\ WF_vars(Requested)
    /\ \A c \in Client : WF_vars(ClientGoesOn(c))

VirtioFairSpec == VirtioSpec /\ Fairness

-----------------------------------------------------------------------------
(* Properties.                                                               *)

VirtioTypeOK ==
    /\ dev \in [Dev -> [ready : BOOLEAN, avail : 0 .. IdxMod - 1,
                        istatus : SUBSET {"used", "config"}]]
    /\ disk \in [Sector -> Data]
    /\ main.pc \in {"probe", "spin", "recv", "woken", "check"}
    /\ blk.virtio \in [Blk -> Dev] /\ blk.next \in Blk /\ probe \in 0 .. NVirtio
    /\ drv.in_progress \in BOOLEAN /\ drv.req_whom \in Client \cup {NONE}
    /\ drv.reqva \in Client \cup {NONE}
    /\ handler.pc \in {"none", "entry", "notify", "ack"}
    /\ \A c \in Client : client[c].pc \in {"idle", "send", "sent", "recv", "got"}
    /\ \A b \in Blk : queue[b].occupied \subseteq Desc /\ queue[b].usedIdx \in 0 .. IdxMod - 1
    /\ calls \in 0 .. MaxCalls

\* Neither assertion of the driver fails: notify_sender is never reached without a
\* request in progress (virtio.c:331), and block_cmd always finds three descriptors
\* (block.c:69): a request is over before the next one is taken.
NoDriverPanic == ~drv.panicked

\* While the driver waits for a request (virtio.c:272) nothing of an earlier one is
\* left: no descriptor is occupied, every used entry has been seen, no client's page
\* is mapped at REQVA, and the disk has nothing to do.
IdleIsClean ==
    (main.pc = "recv" /\ handler.pc = "none") =>
        /\ ~drv.in_progress /\ drv.reqva = NONE
        /\ queue[1].occupied = {} /\ queue[1].last_seen_idx = queue[1].usedIdx
        /\ \A d \in Dev : dev[d].ready => dev[d].avail = queue[1].availIdx

\* check_request, block_cmd, handle_used and notify_sender keep the driver's
\* bookkeeping right whatever order requests and interrupts come in.
DriverSound == VirtioTypeOK /\ NoDriverPanic /\ IdleIsClean

\* The page that the disk reads or writes is the page of the client whose request is
\* in progress, and that client is still in its call (block.c:236, virtio.c:313-326).
DmaIntoRequester ==
    \A d \in Dev :
        (dev[d].ready /\ dev[d].avail # queue[1].availIdx) =>
            LET head == queue[1].avail[dev[d].avail % queue[1].size]
                data == queue[1].desc[queue[1].desc[head].next]
            IN  /\ data.what = "data" /\ data.of = drv.req_whom /\ drv.reqva = drv.req_whom
                /\ client[drv.req_whom].pc \in {"sent", "recv"}

\* The driver implements an atomic disk: what a call returns is what the disk did
\* for it at one instant between call and return, and nothing is done twice.
InCall(c) == client[c].pc # "idle" /\ client[c].req.op \in {"read", "write"}
DiskCall ==
    [c \in Client |->
        IF ~InCall(c) THEN [stage |-> "idle", req |-> NONE, result |-> NONE]
        ELSE [stage |-> IF done[c].performed THEN "done" ELSE "called",
              req |-> client[c].req, result |-> done[c].result]]
Abstract == INSTANCE AtomicDisk WITH call <- DiskCall
ImplementsAtomicDisk == Abstract!DiskSpec

\* A request that the driver has taken is over at some time, if there is a disk: the
\* used entry is written, the interrupt is handled and in_progress is reset
\* (virtio.c:269 and 357).  The one exception is a refused client that was interrupted
\* out of its receive: ipc_send repeats until it receives again (virtio.c:289, 301),
\* while its next request waits for the driver.
RefusedClientLeft ==
    main.pc = "check" /\ main.ret = 0 /\ ~Valid /\ client[main.whom].pc \in {"idle", "send"}
RequestEnds ==
    (main.pc \in {"woken", "check"} /\ blk.codes # {}) ~> (~drv.in_progress \/ RefusedClientLeft)

\* A call returns.  README.md:390 says that the driver answers when the device has
\* answered; it tries once, whether or not the client waits yet.
EveryCallReturns == \A c \in Client : (client[c].pc = "sent" /\ blk.codes # {}) ~> client[c].pc = "idle"

\* A read returns the contents of the sector asked for.  user/lib/virtio.c:43 says
\* that an interrupted request is made again; by then the answer may have been
\* written over the sector number.
ReadReturnsSector ==
    [][\A c \in Client : (client[c].pc = "got" /\ client[c].req.op = "read" /\ client'[c].pc = "idle")
            => got'[c] = disk[client[c].req.sector]]_vars
=============================================================================
