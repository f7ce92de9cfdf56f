---------------------------- MODULE VirtioProofs ----------------------------
(***************************************************************************)
(* The block driver for any number of clients, sectors and devices and any *)
(* queue size, as long as one disk at most accepts the driver, the ring's  *)
(* 16-bit index does not wrap (Pending), and no read or write is           *)
(* interrupted in its client: its bookkeeping is right, DMA goes to the    *)
(* client whose request is in progress, and it implements the atomic disk. *)
(***************************************************************************)
EXTENDS Virtio, FiniteSetTheorems, TLAPS

\* The stores of disk 1 that stay inside queue_avail_area: its own ring and the areas of
\* the six disks after it.
AvailEntries == MAX_QUEUE_SIZE + 6 * (MAX_QUEUE_SIZE + 2)

\* What the theorems assume of a machine and its programs.  The proofs use all but the
\* bound AvailEntries, up to which what the model leaves out of a store past the ring is
\* nothing that the driver reads; it is 3596 in the code.
WithinLimits ==
    /\ MaxBlk <= 1 /\ MaxCalls < IdxMod /\ MaxCalls <= AvailEntries
    /\ "read" \notin InterruptedOps /\ "write" \notin InterruptedOps

-----------------------------------------------------------------------------
(* Types.                                                                    *)

MainPc == {"probe", "spin", "recv", "woken", "check"}
HandlerPc == {"none", "entry", "notify", "ack"}
ClientPc == {"idle", "send", "sent", "recv", "got"}
Cause == {"used", "config"}

Device == [ready : BOOLEAN, avail : 0 .. IdxMod - 1, istatus : SUBSET Cause]
BlkTables == [next : {1, 2}, virtio : [Blk -> Dev], handler : {0, 1}, codes : SUBSET Dev]
DescOf == [what : {"none", "header", "data", "status"}, of : Client \cup {NONE}, next : Desc,
           type : Op, sector : Nat]
\* A chain is made when the queue is empty, so it begins at descriptor 0: an entry that
\* was stored past the end of the available ring is missed by nobody.
Queue == [size : Nat, occupied : SUBSET Desc, desc : [Desc -> DescOf],
          avail : [Desc -> {0}], availIdx : 0 .. IdxMod - 1,
          used : [Desc -> {0}], usedIdx : 0 .. IdxMod - 1, last_seen_idx : Nat]
Main == [pc : MainPc, ret : {0, -1}, val : Op, whom : Client \cup {NONE}, perm : BOOLEAN]
Driver == [in_progress : BOOLEAN, req_whom : Client \cup {NONE}, reqva : Client \cup {NONE},
           panicked : {FALSE}]
HandlerState == [pc : HandlerPc, seen : SUBSET Cause, success : BOOLEAN]
ClientState == [pc : ClientPc, req : Req \cup {NONE}, val : {0, -1}]
PageState == [head : Nat, buffer : Nat]
DoneState == [performed : BOOLEAN, result : Data \cup {NONE}]

TypeInv ==
    /\ dev \in [Dev -> Device] /\ disk \in [Sector -> Data] /\ probe \in 0 .. NVirtio
    /\ blk \in BlkTables /\ queue \in [Blk -> Queue] /\ main \in Main /\ drv \in Driver
    /\ handler \in HandlerState /\ client \in [Client -> ClientState]
    /\ page \in [Client -> PageState] /\ got \in [Client -> Nat \cup {NONE}]
    /\ done \in [Client -> DoneState] /\ calls \in 0 .. MaxCalls
    /\ \A c \in Client : client[c].pc # "idle" => client[c].req \in Req

-----------------------------------------------------------------------------
(* The driver's one queue and the one disk.                                  *)

\* The lengths that a queue may have: init_block_device takes the smaller of two.
Size == 3 .. MAX_QUEUE_SIZE

TheDev == dev[blk.virtio[1]]
Q == queue[1]

DeviceInv ==
    /\ \A d \in Dev : /\ dev[d].ready => blk.next = 2 /\ d = blk.virtio[1]
                      /\ ~dev[d].ready => dev[d].avail = 0 /\ dev[d].istatus = {}
    /\ blk.next = 1 => blk.codes = {} /\ handler.pc = "none"
    /\ blk.next = 2 => /\ blk.handler = 1 /\ blk.codes = {blk.virtio[1]} /\ TheDev.ready
                       /\ Q.size \in Size /\ blk.virtio[1] < probe

\* No request is in the queue ...
Quiesced ==
    /\ Q.occupied = {} /\ Q.usedIdx = Q.availIdx /\ Q.last_seen_idx = Q.availIdx
    /\ blk.next = 2 => TheDev.avail = Q.availIdx

\* The running indices of the rings that have a successor.
Idx == 0 .. IdxMod - 2

\* ... or one is, c's, the last one in the available ring: the disk has not taken it,
\* or it has.
ChainOf(q, c) ==
    /\ q.availIdx - 1 \in Idx
    /\ \E d1, d2, d3 \in Desc :
        /\ d1 = 0 /\ q.occupied = {d1, d2, d3}
        /\ q.desc[d1].what = "header" /\ q.desc[d1].next = d2
        /\ q.desc[d1].type = client[c].req.op /\ q.desc[d1].sector = client[c].req.sector
        /\ q.desc[d2].what = "data" /\ q.desc[d2].of = c /\ q.desc[d2].next = d3
        /\ q.desc[d3].what = "status"

Submitted(c) ==
    /\ ChainOf(Q, c) /\ Q.usedIdx = Q.availIdx - 1 /\ Q.last_seen_idx = Q.availIdx - 1
    /\ blk.next = 2 => TheDev.avail = Q.availIdx - 1 /\ "used" \notin TheDev.istatus

Served(c) ==
    /\ blk.next = 2 /\ ChainOf(Q, c) /\ Q.usedIdx = Q.availIdx /\ Q.last_seen_idx = Q.availIdx - 1
    /\ TheDev.avail = Q.availIdx /\ "used" \in TheDev.istatus

-----------------------------------------------------------------------------
(* The request from the call to the answer.                                  *)

IsDiskOp(op) == op \in {"read", "write"}

\* The page is as the client filled it, and the disk has done nothing.
Untouched(c) ==
    /\ ~done[c].performed
    /\ page[c].head = client[c].req.sector /\ page[c].buffer = client[c].req.data

\* The disk has done what was asked for.
Performed(c) ==
    ~DiskFails => /\ done[c].performed
                  /\ client[c].req.op = "read" => page[c].head = done[c].result

\* The handler will acknowledge the interrupt of the used ring.
AcksUsed == handler.pc = "ack" /\ "used" \in handler.seen

IdleInv ==
    drv.req_whom = NONE =>
        /\ Quiesced /\ handler.pc # "notify"
        /\ (drv.in_progress <=> main.pc = "check")
        /\ main.pc \in {"probe", "spin", "recv"} => drv.reqva = NONE
        /\ blk.next = 2 /\ "used" \in TheDev.istatus => AcksUsed

FlightInv ==
    \A c \in Client : drv.req_whom = c =>
        /\ main.pc = "spin" /\ drv.in_progress /\ drv.reqva = c
        /\ client[c].pc \in {"sent", "recv"} /\ IsDiskOp(client[c].req.op)
        /\ \/ Submitted(c) /\ Untouched(c) /\ handler.pc # "notify" /\ ~AcksUsed
           \/ Served(c) /\ Performed(c) /\ handler.pc # "notify" /\ ~AcksUsed
           \/ /\ blk.next = 2 /\ Quiesced /\ Performed(c)
              /\ handler.pc = "notify" /\ "used" \in handler.seen /\ handler.success

MainInv ==
    /\ main.pc = "probe" => Q.availIdx = 0
    /\ main.pc \in {"woken", "check"} =>
        /\ drv.req_whom = NONE
        /\ main.ret # 0 => drv.reqva = NONE
        /\ main.ret = 0 =>
            /\ main.whom \in Client /\ (main.perm <=> main.val # "nopage")
            /\ drv.reqva = IF main.val = "nopage" THEN NONE ELSE main.whom
            /\ client[main.whom].pc \in {"sent", "recv"} => client[main.whom].req.op = main.val
            /\ IsDiskOp(main.val) => client[main.whom].pc \in {"sent", "recv"} /\ Untouched(main.whom)

ClientInv ==
    \A c \in Client :
        /\ ~done[c].performed => done[c].result = NONE
        /\ client[c].pc # "idle" /\ client[c].req.op = "write" => done[c].result = NONE
        /\ client[c].pc = "send" => Untouched(c)
        /\ client[c].pc = "got" /\ IsDiskOp(client[c].req.op) => Performed(c)

\* The clients whose call has not reached the queue: the running index of the ring
\* and these are no more than the calls.
Holds == main.pc \in {"woken", "check"} /\ main.ret = 0 /\ IsDiskOp(main.val)
Waiting == {c \in Client : client[c].pc = "send" \/ (Holds /\ c = main.whom)}
CountInv == Q.availIdx + Cardinality(Waiting) <= calls

VirtioInv ==
    TypeInv /\ DeviceInv /\ IdleInv /\ FlightInv /\ MainInv /\ ClientInv /\ CountInv

-----------------------------------------------------------------------------
(* Constants and the operators on sets.                                      *)

\* The least element of a set of numbers exists.
LEMMA Lowest ==
    ASSUME NEW S \in SUBSET Nat, S # {}
    PROVE  LowestOf(S) \in S /\ \A i \in S : LowestOf(S) <= i
<1>1. PICK n \in S : \A i \in S : ~(<<i, n>> \in OpToRel(<, Nat))
  BY NatLessThanWellFounded, WFMin
<1>2. ASSUME NEW i \in S PROVE n <= i
  <2>1. i \in Nat /\ n \in Nat
    OBVIOUS
  <2>2. ~(<<i, n>> \in {ss \in Nat \X Nat : ss[1] < ss[2]})
    BY <1>1 DEF OpToRel
  <2>3. ~(i < n)
    BY <2>1, <2>2
  <2> QED BY <2>1, <2>3
<1>3. \E j \in S : \A i \in S : j <= i
  BY <1>2
<1> QED BY <1>3 DEF LowestOf

\* What the constants are.
LEMMA Constants ==
    /\ MAX_QUEUE_SIZE \in Nat /\ MAX_QUEUE_SIZE >= 3 /\ IdxMod \in Nat /\ IdxMod > MAX_QUEUE_SIZE
    /\ NVirtio \in Nat /\ NVirtio >= 1 /\ MaxBlk \in Nat /\ MaxCalls \in Nat
    /\ Sector \in SUBSET Nat /\ Data \in SUBSET Nat /\ Filler \in Data
    /\ NONE \notin Client /\ NONE \notin Nat /\ IsFiniteSet(Client)
    /\ 1 \in Blk /\ 2 \in Blk /\ 0 \in Dev /\ 0 \in Desc /\ 1 \in Desc /\ 2 \in Desc
    /\ DiskFails \in BOOLEAN /\ InterruptedOps \in SUBSET Ops /\ Ops \in SUBSET Op
<1>1. Filler \in Data
  BY VirtioAssumption, Lowest DEF Filler
<1> QED BY VirtioAssumption, <1>1 DEF Blk, Dev, Desc

\* A request is for a sector of the disk, with data of it.
LEMMA Requests ==
    ASSUME NEW r \in Req
    PROVE  /\ r.op \in Ops /\ r.op \in Op /\ r.sector \in Sector /\ r.data \in Data
           /\ r.sector \in Nat /\ r.data \in Nat
           /\ r = [op |-> r.op, sector |-> r.sector, data |-> r.data]
BY Constants DEF Req

\* An index of a ring is one of its entries.
LEMMA InRing == ASSUME NEW i \in Nat, NEW n \in Size PROVE i % n \in Desc
<1>1. n \in Nat /\ n > 0 /\ n <= MAX_QUEUE_SIZE /\ MAX_QUEUE_SIZE \in Nat
  BY Constants DEF Size
<1>2. i % n \in 0 .. n - 1
  BY ONLY <1>1, i \in Nat
<1> QED BY <1>1, <1>2 DEF Desc

\* A running index below the modulus is not reduced.
LEMMA NoWrap == ASSUME NEW a \in Nat, NEW n \in Nat, a < n PROVE a % n = a
OBVIOUS

-----------------------------------------------------------------------------
(* The initial states.                                                       *)

\* The initial state satisfies the invariant.
LEMMA InitInv == ASSUME WithinLimits, Init PROVE VirtioInv
<1> USE Constants
<1>1. TypeInv
  <2>1. queue \in [Blk -> Queue]
    BY DEF Init, Queue, DescOf, NoDesc, Desc, Op
  <2>2. dev \in [Dev -> Device]
    BY DEF Init, Device
  <2>3. blk \in BlkTables
    BY DEF Init, BlkTables
  <2>4. client \in [Client -> ClientState]
    BY DEF Init, ClientState, ClientPc
  <2>5. page \in [Client -> PageState] /\ done \in [Client -> DoneState]
    BY DEF Init, PageState, DoneState, NoPage
  <2>6. main \in Main /\ drv \in Driver /\ handler \in HandlerState
    BY DEF Init, Main, Driver, HandlerState, MainAt, MainPc, HandlerPc, Op, Cause
  <2>7. /\ disk \in [Sector -> Data] /\ probe \in 0 .. NVirtio /\ calls \in 0 .. MaxCalls
        /\ got \in [Client -> Nat \cup {NONE}]
    BY DEF Init
  <2>8. ASSUME NEW c \in Client PROVE client[c].pc = "idle"
    BY DEF Init
  <2> QED BY <2>1, <2>2, <2>3, <2>4, <2>5, <2>6, <2>7, <2>8 DEF TypeInv
<1>2. DeviceInv
  BY DEF DeviceInv, Init
<1>3. Quiesced
  BY DEF Quiesced, Q, Init
<1>7. /\ main.pc = "probe" /\ drv.in_progress = FALSE /\ drv.req_whom = NONE /\ drv.reqva = NONE
      /\ blk.next = 1 /\ Q.availIdx = 0 /\ handler.pc = "none"
  BY DEF Init, MainAt, Q
<1>8. IdleInv
  BY <1>3, <1>7 DEF IdleInv
<1>9. FlightInv
  BY <1>7 DEF FlightInv
<1>10. MainInv
  BY <1>7 DEF MainInv
<1>4. IdleInv /\ FlightInv /\ MainInv
  BY <1>8, <1>9, <1>10
<1>6. ClientInv
  BY DEF ClientInv, Init
<1>5. CountInv
  <2>1. Waiting = {}
    BY DEF Waiting, Holds, Init, MainAt
  <2> QED BY <2>1, FS_EmptySet DEF CountInv, Init, Q
<1> QED BY <1>1, <1>2, <1>4, <1>5, <1>6 DEF VirtioInv

-----------------------------------------------------------------------------
(* What a step that leaves some variables alone leaves of the invariant.     *)

\* What only the queue determines.
LEMMA SameQueue ==
    ASSUME UNCHANGED <<dev, blk, queue>>
    PROVE  Q' = Q /\ TheDev' = TheDev /\ (Quiesced' <=> Quiesced)
BY DEF Q, TheDev, Quiesced

\* What the queue and a client's request determine.
LEMMA SameChain ==
    ASSUME UNCHANGED <<dev, blk, queue>>, NEW c \in Client, client'[c].req = client[c].req
    PROVE  (Submitted(c)' <=> Submitted(c)) /\ (Served(c)' <=> Served(c))
<1>1. ChainOf(Q, c)' <=> ChainOf(Q, c)
  BY DEF ChainOf, Q
<1> QED BY <1>1, SameQueue DEF Submitted, Served

\* What a client's page, request and result determine.
LEMMA SameData ==
    ASSUME NEW c \in Client, client'[c].req = client[c].req,
           page'[c] = page[c], done'[c] = done[c]
    PROVE  (Untouched(c)' <=> Untouched(c)) /\ (Performed(c)' <=> Performed(c))
BY DEF Untouched, Performed

\* The devices are as they were, and the handler has not been entered.
LEMMA SameDevices ==
    ASSUME DeviceInv, UNCHANGED <<dev, blk, queue, probe>>,
           handler.pc = "none" => handler'.pc = "none"
    PROVE  DeviceInv'
BY SameQueue DEF DeviceInv

\* Finitely many clients wait.
LEMMA WaitingFinite == IsFiniteSet(Waiting) /\ Cardinality(Waiting) \in Nat
<1>1. Waiting \subseteq Client /\ IsFiniteSet(Client)
  BY Constants DEF Waiting
<1> QED BY <1>1, FS_Subset, FS_CardinalityType

\* A set with at most one new element, and one that has lost an element.
LEMMA OneMore ==
    ASSUME NEW S, NEW T, NEW x, IsFiniteSet(S), T \subseteq S \cup {x}
    PROVE  IsFiniteSet(T) /\ Cardinality(T) \in Nat /\ Cardinality(T) <= Cardinality(S) + 1
<1>1. Cardinality(S) \in Nat
  BY FS_CardinalityType
<1>2. IsFiniteSet(S \cup {x}) /\ Cardinality(S \cup {x}) <= Cardinality(S) + 1
  <2>1. /\ IsFiniteSet(S \cup {x})
        /\ x \in S => Cardinality(S \cup {x}) = Cardinality(S)
        /\ x \notin S => Cardinality(S \cup {x}) = Cardinality(S) + 1
    BY FS_AddElement
  <2> QED BY <1>1, <2>1
<1>3. Cardinality(S \cup {x}) \in Nat
  BY <1>2, FS_CardinalityType
<1>4. IsFiniteSet(T) /\ Cardinality(T) <= Cardinality(S \cup {x})
  BY <1>2, FS_Subset
<1>5. Cardinality(T) \in Nat
  BY <1>4, FS_CardinalityType
<1> QED BY <1>1, <1>2, <1>3, <1>4, <1>5

\* A set that lost an element is smaller.
LEMMA OneLess ==
    ASSUME NEW S, NEW T, NEW x, IsFiniteSet(S), x \in S, T \subseteq S \ {x}
    PROVE  IsFiniteSet(T) /\ Cardinality(T) \in Nat /\ Cardinality(T) + 1 <= Cardinality(S)
<1>1. Cardinality(S) \in Nat
  BY FS_CardinalityType
<1>2. IsFiniteSet(S \ {x}) /\ Cardinality(S \ {x}) = Cardinality(S) - 1
  BY FS_RemoveElement
<1>4. IsFiniteSet(T) /\ Cardinality(T) <= Cardinality(S \ {x})
  BY <1>2, FS_Subset
<1>5. Cardinality(T) \in Nat
  BY <1>4, FS_CardinalityType
<1> QED BY <1>1, <1>2, <1>4, <1>5

\* No client has come to wait.
LEMMA FewerWait ==
    ASSUME CountInv, TypeInv, TypeInv', Waiting' \subseteq Waiting,
           Q'.availIdx = Q.availIdx, calls' = calls
    PROVE  CountInv'
<1>1. Cardinality(Waiting') <= Cardinality(Waiting) /\ Cardinality(Waiting') \in Nat
      /\ Cardinality(Waiting) \in Nat
  BY WaitingFinite, FS_Subset, FS_CardinalityType
<1>2. Q.availIdx \in Nat /\ calls \in Nat
  BY Constants DEF TypeInv, Queue, Q
<1> QED BY <1>1, <1>2 DEF CountInv

-----------------------------------------------------------------------------
(* The main loop.                                                            *)

\* The probe ends with an empty queue.
LEMMA ProbeEndStep == ASSUME WithinLimits, VirtioInv, ProbeEnd PROVE VirtioInv'
<1> USE Constants DEF VirtioInv, ProbeEnd, devices, clients
<1>0. /\ main'.pc = "spin" /\ main.pc = "probe"
  BY DEF MainAt
<1>1. TypeInv'
  BY DEF TypeInv, Main, MainAt, MainPc, Op
<1>2. DeviceInv'
  BY SameDevices
<1>3. IdleInv'
  BY <1>0, SameQueue DEF IdleInv, AcksUsed
<1>4. FlightInv'
  BY <1>0 DEF FlightInv
<1>5. MainInv'
  BY <1>0 DEF MainInv
<1>6. ClientInv'
  BY DEF ClientInv, Untouched, Performed
<1>7. CountInv'
  <2>1. Waiting' \subseteq Waiting
    BY <1>0 DEF Waiting, Holds
  <2> QED BY <2>1, <1>1, FewerWait, SameQueue
<1> QED BY <1>1, <1>2, <1>3, <1>4, <1>5, <1>6, <1>7

\* The driver waits for a message with an empty queue.
LEMMA WaitIdleStep == ASSUME WithinLimits, VirtioInv, WaitIdle PROVE VirtioInv'
<1> USE Constants DEF VirtioInv, WaitIdle, devices, clients
<1>0. main'.pc = "recv" /\ main.pc = "spin" /\ ~drv.in_progress /\ drv' = drv
  BY DEF MainAt
<1>1. TypeInv'
  BY DEF TypeInv, Main, MainAt, MainPc, Op
<1>2. DeviceInv'
  BY SameDevices
<1>3. IdleInv'
  BY <1>0, SameQueue DEF IdleInv, AcksUsed
<1>4. FlightInv'
  BY <1>0 DEF FlightInv
<1>5. MainInv'
  BY <1>0 DEF MainInv
<1>6. ClientInv'
  BY DEF ClientInv, Untouched, Performed
<1>7. CountInv'
  <2>1. Waiting' \subseteq Waiting
    BY <1>0 DEF Waiting, Holds
  <2> QED BY <2>1, <1>1, FewerWait, SameQueue
<1> QED BY <1>1, <1>2, <1>3, <1>4, <1>5, <1>6, <1>7

\* The driver takes up the request of a client that waits.
LEMMA ReceivedStep == ASSUME WithinLimits, VirtioInv, Received PROVE VirtioInv'
<1> USE Constants DEF VirtioInv, Received, devices, clients
<1>0. /\ main.pc = "woken" /\ main'.pc = "check" /\ main'.ret = main.ret /\ main'.val = main.val
      /\ main'.whom = main.whom /\ main'.perm = main.perm
      /\ drv'.in_progress = TRUE /\ drv'.req_whom = drv.req_whom /\ drv'.reqva = drv.reqva
  BY DEF TypeInv, Main, Driver
<1>1. TypeInv'
  BY DEF TypeInv, Main, MainPc, Driver
<1>2. DeviceInv'
  BY SameDevices
<1>3. IdleInv'
  BY <1>0, SameQueue DEF IdleInv, AcksUsed
<1>4. FlightInv'
  BY <1>0 DEF FlightInv, MainInv
<1>5. MainInv'
  BY <1>0, SameData DEF MainInv
<1>6. ClientInv'
  BY DEF ClientInv, Untouched, Performed
<1>7. CountInv'
  <2>1. Waiting' \subseteq Waiting
    BY <1>0 DEF Waiting, Holds
  <2> QED BY <2>1, <1>1, FewerWait, SameQueue
<1> QED BY <1>1, <1>2, <1>3, <1>4, <1>5, <1>6, <1>7

\* The driver's receive ends with -E_INTR and is repeated.
LEMMA InterruptedStep == ASSUME WithinLimits, VirtioInv, Interrupted PROVE VirtioInv'
<1> USE Constants DEF VirtioInv, Interrupted, devices, clients
<1>0. /\ main.pc = "check" /\ main'.pc = "spin" /\ main.ret # 0
      /\ drv'.in_progress = FALSE /\ drv'.req_whom = drv.req_whom /\ drv'.reqva = drv.reqva
  BY DEF TypeInv, MainAt, Driver
<1>1. TypeInv'
  BY DEF TypeInv, Main, MainAt, MainPc, Op, Driver
<1>2. DeviceInv'
  BY SameDevices
<1>3. IdleInv'
  BY <1>0, SameQueue DEF IdleInv, AcksUsed, MainInv
<1>4. FlightInv'
  BY <1>0 DEF FlightInv, MainInv
<1>5. MainInv'
  BY <1>0 DEF MainInv
<1>6. ClientInv'
  BY DEF ClientInv, Untouched, Performed
<1>7. CountInv'
  <2>1. Waiting' \subseteq Waiting
    BY <1>0 DEF Waiting, Holds
  <2> QED BY <2>1, <1>1, FewerWait, SameQueue
<1> QED BY <1>1, <1>2, <1>3, <1>4, <1>5, <1>6, <1>7

\* The driver refuses a request before it touches the queue.
LEMMA RefuseStep == ASSUME WithinLimits, VirtioInv, Refuse PROVE VirtioInv'
<1> USE Constants DEF VirtioInv, Refuse, devices, clients
<1> DEFINE w == main.whom
<1>0. /\ main.pc = "check" /\ main'.pc = "spin" /\ main.ret = 0 /\ drv.req_whom = NONE
      /\ w \in Client /\ main.val \in {"nofunc", "nopage"} /\ main.val = client[w].req.op
      /\ drv'.in_progress = FALSE /\ drv'.req_whom = drv.req_whom /\ drv'.reqva = NONE
  <2>1. w \in Client /\ main.val \in {"nofunc", "nopage"}
    BY DEF MainInv, Valid
  <2>2. drv'.reqva = NONE
    BY <2>1 DEF MainInv, TypeInv, Driver
  <2> QED BY <2>1, <2>2 DEF TypeInv, Driver, MainInv, MainAt
<1>01. /\ client'[w].pc = "got" /\ client'[w].req = client[w].req
       /\ \A c \in Client \ {w} : client'[c] = client[c]
       /\ client' \in [Client -> ClientState]
  BY <1>0 DEF TypeInv, ClientState, ClientPc
<1>1. TypeInv'
  <2>1. main' \in Main /\ drv' \in Driver
    BY DEF TypeInv, Main, MainAt, MainPc, Op, Driver
  <2>2. \A c \in Client : client'[c].pc # "idle" => client'[c].req \in Req
    BY <1>0, <1>01 DEF TypeInv
  <2> QED BY <2>1, <2>2, <1>01 DEF TypeInv
<1>2. DeviceInv'
  BY SameDevices
<1>3. IdleInv'
  BY <1>0, SameQueue DEF IdleInv, AcksUsed, MainInv
<1>4. FlightInv'
  BY <1>0 DEF FlightInv, MainInv
<1>5. MainInv'
  BY <1>0 DEF MainInv
<1>6. ClientInv'
  BY <1>0, <1>01 DEF ClientInv, Untouched, Performed, IsDiskOp
<1>7. CountInv'
  <2>1. Waiting' \subseteq Waiting
    BY <1>0, <1>01 DEF Waiting, Holds
  <2> QED BY <2>1, <1>1, FewerWait, SameQueue
<1> QED BY <1>1, <1>2, <1>3, <1>4, <1>5, <1>6, <1>7

-----------------------------------------------------------------------------
(* The interrupt handler.                                                    *)

\* The handler starts on a used buffer.
LEMMA InterruptStep == ASSUME WithinLimits, VirtioInv, NEW d \in Dev, Interrupt(d) PROVE VirtioInv'
<1> USE Constants DEF VirtioInv, Interrupt, devices, clients
<1>0. /\ handler.pc = "none" /\ handler'.pc = "entry"
      /\ main'.pc = IF main.pc = "recv" THEN "woken" ELSE main.pc
      /\ main.pc = "recv" => main'.ret = -1
      /\ main.pc # "recv" => main' = main
  BY DEF TypeInv, HandlerState, Main
<1>1. TypeInv'
  <2>1. main' \in Main
    BY DEF TypeInv, Main, MainPc
  <2>2. handler' \in HandlerState
    BY DEF TypeInv, HandlerState, HandlerPc
  <2> QED BY <2>1, <2>2 DEF TypeInv
<1>2. DeviceInv'
  BY SameQueue DEF DeviceInv
<1>3. IdleInv'
  BY <1>0, SameQueue DEF IdleInv, AcksUsed
<1>4. FlightInv'
  <2> SUFFICES ASSUME NEW c \in Client, drv.req_whom = c
               PROVE  /\ main'.pc = "spin" /\ drv.in_progress /\ drv.reqva = c
                      /\ client[c].pc \in {"sent", "recv"} /\ IsDiskOp(client[c].req.op)
                      /\ \/ Submitted(c)' /\ Untouched(c)' /\ handler'.pc # "notify" /\ ~AcksUsed'
                         \/ Served(c)' /\ Performed(c)' /\ handler'.pc # "notify" /\ ~AcksUsed'
    BY DEF FlightInv
  <2> QED BY <1>0, SameChain, SameData DEF FlightInv, AcksUsed
<1>5. MainInv'
  <2>1. CASE main.pc = "recv"
    BY <1>0, <2>1, SameQueue DEF MainInv, FlightInv, IdleInv, TypeInv, Driver
  <2>2. CASE main.pc # "recv"
    BY <1>0, <2>2, SameQueue DEF MainInv, Untouched
  <2> QED BY <2>1, <2>2
<1>6. ClientInv'
  BY DEF ClientInv, Untouched, Performed
<1>7. CountInv'
  <2>1. Waiting' \subseteq Waiting
    BY <1>0 DEF Waiting, Holds
  <2> QED BY <2>1, <1>1, FewerWait, SameQueue
<1> QED BY <1>1, <1>2, <1>3, <1>4, <1>5, <1>6, <1>7

\* The handler answers the client whose request was served.
LEMMA NotifyStep == ASSUME WithinLimits, VirtioInv, notify_sender PROVE VirtioInv'
<1> USE Constants DEF VirtioInv, notify_sender, devices, clients
<1> DEFINE w == drv.req_whom
<1>0. /\ handler.pc = "notify" /\ w \in Client
  BY DEF IdleInv, TypeInv, Driver
<1>00. /\ main.pc = "spin" /\ drv.in_progress /\ client[w].pc \in {"sent", "recv"}
       /\ Quiesced /\ Performed(w) /\ "used" \in handler.seen
  BY <1>0 DEF FlightInv
<1>01. /\ drv'.in_progress = FALSE /\ drv'.req_whom = NONE /\ drv'.reqva = NONE
       /\ handler'.pc = "ack" /\ handler'.seen = handler.seen
       /\ drv' \in Driver /\ handler' \in HandlerState
  BY <1>00 DEF TypeInv, Driver, HandlerState, HandlerPc
<1>02. /\ client'[w].pc \in {"sent", "got"} /\ client'[w].req = client[w].req
       /\ \A c \in Client \ {w} : client'[c] = client[c]
       /\ client' \in [Client -> ClientState]
  BY <1>0, <1>00 DEF TypeInv, ClientState, ClientPc
<1>1. TypeInv'
  <2>2. \A c \in Client : client'[c].pc # "idle" => client'[c].req \in Req
    BY <1>0, <1>00, <1>02 DEF TypeInv
  <2> QED BY <2>2, <1>01, <1>02 DEF TypeInv
<1>2. DeviceInv'
  BY SameDevices, <1>0
<1>3. IdleInv'
  BY <1>00, <1>01, SameQueue DEF IdleInv, AcksUsed
<1>4. FlightInv'
  BY <1>01 DEF FlightInv
<1>5. MainInv'
  BY <1>00 DEF MainInv
<1>6. ClientInv'
  <2> SUFFICES ASSUME NEW c \in Client
               PROVE  /\ ~done[c].performed => done[c].result = NONE
                      /\ client'[c].pc # "idle" /\ client'[c].req.op = "write" => done[c].result = NONE
                      /\ client'[c].pc = "send" => Untouched(c)'
                      /\ client'[c].pc = "got" /\ IsDiskOp(client'[c].req.op) => Performed(c)'
    BY DEF ClientInv
  <2>1. CASE c = w
    BY <2>1, <1>00, <1>02, SameData DEF ClientInv
  <2>2. CASE c # w
    BY <2>2, <1>02, SameData DEF ClientInv
  <2> QED BY <2>1, <2>2
<1>7. CountInv'
  <2>1. Waiting' \subseteq Waiting
    BY <1>00, <1>02 DEF Waiting, Holds
  <2> QED BY <2>1, <1>1, FewerWait, SameQueue
<1> QED BY <1>1, <1>2, <1>3, <1>4, <1>5, <1>6, <1>7

\* The disk's interrupt status is all that changes in the devices.
LEMMA StatusOnly ==
    ASSUME TypeInv, TypeInv', DeviceInv, blk.next = 2, UNCHANGED <<blk, queue, probe>>,
           \A d \in Dev : dev'[d].ready = dev[d].ready /\ dev'[d].avail = dev[d].avail,
           \A d \in Dev : d # blk.virtio[1] => dev'[d] = dev[d]
    PROVE  /\ DeviceInv' /\ Q' = Q /\ TheDev'.avail = TheDev.avail /\ (Quiesced' <=> Quiesced)
<1>1. blk.virtio[1] \in Dev
  BY Constants DEF TypeInv, BlkTables
<1> QED BY <1>1 DEF DeviceInv, Q, TheDev, Quiesced

\* The chain of a request, when neither the queue nor the request changes.
LEMMA SameChainOf ==
    ASSUME UNCHANGED queue, NEW c \in Client, client'[c].req = client[c].req
    PROVE  ChainOf(Q, c)' <=> ChainOf(Q, c)
BY DEF ChainOf, Q

\* The handler acknowledges the device.
LEMMA AcknowledgeStep == ASSUME WithinLimits, VirtioInv, Acknowledge PROVE VirtioInv'
<1> USE Constants DEF VirtioInv, Acknowledge, devices, clients
<1>0. /\ handler.pc = "ack" /\ handler'.pc = "none" /\ blk.next = 2 /\ HandlerDev = blk.virtio[1]
      /\ blk.virtio[1] \in Dev
  BY DEF DeviceInv, HandlerDev, TypeInv, BlkTables
<1>01. /\ \A d \in Dev : dev'[d].ready = dev[d].ready /\ dev'[d].avail = dev[d].avail
       /\ \A d \in Dev : d # blk.virtio[1] => dev'[d] = dev[d]
       /\ TheDev'.istatus = TheDev.istatus \ handler.seen
       /\ dev' \in [Dev -> Device]
  BY <1>0 DEF TypeInv, Device, TheDev
<1>1. TypeInv'
  BY <1>01 DEF TypeInv, HandlerState, HandlerPc
<1>2. /\ DeviceInv' /\ Q' = Q /\ TheDev'.avail = TheDev.avail /\ (Quiesced' <=> Quiesced)
  BY <1>0, <1>01, <1>1, StatusOnly
<1>3. IdleInv'
  BY <1>0, <1>01, <1>2 DEF IdleInv, AcksUsed
<1>4. FlightInv'
  <2> SUFFICES ASSUME NEW c \in Client, drv.req_whom = c
               PROVE  \/ Submitted(c)' /\ Untouched(c)' /\ handler'.pc # "notify" /\ ~AcksUsed'
                      \/ Served(c)' /\ Performed(c)' /\ handler'.pc # "notify" /\ ~AcksUsed'
    BY DEF FlightInv
  <2>1. ChainOf(Q, c)' <=> ChainOf(Q, c)
    BY SameChainOf
  <2>2. (Submitted(c) \/ Served(c)) /\ ~AcksUsed
    BY <1>0 DEF FlightInv
  <2>3. Submitted(c) => Submitted(c)'
    BY <1>01, <1>2, <2>1 DEF Submitted
  <2>4. Served(c) => Served(c)'
    BY <1>0, <1>01, <1>2, <2>1, <2>2 DEF Served, AcksUsed
  <2> QED BY <1>0, <2>3, <2>4, SameData DEF FlightInv, AcksUsed
<1>5. MainInv'
  BY <1>2 DEF MainInv, Untouched
<1>6. ClientInv'
  BY DEF ClientInv, Untouched, Performed
<1>7. CountInv'
  <2>1. Waiting' \subseteq Waiting
    BY DEF Waiting, Holds
  <2> QED BY <2>1, <1>1, <1>2, FewerWait
<1> QED BY <1>1, <1>2, <1>3, <1>4, <1>5, <1>6, <1>7

\* A configuration change is an interrupt without a used buffer.
LEMMA ConfigChangeStep ==
    ASSUME WithinLimits, VirtioInv, NEW d \in Dev, ConfigChange(d) PROVE VirtioInv'
<1> USE Constants DEF VirtioInv, ConfigChange, devices, clients
<1>0. blk.next = 2 /\ d = blk.virtio[1]
  BY DEF DeviceInv
<1>01. /\ \A e \in Dev : dev'[e].ready = dev[e].ready /\ dev'[e].avail = dev[e].avail
       /\ \A e \in Dev : e # blk.virtio[1] => dev'[e] = dev[e]
       /\ TheDev'.istatus = TheDev.istatus \cup {"config"}
       /\ dev' \in [Dev -> Device]
  BY <1>0 DEF TypeInv, Device, TheDev, Cause
<1>1. TypeInv'
  BY <1>01 DEF TypeInv
<1>2. /\ DeviceInv' /\ Q' = Q /\ TheDev'.avail = TheDev.avail /\ (Quiesced' <=> Quiesced)
  BY <1>0, <1>01, <1>1, StatusOnly
<1>3. IdleInv'
  BY <1>0, <1>01, <1>2 DEF IdleInv, AcksUsed
<1>4. FlightInv'
  <2> SUFFICES ASSUME NEW c \in Client, drv.req_whom = c
               PROVE  \/ Submitted(c)' /\ Untouched(c)' /\ handler.pc # "notify" /\ ~AcksUsed'
                      \/ Served(c)' /\ Performed(c)' /\ handler.pc # "notify" /\ ~AcksUsed'
                      \/ /\ blk.next = 2 /\ Quiesced' /\ Performed(c)'
                         /\ handler.pc = "notify" /\ "used" \in handler.seen /\ handler.success
    BY DEF FlightInv
  <2>1. ChainOf(Q, c)' <=> ChainOf(Q, c)
    BY SameChainOf
  <2>3. Submitted(c) => Submitted(c)'
    BY <1>01, <1>2, <2>1 DEF Submitted
  <2>4. Served(c) => Served(c)'
    BY <1>0, <1>01, <1>2, <2>1 DEF Served
  <2> QED BY <1>0, <1>2, <2>3, <2>4, SameData DEF FlightInv, AcksUsed
<1>5. MainInv'
  BY <1>2 DEF MainInv, Untouched
<1>6. ClientInv'
  BY DEF ClientInv, Untouched, Performed
<1>7. CountInv'
  <2>1. Waiting' \subseteq Waiting
    BY DEF Waiting, Holds
  <2> QED BY <2>1, <1>1, <1>2, FewerWait
<1> QED BY <1>1, <1>2, <1>3, <1>4, <1>5, <1>6, <1>7

-----------------------------------------------------------------------------
(* The clients.                                                              *)

\* The request in progress is not of the client that takes the step.
LEMMA OthersFly ==
    ASSUME VirtioInv, NEW c \in Client, UNCHANGED <<dev, blk, queue, handler, drv, main>>,
           \A e \in Client \ {c} : /\ client'[e] = client[e] /\ page'[e] = page[e]
                                   /\ done'[e] = done[e],
           drv.req_whom # c
    PROVE  FlightInv'
<1> SUFFICES ASSUME NEW e \in Client, drv.req_whom = e
             PROVE  /\ main.pc = "spin" /\ drv.in_progress /\ drv.reqva = e
                    /\ client'[e].pc \in {"sent", "recv"} /\ IsDiskOp(client'[e].req.op)
                    /\ \/ Submitted(e)' /\ Untouched(e)' /\ handler.pc # "notify" /\ ~AcksUsed'
                       \/ Served(e)' /\ Performed(e)' /\ handler.pc # "notify" /\ ~AcksUsed'
                       \/ /\ blk.next = 2 /\ Quiesced' /\ Performed(e)'
                          /\ handler.pc = "notify" /\ "used" \in handler.seen /\ handler.success
  BY DEF FlightInv
<1>1. e # c
  OBVIOUS
<1>2. /\ client'[e] = client[e] /\ page'[e] = page[e] /\ done'[e] = done[e]
  BY <1>1
<1> QED BY <1>2, SameChain, SameData, SameQueue DEF FlightInv, AcksUsed, VirtioInv

\* A client's call starts with its own page and no result.
LEMMA CallDiskStep ==
    ASSUME WithinLimits, VirtioInv, NEW c \in Client, NEW r \in Req, CallDisk(c, r) PROVE VirtioInv'
<1> USE Constants DEF VirtioInv, CallDisk, devices, clients
<1>0. /\ client[c].pc = "idle" /\ client'[c].pc = "send" /\ client'[c].req = r
      /\ page'[c].head = r.sector /\ page'[c].buffer = r.data
      /\ done'[c].performed = FALSE /\ done'[c].result = NONE
  BY DEF TypeInv
<1>01. \A e \in Client \ {c} : client'[e] = client[e] /\ page'[e] = page[e] /\ done'[e] = done[e]
  BY DEF TypeInv
<1>02. drv.req_whom # c
  BY <1>0 DEF FlightInv
<1>1. TypeInv'
  <2>1. client' \in [Client -> ClientState]
    BY DEF TypeInv, ClientState, ClientPc
  <2>2. page' \in [Client -> PageState]
    BY Requests DEF TypeInv, PageState
  <2>3. done' \in [Client -> DoneState]
    BY DEF TypeInv, DoneState
  <2>4. got' \in [Client -> Nat \cup {NONE}]
    BY DEF TypeInv
  <2>5. calls' \in 0 .. MaxCalls
    BY DEF TypeInv
  <2>6. \A e \in Client : client'[e].pc # "idle" => client'[e].req \in Req
    BY <1>0, <1>01 DEF TypeInv
  <2> QED BY <2>1, <2>2, <2>3, <2>4, <2>5, <2>6 DEF TypeInv
<1>2. DeviceInv'
  BY SameDevices
<1>3. IdleInv'
  BY SameQueue DEF IdleInv, AcksUsed
<1>4. FlightInv'
  BY <1>01, <1>02, OthersFly
<1>5. MainInv'
  BY <1>0, <1>01, SameQueue, SameData DEF MainInv
<1>6. ClientInv'
  <2> SUFFICES ASSUME NEW e \in Client
               PROVE  /\ ~done'[e].performed => done'[e].result = NONE
                      /\ client'[e].pc # "idle" /\ client'[e].req.op = "write" => done'[e].result = NONE
                      /\ client'[e].pc = "send" => Untouched(e)'
                      /\ client'[e].pc = "got" /\ IsDiskOp(client'[e].req.op) => Performed(e)'
    BY DEF ClientInv
  <2>1. CASE e = c
    BY <2>1, <1>0 DEF Untouched
  <2>2. CASE e # c
    BY <2>2, <1>01, SameData DEF ClientInv
  <2> QED BY <2>1, <2>2
<1>7. CountInv'
  <2>1. Waiting' \subseteq Waiting \cup {c}
    BY <1>01 DEF Waiting, Holds
  <2>2. IsFiniteSet(Waiting) /\ Cardinality(Waiting) \in Nat
    BY WaitingFinite
  <2>4. Cardinality(Waiting') <= Cardinality(Waiting) + 1 /\ Cardinality(Waiting') \in Nat
    BY <2>1, <2>2, OneMore
  <2>5. Q.availIdx \in Nat /\ calls \in Nat /\ calls' = calls + 1 /\ Q'.availIdx = Q.availIdx
    BY SameQueue DEF TypeInv, Queue, Q
  <2> QED BY <2>2, <2>4, <2>5 DEF CountInv
<1> QED BY <1>1, <1>2, <1>3, <1>4, <1>5, <1>6, <1>7

\* A client's request waits until the driver receives it.
LEMMA SendStep == ASSUME WithinLimits, VirtioInv, NEW c \in Client, Send(c) PROVE VirtioInv'
<1> USE Constants DEF VirtioInv, Send, devices, clients
<1> DEFINE op == client[c].req.op
<1>0. /\ client[c].pc = "send" /\ client'[c].pc = "sent" /\ client'[c].req = client[c].req
      /\ client' \in [Client -> ClientState]
      /\ \A e \in Client \ {c} : client'[e] = client[e]
  BY DEF TypeInv, ClientState, ClientPc
<1>01. /\ main.pc = "recv" /\ main'.pc = "woken" /\ main'.ret = 0 /\ main'.val = op
       /\ main'.whom = c /\ (main'.perm <=> op # "nopage")
       /\ client[c].req \in Req /\ op \in Op
  BY <1>0, Requests DEF TypeInv
<1>02. drv.req_whom = NONE /\ drv.reqva = NONE /\ ~drv.in_progress
  BY <1>01 DEF FlightInv, IdleInv, TypeInv, Driver
<1>03. /\ drv' \in Driver /\ drv'.in_progress = drv.in_progress /\ drv'.req_whom = NONE
       /\ drv'.reqva = IF op = "nopage" THEN NONE ELSE c
  <2>1. CASE op = "nopage"
    BY <2>1, <1>02 DEF TypeInv
  <2>2. CASE op # "nopage"
    BY <2>2, <1>02 DEF TypeInv, Driver
  <2> QED BY <2>1, <2>2
<1>1. TypeInv'
  <2>1. main' \in Main
    BY <1>01 DEF Main, MainPc
  <2>2. \A e \in Client : client'[e].pc # "idle" => client'[e].req \in Req
    BY <1>0, <1>01 DEF TypeInv
  <2> QED BY <2>1, <2>2, <1>0, <1>03 DEF TypeInv
<1>2. DeviceInv'
  BY SameDevices
<1>3. IdleInv'
  BY <1>01, <1>02, <1>03, SameQueue DEF IdleInv, AcksUsed
<1>4. FlightInv'
  BY <1>03 DEF FlightInv
<1>5. MainInv'
  <2>1. Untouched(c)'
    BY <1>0, SameData DEF ClientInv
  <2> QED BY <2>1, <1>0, <1>01, <1>03 DEF MainInv
<1>6. ClientInv'
  <2> SUFFICES ASSUME NEW e \in Client
               PROVE  /\ ~done[e].performed => done[e].result = NONE
                      /\ client'[e].pc # "idle" /\ client'[e].req.op = "write" => done[e].result = NONE
                      /\ client'[e].pc = "send" => Untouched(e)'
                      /\ client'[e].pc = "got" /\ IsDiskOp(client'[e].req.op) => Performed(e)'
    BY DEF ClientInv
  <2>1. CASE e = c
    BY <2>1, <1>0 DEF ClientInv
  <2>2. CASE e # c
    BY <2>2, <1>0, SameData DEF ClientInv
  <2> QED BY <2>1, <2>2
<1>7. CountInv'
  <2>1. Waiting' \subseteq Waiting
    BY <1>0, <1>01 DEF Waiting, Holds
  <2> QED BY <2>1, <1>1, FewerWait, SameQueue
<1> QED BY <1>1, <1>2, <1>3, <1>4, <1>5, <1>6, <1>7

\* A client waits for the answer to its own request.
LEMMA ReceiveStep == ASSUME WithinLimits, VirtioInv, NEW c \in Client, Receive(c) PROVE VirtioInv'
<1> USE Constants DEF VirtioInv, Receive, devices, clients
<1>0. /\ client[c].pc = "sent" /\ client'[c].pc = "recv" /\ client'[c].req = client[c].req
      /\ client' \in [Client -> ClientState]
      /\ \A e \in Client \ {c} : client'[e] = client[e]
  BY DEF TypeInv, ClientState, ClientPc
<1>01. \A e \in Client : client'[e].req = client[e].req
  BY <1>0
<1>1. TypeInv'
  <2>2. \A e \in Client : client'[e].pc # "idle" => client'[e].req \in Req
    BY <1>0 DEF TypeInv
  <2> QED BY <2>2, <1>0 DEF TypeInv
<1>2. DeviceInv'
  BY SameDevices
<1>3. IdleInv'
  BY SameQueue DEF IdleInv, AcksUsed
<1>4. FlightInv'
  <2> SUFFICES ASSUME NEW e \in Client, drv.req_whom = e
               PROVE  /\ main.pc = "spin" /\ drv.in_progress /\ drv.reqva = e
                      /\ client'[e].pc \in {"sent", "recv"} /\ IsDiskOp(client'[e].req.op)
                      /\ \/ Submitted(e)' /\ Untouched(e)' /\ handler.pc # "notify" /\ ~AcksUsed'
                         \/ Served(e)' /\ Performed(e)' /\ handler.pc # "notify" /\ ~AcksUsed'
                         \/ /\ blk.next = 2 /\ Quiesced' /\ Performed(e)'
                            /\ handler.pc = "notify" /\ "used" \in handler.seen /\ handler.success
    BY DEF FlightInv
  <2>1. client'[e].pc \in {"sent", "recv"} /\ client'[e].req = client[e].req
    BY <1>0 DEF FlightInv
  <2> QED BY <2>1, SameChain, SameData, SameQueue DEF FlightInv, AcksUsed
<1>5. MainInv'
  BY <1>0, <1>01, SameQueue, SameData DEF MainInv
<1>6. ClientInv'
  BY <1>0, <1>01, SameData DEF ClientInv
<1>7. CountInv'
  <2>1. Waiting' \subseteq Waiting
    BY <1>0 DEF Waiting, Holds
  <2> QED BY <2>1, <1>1, FewerWait, SameQueue
<1> QED BY <1>1, <1>2, <1>3, <1>4, <1>5, <1>6, <1>7

\* A client whose receive may be interrupted made no disk request.
LEMMA ClientInterruptedStep ==
    ASSUME WithinLimits, VirtioInv, NEW c \in Client, ClientInterrupted(c) PROVE VirtioInv'
<1> USE Constants DEF VirtioInv, ClientInterrupted, devices, clients
<1>0. /\ client[c].pc = "recv" /\ client'[c].pc = "idle" /\ client'[c].req = client[c].req
      /\ ~IsDiskOp(client[c].req.op)
      /\ client' \in [Client -> ClientState]
      /\ \A e \in Client \ {c} : client'[e] = client[e]
  BY DEF TypeInv, ClientState, ClientPc, WithinLimits, IsDiskOp
<1>01. drv.req_whom # c
  BY <1>0 DEF FlightInv
<1>1. TypeInv'
  <2>2. \A e \in Client : client'[e].pc # "idle" => client'[e].req \in Req
    BY <1>0 DEF TypeInv
  <2> QED BY <2>2, <1>0 DEF TypeInv
<1>2. DeviceInv'
  BY SameDevices
<1>3. IdleInv'
  BY SameQueue DEF IdleInv, AcksUsed
<1>4. FlightInv'
  BY <1>0, <1>01, OthersFly
<1>5. MainInv'
  BY <1>0, SameQueue, SameData DEF MainInv
<1>6. ClientInv'
  BY <1>0, SameData DEF ClientInv
<1>7. CountInv'
  <2>1. Waiting' \subseteq Waiting
    BY <1>0 DEF Waiting, Holds
  <2> QED BY <2>1, <1>1, FewerWait, SameQueue
<1> QED BY <1>1, <1>2, <1>3, <1>4, <1>5, <1>6, <1>7

\* A client returns with the result of its own request.
LEMMA ReturnFromStep == ASSUME WithinLimits, VirtioInv, NEW c \in Client, ReturnFrom(c) PROVE VirtioInv'
<1> USE Constants DEF VirtioInv, ReturnFrom, devices, clients
<1>0. /\ client[c].pc = "got" /\ client'[c].pc = "idle"
      /\ client' \in [Client -> ClientState]
      /\ done'[c].performed = FALSE /\ done'[c].result = NONE
      /\ \A e \in Client \ {c} : client'[e] = client[e] /\ page'[e] = page[e] /\ done'[e] = done[e]
  BY ZenonT(30) DEF TypeInv, ClientState, ClientPc
<1>01. drv.req_whom # c
  BY <1>0 DEF FlightInv
<1>1. TypeInv'
  <2>1. page' \in [Client -> PageState]
    BY DEF TypeInv, PageState, NoPage
  <2>2. done' \in [Client -> DoneState]
    BY DEF TypeInv, DoneState
  <2>3. got' \in [Client -> Nat \cup {NONE}]
    BY DEF TypeInv, PageState
  <2>4. \A e \in Client : client'[e].pc # "idle" => client'[e].req \in Req
    BY <1>0 DEF TypeInv
  <2> QED BY <2>1, <2>2, <2>3, <2>4, <1>0 DEF TypeInv
<1>2. DeviceInv'
  BY SameDevices
<1>3. IdleInv'
  BY SameQueue DEF IdleInv, AcksUsed
<1>4. FlightInv'
  BY <1>0, <1>01, OthersFly
<1>5. MainInv'
  BY <1>0, SameQueue, SameData DEF MainInv
<1>6. ClientInv'
  BY <1>0, SameData DEF ClientInv
<1>7. CountInv'
  <2>1. Waiting' \subseteq Waiting
    BY <1>0 DEF Waiting, Holds
  <2> QED BY <2>1, <1>1, FewerWait, SameQueue
<1> QED BY <1>1, <1>2, <1>3, <1>4, <1>5, <1>6, <1>7

-----------------------------------------------------------------------------
(* Probing.                                                                  *)

\* The reset of a queue gives a queue.
LEMMA QueueReset ==
    ASSUME NEW q \in Queue, NEW n \in Size
    PROVE  [q EXCEPT !.size = n, !.availIdx = 0, !.usedIdx = 0] \in Queue
<1>1. 0 \in 0 .. IdxMod - 1 /\ n \in Nat
  BY Constants DEF Size
<1> QED BY <1>1 DEF Queue

\* The queue is no longer than the driver's areas and has room for one chain.
LEMMA SizeTaken == ASSUME NEW max \in QueueSizeMax PROVE Min2(max, MAX_QUEUE_SIZE) \in Size
BY VirtioAssumption DEF Size, Min2

\* A step of the probing loop touches neither clients nor the request loop.
LEMMA ProbeStep == ASSUME WithinLimits, VirtioInv, virtio_dev_init PROVE VirtioInv'
<1> USE Constants DEF VirtioInv, virtio_dev_init, devices, clients
<1>0. /\ main.pc = "probe" /\ drv.req_whom = NONE /\ probe \in Dev /\ probe' = probe + 1
      /\ probe \in Nat /\ Quiesced /\ Q.availIdx = 0
  BY DEF FlightInv, TypeInv, Driver, Dev, IdleInv, MainInv
<1>01. PICK k \in Kind :
        /\ dev' = [dev EXCEPT ![probe].ready = (Status(k) = "driver_ok")]
        /\ \/ /\ Status(k) = "driver_ok" /\ blk.next <= MaxBlk
              /\ \E max \in QueueSizeMax : init_block_device(probe, max)
           \/ Status(k) # "driver_ok" /\ UNCHANGED <<blk, queue>>
  OBVIOUS
<1>02. /\ dev' \in [Dev -> Device] /\ (dev'[probe].ready <=> Status(k) = "driver_ok")
       /\ dev'[probe].avail = dev[probe].avail /\ dev'[probe].istatus = dev[probe].istatus
       /\ \A d \in Dev \ {probe} : dev'[d] = dev[d]
  <2>1. PICK ok \in BOOLEAN : ok <=> Status(k) = "driver_ok"
    OBVIOUS
  <2>2. dev' = [dev EXCEPT ![probe].ready = ok]
    BY <1>01, <2>1
  <2> QED BY <1>0, <2>1, <2>2 DEF TypeInv, Device
<1>03. blk.next \in {1, 2} /\ blk.virtio \in [Blk -> Dev] /\ probe' \in 0 .. NVirtio
  BY <1>0 DEF TypeInv, BlkTables
<1>1. CASE /\ Status(k) = "driver_ok" /\ blk.next <= MaxBlk
           /\ \E max \in QueueSizeMax : init_block_device(probe, max)
  <2>0. PICK max \in QueueSizeMax : init_block_device(probe, max)
    BY <1>1
  <2>01. PICK n \in Size : n = Min2(max, MAX_QUEUE_SIZE)
    BY SizeTaken
  <2>1. blk.next = 1 /\ \A d \in Dev : ~dev[d].ready /\ dev[d].avail = 0 /\ dev[d].istatus = {}
    BY <1>1, <1>03 DEF WithinLimits, DeviceInv
  <2>2. /\ blk'.next = 2 /\ blk'.virtio[1] = probe /\ blk'.handler = 1 /\ blk'.codes = {probe}
        /\ blk' \in BlkTables
    <3>1. PICK v : v = [blk.virtio EXCEPT ![1] = probe]
      OBVIOUS
    <3>2. v \in [Blk -> Dev] /\ v[1] = probe
      BY <1>0, <1>03, <3>1
    <3>4. blk.codes = {}
      BY <2>1 DEF DeviceInv
    <3>5. blk = [next |-> 1, virtio |-> blk.virtio, handler |-> blk.handler, codes |-> {}]
      BY <2>1, <3>4 DEF TypeInv, BlkTables
    <3>6. blk' = [blk EXCEPT !.next = @ + 1, !.virtio[1] = probe, !.handler = 1,
                             !.codes = @ \cup {probe}]
      BY <2>0, <2>1 DEF init_block_device
    <3>7. PICK w, h : blk = [next |-> 1, virtio |-> w, handler |-> h, codes |-> {}]
                      /\ v = [w EXCEPT ![1] = probe]
      BY <3>1, <3>5
    <3>8. {} \cup {probe} = {probe} /\ 1 + 1 = 2
      OBVIOUS
    <3>9. blk' = [next |-> 1 + 1, virtio |-> v, handler |-> 1, codes |-> {} \cup {probe}]
      BY <3>6, <3>7
    <3>3. blk' = [next |-> 2, virtio |-> v, handler |-> 1, codes |-> {probe}]
      BY <3>8, <3>9
    <3> QED BY <1>0, <3>2, <3>3 DEF TypeInv, BlkTables
  <2>02. queue' = [queue EXCEPT ![1].size = n, ![1].availIdx = 0, ![1].usedIdx = 0,
                                ![2].last_seen_idx = MAX_QUEUE_SIZE]
    <3>1. queue' = [queue EXCEPT ![blk.next].size = Min2(max, MAX_QUEUE_SIZE),
                                 ![blk.next].availIdx = 0, ![blk.next].usedIdx = 0,
                                 ![blk.next + 1].last_seen_idx = MAX_QUEUE_SIZE]
      BY ONLY <2>0, Zenon DEF init_block_device
    <3>2. blk.next = 1 /\ blk.next + 1 = 2
      BY <2>1
    <3> QED BY ONLY <3>1, <3>2, <2>01
  <2>3. /\ Q'.size = n /\ Q'.availIdx = 0 /\ Q'.usedIdx = 0
        /\ Q'.last_seen_idx = Q.last_seen_idx /\ Q'.occupied = Q.occupied
    <3>1. queue \in [Blk -> Queue] /\ 1 \in Blk /\ 2 \in Blk /\ queue[1] \in Queue
      BY DEF TypeInv
    <3>2. queue'[1] = [queue[1] EXCEPT !.size = n, !.availIdx = 0, !.usedIdx = 0]
      BY ONLY <3>1, <2>02
    <3> QED BY ONLY <3>1, <3>2 DEF Queue, Q
  <2>4. queue' \in [Blk -> Queue]
    <3>1. PICK q : q = [queue EXCEPT ![1].size = n, ![1].availIdx = 0, ![1].usedIdx = 0]
      OBVIOUS
    <3>0. queue[1] \in Queue
      BY DEF TypeInv
    <3>01. [queue[1] EXCEPT !.size = n, !.availIdx = 0, !.usedIdx = 0] \in Queue
      BY <3>0, QueueReset
    <3>2. q \in [Blk -> Queue]
      BY <3>1, <3>01 DEF TypeInv
    <3>3. queue' = [q EXCEPT ![2].last_seen_idx = MAX_QUEUE_SIZE]
      BY <3>1, <2>02 DEF TypeInv
    <3>4. q[2] \in Queue
      BY <3>2
    <3>5. [q[2] EXCEPT !.last_seen_idx = MAX_QUEUE_SIZE] \in Queue
      BY <3>4 DEF Queue
    <3> QED BY <3>2, <3>3, <3>5
  <2>5. TypeInv'
    BY <1>02, <1>03, <2>2, <2>4 DEF TypeInv
  <2>6. dev'[probe].ready /\ TheDev' = dev'[probe]
    BY <1>02, <1>1, <2>2 DEF TheDev
  <2>7. DeviceInv'
    <3>1. ASSUME NEW d \in Dev
          PROVE  /\ dev'[d].ready => blk'.next = 2 /\ d = blk'.virtio[1]
                 /\ ~dev'[d].ready => dev'[d].avail = 0 /\ dev'[d].istatus = {}
      BY <1>02, <2>1, <2>2
    <3>2. blk'.virtio[1] < probe'
      BY <1>0, <2>2
    <3> QED BY <3>1, <3>2, <2>2, <2>3, <2>6 DEF DeviceInv
  <2>8. Quiesced'
    BY <1>0, <1>02, <2>1, <2>2, <2>3, <2>6 DEF Quiesced
  <2>9. IdleInv'
    BY <1>0, <1>02, <2>1, <2>6, <2>8 DEF IdleInv
  <2>10. FlightInv' /\ MainInv'
    BY <1>0, <2>3 DEF FlightInv, MainInv
  <2>11. ClientInv'
    BY DEF ClientInv, Untouched, Performed
  <2>12. CountInv'
    <3>1. Waiting' \subseteq Waiting
      BY DEF Waiting, Holds
    <3> QED BY <3>1, <1>0, <2>3, <2>5, FewerWait
  <2> QED BY <2>5, <2>7, <2>9, <2>10, <2>11, <2>12
<1>2. CASE Status(k) # "driver_ok" /\ UNCHANGED <<blk, queue>>
  <2>1. TypeInv'
    BY <1>02, <1>03, <1>2 DEF TypeInv
  <2>2. Q' = Q
    BY <1>2 DEF Q
  <2>3. ~dev[probe].ready /\ (blk.next = 2 => TheDev' = TheDev)
    <3>1. CASE blk.next = 2
      <4>1. blk.virtio[1] # probe /\ blk.virtio[1] \in Dev
        BY <1>0, <1>03, <3>1 DEF DeviceInv, Dev
      <4> QED BY <1>0, <4>1, <1>02, <1>2 DEF DeviceInv, TheDev
    <3>2. CASE blk.next = 1
      BY <3>2, <1>0 DEF DeviceInv
    <3> QED BY <3>1, <3>2, <1>03
  <2>4. DeviceInv'
    <3>1. ASSUME NEW d \in Dev
          PROVE  /\ dev'[d].ready => blk'.next = 2 /\ d = blk'.virtio[1]
                 /\ ~dev'[d].ready => dev'[d].avail = 0 /\ dev'[d].istatus = {}
      BY <1>02, <1>2, <2>3 DEF DeviceInv
    <3>2. blk.next = 2 => blk.virtio[1] < probe'
      <4>1. blk.virtio[1] \in Nat
        BY <1>03 DEF Dev
      <4> QED BY <1>0, <4>1 DEF DeviceInv
    <3> QED BY <3>1, <3>2, <1>2, <2>2, <2>3 DEF DeviceInv
  <2>5. IdleInv'
    BY <1>0, <1>2, <2>2, <2>3 DEF IdleInv, Quiesced, AcksUsed
  <2>6. FlightInv' /\ MainInv'
    BY <1>0, <2>2 DEF FlightInv, MainInv
  <2>7. ClientInv'
    BY DEF ClientInv, Untouched, Performed
  <2>8. CountInv'
    <3>1. Waiting' \subseteq Waiting
      BY DEF Waiting, Holds
    <3> QED BY <3>1, <2>2, <2>1, FewerWait
  <2> QED BY <2>1, <2>4, <2>5, <2>6, <2>7, <2>8
<1> QED BY <1>01, <1>1, <1>2

-----------------------------------------------------------------------------
(* A request enters the queue.                                               *)

\* There is a third descriptor.
LEMMA ThirdDesc == ASSUME NEW x, NEW y PROVE \E z \in Desc : z # x /\ z # y
<1>1. \/ 0 # x /\ 0 # y
      \/ 1 # x /\ 1 # y
      \/ 2 # x /\ 2 # y
  OBVIOUS
<1>2. 0 \in Desc /\ 1 \in Desc /\ 2 \in Desc
  BY Constants
<1> QED BY <1>1, <1>2

\* The chain of three descriptors that block_cmd builds in an empty queue.
LEMMA ChainEffect ==
    ASSUME NEW q \in Queue, q.occupied = {}, q.availIdx \in Idx, NEW c \in Client,
           main \in Main, page \in [Client -> PageState]
    PROVE  /\ Chain(q, c) \in Queue /\ Chain(q, c).availIdx = q.availIdx + 1
           /\ Chain(q, c).size = q.size /\ Chain(q, c).used = q.used
           /\ Chain(q, c).usedIdx = q.usedIdx /\ Chain(q, c).last_seen_idx = q.last_seen_idx
           /\ \E d1, d2, d3 \in Desc :
                /\ d1 = 0 /\ Chain(q, c).occupied = {d1, d2, d3}
                /\ Chain(q, c).desc[d1].what = "header" /\ Chain(q, c).desc[d1].next = d2
                /\ Chain(q, c).desc[d1].type = main.val /\ Chain(q, c).desc[d1].sector = page[c].head
                /\ Chain(q, c).desc[d2].what = "data" /\ Chain(q, c).desc[d2].of = c
                /\ Chain(q, c).desc[d2].next = d3 /\ Chain(q, c).desc[d3].what = "status"
<1> USE Constants
<1>0. PICK d1 : d1 = LowestOf(FreeDesc(q))
  OBVIOUS
<1>1. PICK q1 : q1 = allocate_desc(q)
  OBVIOUS
<1>2. PICK d2 : d2 = LowestOf(FreeDesc(q1))
  OBVIOUS
<1>3. PICK q2 : q2 = allocate_desc(q1)
  OBVIOUS
<1>4. PICK d3 : d3 = LowestOf(FreeDesc(q2))
  OBVIOUS
<1>5. PICK q3 : q3 = allocate_desc(q2)
  OBVIOUS
<1>d. Desc \in SUBSET Nat
  BY DEF Desc
<1>6. d1 \in Desc /\ d1 = 0
  <2>1. FreeDesc(q) = Desc
    BY DEF FreeDesc
  <2>2. d1 \in Desc /\ d1 <= 0
    BY <1>0, <2>1, <1>d, Lowest
  <2> QED BY <2>2 DEF Desc
<1>7. q1 \in Queue /\ q1.occupied = {d1} /\ q1 = [q EXCEPT !.occupied = {d1}]
  <2>1. q1 = [q EXCEPT !.occupied = {d1}]
    BY <1>0, <1>1 DEF allocate_desc
  <2> QED BY <2>1, <1>6 DEF Queue
<1>8. d2 \in Desc /\ d2 # d1
  <2>1. FreeDesc(q1) = Desc \ {d1}
    BY <1>7 DEF FreeDesc
  <2>2. Desc \ {d1} # {} /\ Desc \ {d1} \in SUBSET Nat
    <3>1. \E z \in Desc : z # d1 /\ z # d1
      BY ThirdDesc
    <3> QED BY <1>d, <3>1
  <2> QED BY <1>2, <2>1, <2>2, Lowest
<1>9. q2 \in Queue /\ q2.occupied = {d1, d2} /\ q2 = [q EXCEPT !.occupied = {d1, d2}]
  <2>1. q2 = [q1 EXCEPT !.occupied = {d1} \cup {d2}]
    BY <1>2, <1>3, <1>7 DEF allocate_desc
  <2>2. {d1} \cup {d2} = {d1, d2}
    OBVIOUS
  <2>3. q2 = [q EXCEPT !.occupied = {d1, d2}]
    BY <2>1, <2>2, <1>7 DEF Queue
  <2> QED BY <2>3, <1>6, <1>8 DEF Queue
<1>10. d3 \in Desc /\ d3 # d1 /\ d3 # d2
  <2>1. FreeDesc(q2) = Desc \ {d1, d2}
    BY <1>9 DEF FreeDesc
  <2>2. Desc \ {d1, d2} # {} /\ Desc \ {d1, d2} \in SUBSET Nat
    <3>1. \E z \in Desc : z # d1 /\ z # d2
      BY ThirdDesc
    <3> QED BY <1>d, <3>1
  <2> QED BY <1>4, <2>1, <2>2, Lowest
<1>11. q3 = [q EXCEPT !.occupied = {d1, d2, d3}]
  <2>1. q3 = [q2 EXCEPT !.occupied = {d1, d2} \cup {d3}]
    BY <1>4, <1>5, <1>9 DEF allocate_desc
  <2>2. {d1, d2} \cup {d3} = {d1, d2, d3}
    OBVIOUS
  <2> QED BY <2>1, <2>2, <1>9 DEF Queue
<1>12. PICK e1, e2, e3 :
        /\ e1 = [what |-> "header", of |-> c, next |-> d2, type |-> main.val, sector |-> page[c].head]
        /\ e2 = [q.desc[d2] EXCEPT !.what = "data", !.of = c, !.next = d3]
        /\ e3 = [q.desc[d3] EXCEPT !.what = "status", !.of = c]
  OBVIOUS
<1>13. /\ e1 \in DescOf /\ e1.what = "header" /\ e1.next = d2 /\ e1.type = main.val
       /\ e1.sector = page[c].head
  BY <1>12, <1>8 DEF DescOf, Main, PageState
<1>17. q.desc \in [Desc -> DescOf] /\ q.avail \in [Desc -> {0}]
  BY DEF Queue
<1>14. e2 \in DescOf /\ e2.what = "data" /\ e2.of = c /\ e2.next = d3
  <2>1. PICK o \in DescOf : o = q.desc[d2]
    BY <1>8, <1>17
  <2>2. e2 = [o EXCEPT !.what = "data", !.of = c, !.next = d3]
    BY <1>12, <2>1
  <2> QED BY <2>2, <1>10 DEF DescOf
<1>15. e3 \in DescOf /\ e3.what = "status"
  <2>1. PICK o \in DescOf : o = q.desc[d3]
    BY <1>10, <1>17
  <2>2. e3 = [o EXCEPT !.what = "status", !.of = c]
    BY <1>12, <2>1
  <2> QED BY <2>2 DEF DescOf
<1>16. PICK t : t = [q.desc EXCEPT ![d1] = e1, ![d2] = e2, ![d3] = e3]
  OBVIOUS
<1>18. t \in [Desc -> DescOf] /\ t[d1] = e1 /\ t[d2] = e2 /\ t[d3] = e3
  BY <1>6, <1>8, <1>10, <1>13, <1>14, <1>15, <1>16, <1>17
<1>19. PICK a : a = IF q.availIdx \in Desc THEN [q.avail EXCEPT ![q.availIdx] = d1] ELSE q.avail
  OBVIOUS
<1>20. a \in [Desc -> {0}]
  BY <1>6, <1>17, <1>19
<1>21. (q.availIdx + 1) % IdxMod = q.availIdx + 1 /\ q.availIdx + 1 \in 0 .. IdxMod - 1
  <2>1. q.availIdx + 1 \in Nat /\ q.availIdx + 1 < IdxMod
    BY DEF Idx
  <2> QED BY <2>1, NoWrap
<1>22. Chain(q, c) = [q3 EXCEPT !.desc = t, !.avail = a, !.availIdx = q.availIdx + 1]
  <2>1. q3.desc = q.desc /\ q3.avail = q.avail /\ q3.availIdx = q.availIdx /\ q3 \in Queue
    BY <1>11, <1>6, <1>8, <1>10 DEF Queue
  <2>2. Chain(q, c) =
            [q3 EXCEPT
                !.desc[d1] = e1, !.desc[d2] = [@ EXCEPT !.what = "data", !.of = c, !.next = d3],
                !.desc[d3] = [@ EXCEPT !.what = "status", !.of = c],
                !.avail = IF q.availIdx \in Desc THEN [@ EXCEPT ![q.availIdx] = d1] ELSE @,
                !.availIdx = (@ + 1) % IdxMod]
    BY <1>0, <1>1, <1>2, <1>3, <1>4, <1>5, <1>12 DEF Chain
  <2>3. t = [q.desc EXCEPT ![d1] = e1, ![d2] = [@ EXCEPT !.what = "data", !.of = c, !.next = d3],
                           ![d3] = [@ EXCEPT !.what = "status", !.of = c]]
    BY <1>6, <1>8, <1>10, <1>12, <1>16, <1>17
  <2>4. PICK n, o, d, v, i, u, j, l :
            q3 = [size |-> n, occupied |-> o, desc |-> d, avail |-> v, availIdx |-> i,
                  used |-> u, usedIdx |-> j, last_seen_idx |-> l]
    BY <2>1 DEF Queue
  <2>5. d = q.desc /\ v = q.avail /\ i = q.availIdx
    BY <2>1, <2>4
  <2>6. Chain(q, c) = [q3 EXCEPT !.desc = t, !.avail = a, !.availIdx = (q.availIdx + 1) % IdxMod]
    <3>1. CASE q.availIdx \in Desc
      <4>1. a = [q.avail EXCEPT ![q.availIdx] = d1]
        BY <3>1, <1>19
      <4>2. Chain(q, c) =
            [q3 EXCEPT
                !.desc[d1] = e1, !.desc[d2] = [@ EXCEPT !.what = "data", !.of = c, !.next = d3],
                !.desc[d3] = [@ EXCEPT !.what = "status", !.of = c],
                !.avail = [@ EXCEPT ![q.availIdx] = d1], !.availIdx = (@ + 1) % IdxMod]
        BY <3>1, <2>2
      <4> QED BY <4>1, <4>2, <2>3, <2>4, <2>5, ZenonT(60)
    <3>2. CASE q.availIdx \notin Desc
      <4>1. a = q.avail
        BY <3>2, <1>19
      <4>2. Chain(q, c) =
            [q3 EXCEPT
                !.desc[d1] = e1, !.desc[d2] = [@ EXCEPT !.what = "data", !.of = c, !.next = d3],
                !.desc[d3] = [@ EXCEPT !.what = "status", !.of = c],
                !.avail = @, !.availIdx = (@ + 1) % IdxMod]
        BY <3>2, <2>2
      <4> QED BY <4>1, <4>2, <2>3, <2>4, <2>5, ZenonT(30)
    <3> QED BY <3>1, <3>2
  <2> QED BY <2>6, <1>21
<1>23. PICK h : h = [q3 EXCEPT !.desc = t, !.avail = a, !.availIdx = q.availIdx + 1]
  OBVIOUS
<1>24. /\ h \in Queue /\ h.availIdx = q.availIdx + 1 /\ h.size = q.size /\ h.used = q.used
       /\ h.usedIdx = q.usedIdx /\ h.last_seen_idx = q.last_seen_idx
       /\ h.desc = t /\ h.avail = a /\ h.occupied = {d1, d2, d3}
  BY <1>6, <1>8, <1>10, <1>11, <1>18, <1>20, <1>21, <1>23 DEF Queue
<1>25. \E x1, x2, x3 \in Desc :
        /\ x1 = 0 /\ h.occupied = {x1, x2, x3}
        /\ h.desc[x1].what = "header" /\ h.desc[x1].next = x2
        /\ h.desc[x1].type = main.val /\ h.desc[x1].sector = page[c].head
        /\ h.desc[x2].what = "data" /\ h.desc[x2].of = c
        /\ h.desc[x2].next = x3 /\ h.desc[x3].what = "status"
  BY <1>6, <1>8, <1>10, <1>13, <1>14, <1>15, <1>18, <1>20, <1>24
<1>26. Chain(q, c) = h
  BY <1>22, <1>23
<1> QED BY <1>24, <1>25, <1>26

\* The main loop passes a valid request to block_cmd, which finds the queue empty.
LEMMA ServeStep == ASSUME WithinLimits, VirtioInv, Serve PROVE VirtioInv'
<1> USE Constants DEF VirtioInv
<1>w. PICK w : w = main.whom
  OBVIOUS
<1>0. /\ main.pc = "check" /\ main.ret = 0 /\ handler.pc = "none" /\ main.val \in {"read", "write"}
      /\ w \in Client /\ client[w].pc \in {"sent", "recv"} /\ client[w].req.op = main.val
      /\ Untouched(w) /\ drv.reqva = w /\ drv.req_whom = NONE /\ client[w].req \in Req
  <2>1. main.pc = "check" /\ main.ret = 0 /\ handler.pc = "none" /\ main.val # "nofunc" /\ main.perm
    BY DEF Serve, Running, Valid
  <2>2. main.val \in {"read", "write"}
    BY <2>1 DEF MainInv, TypeInv, Main, Op
  <2>3. /\ w \in Client /\ client[w].pc \in {"sent", "recv"} /\ client[w].req.op = main.val
        /\ Untouched(w) /\ drv.reqva = w /\ drv.req_whom = NONE
    BY <2>1, <2>2, <1>w DEF MainInv, IsDiskOp
  <2> QED BY <2>1, <2>2, <2>3 DEF TypeInv
<1>1. /\ Quiesced /\ drv.in_progress /\ (blk.next = 2 => "used" \notin TheDev.istatus)
  BY <1>0 DEF IdleInv, AcksUsed
<1>2. /\ UNCHANGED <<dev, disk, handler, probe, blk, client, page, got, done, calls>>
      /\ main'.pc = "spin" /\ main' \in Main /\ main' = MainAt("spin")
  BY DEF Serve, devices, clients, MainAt, Main, MainPc, Op
<1>3. Q \in Queue /\ Q.occupied = {} /\ 1 \in Blk /\ Q.availIdx \in Nat /\ calls <= MaxCalls
      /\ calls \in Nat
  BY <1>1 DEF TypeInv, Q, Quiesced, Queue
<1>4. Cardinality(FreeDesc(Q)) = MAX_QUEUE_SIZE
  <2>1. FreeDesc(Q) = 0 .. MAX_QUEUE_SIZE - 1
    BY <1>3 DEF FreeDesc, Desc
  <2>2. Cardinality(0 .. MAX_QUEUE_SIZE - 1) =
            IF 0 > MAX_QUEUE_SIZE - 1 THEN 0 ELSE (MAX_QUEUE_SIZE - 1) - 0 + 1
    BY FS_Interval
  <2> QED BY <2>1, <2>2
<1>5. queue' = [queue EXCEPT ![1] = Chain(Q, w)] /\ drv' = [drv EXCEPT !.req_whom = w]
  <2>1. ~(Cardinality(FreeDesc(queue[1])) < 3)
    BY <1>4 DEF Q
  <2> QED BY <2>1, <1>w DEF Serve, block_cmd, Q
<1>6. w \in Waiting /\ Waiting' \subseteq Waiting \ {w}
  BY <1>w, <1>0, <1>2 DEF Waiting, Holds, IsDiskOp
<1>7. Cardinality(Waiting') + 1 <= Cardinality(Waiting) /\ Cardinality(Waiting') \in Nat
      /\ Cardinality(Waiting) \in Nat
  BY <1>6, WaitingFinite, OneLess
<1>8. Q.availIdx \in Idx
  BY <1>3, <1>7 DEF CountInv, WithinLimits, Idx
<1>9. PICK h : h = Chain(Q, w)
  OBVIOUS
<1>10. /\ h \in Queue /\ h.availIdx = Q.availIdx + 1
       /\ h.size = Q.size /\ h.used = Q.used
       /\ h.usedIdx = Q.usedIdx /\ h.last_seen_idx = Q.last_seen_idx
       /\ \E d1, d2, d3 \in Desc :
            /\ d1 = 0 /\ h.occupied = {d1, d2, d3}
            /\ h.desc[d1].what = "header" /\ h.desc[d1].next = d2
            /\ h.desc[d1].type = main.val /\ h.desc[d1].sector = page[w].head
            /\ h.desc[d2].what = "data" /\ h.desc[d2].of = w
            /\ h.desc[d2].next = d3 /\ h.desc[d3].what = "status"
  <2>1. PICK q \in Queue : q = Q
    BY <1>3
  <2>2. main \in Main /\ page \in [Client -> PageState]
    BY DEF TypeInv
  <2>3. h = Chain(q, w)
    BY <1>9, <2>1
  <2>4. q.occupied = {} /\ q.availIdx \in Idx
    BY <1>3, <1>8, <2>1
  <2> QED BY <1>0, <2>1, <2>2, <2>3, <2>4, ChainEffect
<1>11. Q' = h
  BY <1>3, <1>5, <1>9 DEF TypeInv, Q
<1>12. TypeInv'
  <2>1. queue' \in [Blk -> Queue]
    BY <1>5, <1>9, <1>10 DEF TypeInv
  <2>2. drv' \in Driver
    BY <1>0, <1>5 DEF TypeInv, Driver
  <2> QED BY <1>2, <2>1, <2>2 DEF TypeInv
<1>13. DeviceInv'
  BY <1>2, <1>10, <1>11 DEF DeviceInv, TheDev
<1>14. drv'.req_whom = w /\ drv'.in_progress /\ drv'.reqva = w
  BY <1>0, <1>1, <1>5 DEF TypeInv, Driver
<1>15. IdleInv'
  BY <1>0, <1>14 DEF IdleInv
<1>16. ChainOf(Q, w)'
  <2>1. h.availIdx - 1 = Q.availIdx
    BY <1>3, <1>10
  <2> QED BY <1>0, <1>2, <1>8, <1>10, <1>11, <2>1 DEF ChainOf, Untouched
<1>17. Submitted(w)'
  <2>1. Q'.availIdx - 1 = Q.availIdx
    BY <1>3, <1>10, <1>11
  <2> QED BY <1>1, <1>2, <1>10, <1>11, <1>16, <2>1 DEF Submitted, Quiesced, TheDev
<1>18. FlightInv'
  <2>1. Untouched(w)'
    BY <1>0, <1>2, SameData
  <2> QED BY <1>0, <1>2, <1>14, <1>17, <2>1 DEF FlightInv, AcksUsed, IsDiskOp
<1>19. MainInv'
  BY <1>2 DEF MainInv
<1>20. ClientInv'
  BY <1>2 DEF ClientInv, Untouched, Performed
<1>21. CountInv'
  BY <1>2, <1>3, <1>7, <1>10, <1>11 DEF CountInv
<1> QED BY <1>12, <1>13, <1>15, <1>18, <1>19, <1>20, <1>21

-----------------------------------------------------------------------------
(* The interrupt of the used ring.                                           *)

\* handle_used takes the one chain in the queue back.
LEMMA HandleAllEffect ==
    ASSUME NEW q \in Queue, q.size \in Size, q.availIdx - 1 \in Idx,
           q.usedIdx = q.availIdx, q.last_seen_idx = q.availIdx - 1,
           NEW d2 \in Desc, NEW d3 \in Desc, q.occupied = {0, d2, d3},
           q.desc[0].what = "header", q.desc[0].next = d2, q.desc[d2].what = "data",
           q.desc[d2].next = d3, q.desc[d3].what = "status"
    PROVE  /\ HandleAll(q).ok /\ HandleAll(q).q \in Queue /\ HandleAll(q).q.occupied = {}
           /\ HandleAll(q).q.last_seen_idx = q.usedIdx /\ HandleAll(q).q.usedIdx = q.usedIdx
           /\ HandleAll(q).q.availIdx = q.availIdx /\ HandleAll(q).q.size = q.size
<1> USE Constants
<1>1. PICK i \in Nat : i = q.availIdx - 1 /\ q.usedIdx = i + 1
  BY DEF Idx, Queue
<1>2. Pending(q) = {i}
  BY <1>1 DEF Pending
<1>3. i % q.size \in Desc
  BY <1>1, InRing
<1>4. PICK r : r = [ok |-> TRUE, q |-> [q EXCEPT !.occupied = @ \ {0, d2, d3}]]
  OBVIOUS
<1>5. handle_used(q, i) = r
  <2>1. q.used[i % q.size] = 0
    BY <1>3 DEF Queue
  <2> QED BY <1>4, <2>1 DEF handle_used
<1>6. {handle_used(q, j) : j \in Pending(q)} = {r}
  BY <1>2, <1>5
<1>7. r.ok /\ r.q.occupied = {}
  BY <1>4 DEF Queue
<1>8. {d \in q.occupied : \A s \in {r} : d \in s.q.occupied} = {}
  BY <1>7
<1>9. HandleAll(q) = [ok |-> \A s \in {r} : s.ok,
                      q |-> [q EXCEPT !.occupied = {}, !.last_seen_idx = q.usedIdx]]
  BY <1>6, <1>8 DEF HandleAll
<1>10. PICK g : g = [q EXCEPT !.occupied = {}, !.last_seen_idx = q.usedIdx]
  OBVIOUS
<1>11. /\ g \in Queue /\ g.occupied = {} /\ g.last_seen_idx = q.usedIdx /\ g.usedIdx = q.usedIdx
       /\ g.availIdx = q.availIdx /\ g.size = q.size
  <2>1. q.usedIdx \in Nat /\ {} \in SUBSET Desc
    BY <1>1
  <2>2. PICK n : n = q.usedIdx
    OBVIOUS
  <2>3. g = [q EXCEPT !.occupied = {}, !.last_seen_idx = n] /\ n \in Nat
    BY <1>10, <2>1, <2>2
  <2>4. PICK k \in Queue : k = q
    OBVIOUS
  <2>5. [k EXCEPT !.occupied = {}, !.last_seen_idx = n] \in Queue
    BY <2>1, <2>3 DEF Queue
  <2> QED BY <2>2, <2>3, <2>4, <2>5 DEF Queue
<1>12. HandleAll(q).q = g /\ HandleAll(q).ok
  BY <1>7, <1>9, <1>10
<1> QED BY <1>11, <1>12

\* The handler finds the request that the disk has served, or only the other cause.
LEMMA HandleStep == ASSUME WithinLimits, VirtioInv, handle_block_interrupt PROVE VirtioInv'
<1> USE Constants DEF VirtioInv
<1>0. /\ handler.pc = "entry" /\ blk.next = 2 /\ blk.handler = 1 /\ HandlerDev = blk.virtio[1]
      /\ blk.virtio[1] \in Dev /\ Q \in Queue /\ ~AcksUsed
      /\ UNCHANGED <<dev, disk, main, drv, probe, blk, client, page, got, done, calls>>
  BY DEF handle_block_interrupt, DeviceInv, TypeInv, BlkTables, HandlerDev, Q, AcksUsed,
         devices, clients
<1>1. TheDev = dev[HandlerDev]
  BY <1>0 DEF TheDev
<1>2. CASE "used" \in TheDev.istatus
  <2>1. PICK w \in Client : drv.req_whom = w
    BY <1>0, <1>2 DEF IdleInv, TypeInv, Driver
  <2>2. Served(w) /\ Performed(w) /\ main.pc = "spin" /\ Q.size \in Size
    BY <1>0, <1>2, <2>1 DEF FlightInv, Submitted, DeviceInv
  <2>3. /\ queue' = [queue EXCEPT ![1] = HandleAll(Q).q]
        /\ handler' = [pc |-> "notify", seen |-> TheDev.istatus, success |-> HandleAll(Q).ok]
    BY <1>0, <1>1, <1>2 DEF handle_block_interrupt, Q
  <2>4. /\ HandleAll(Q).ok /\ HandleAll(Q).q \in Queue /\ HandleAll(Q).q.occupied = {}
        /\ HandleAll(Q).q.last_seen_idx = Q.usedIdx /\ HandleAll(Q).q.usedIdx = Q.usedIdx
        /\ HandleAll(Q).q.availIdx = Q.availIdx /\ HandleAll(Q).q.size = Q.size
    <3>1. PICK q \in Queue : q = Q
      BY <1>0
    <3>2. PICK d2 \in Desc, d3 \in Desc :
            /\ q.occupied = {0, d2, d3}
            /\ q.desc[0].what = "header" /\ q.desc[0].next = d2
            /\ q.desc[d2].what = "data" /\ q.desc[d2].next = d3 /\ q.desc[d3].what = "status"
      BY <2>2, <3>1 DEF Served, ChainOf
    <3>3. /\ q.availIdx - 1 \in Idx /\ q.usedIdx = q.availIdx /\ q.last_seen_idx = q.availIdx - 1
          /\ q.size \in Size
      BY <2>2, <3>1 DEF Served, ChainOf
    <3>4. /\ HandleAll(q).ok /\ HandleAll(q).q \in Queue /\ HandleAll(q).q.occupied = {}
          /\ HandleAll(q).q.last_seen_idx = q.usedIdx /\ HandleAll(q).q.usedIdx = q.usedIdx
          /\ HandleAll(q).q.availIdx = q.availIdx /\ HandleAll(q).q.size = q.size
      BY <3>2, <3>3, HandleAllEffect
    <3> QED BY <3>1, <3>4
  <2>5. Q' = HandleAll(Q).q
    BY <2>3 DEF TypeInv, Q
  <2>6. /\ handler'.pc = "notify" /\ "used" \in handler'.seen /\ handler'.success
        /\ handler' \in HandlerState
    <3>1. TheDev.istatus \in SUBSET Cause
      BY <1>0 DEF TypeInv, Device, TheDev
    <3>2. PICK st, ok : st = TheDev.istatus /\ ok = TRUE /\ ok = HandleAll(Q).ok
      <4>1. HandleAll(Q).ok = TRUE
        BY <2>4 DEF HandleAll
      <4> QED BY <4>1
    <3>3. handler' = [pc |-> "notify", seen |-> st, success |-> TRUE]
      BY <2>3, <3>2
    <3> QED BY <1>2, <3>1, <3>2, <3>3 DEF HandlerState, HandlerPc
  <2>7. TypeInv'
    <3>1. queue' \in [Blk -> Queue]
      BY <2>3, <2>4 DEF TypeInv
    <3> QED BY <1>0, <2>6, <3>1 DEF TypeInv
  <2>8. DeviceInv'
    BY <1>0, <2>4, <2>5 DEF DeviceInv, TheDev
  <2>9. Quiesced'
    BY <1>0, <2>2, <2>4, <2>5 DEF Quiesced, Served, TheDev
  <2>10. IdleInv'
    BY <1>0, <2>1 DEF IdleInv
  <2>11. Performed(w)'
    BY <1>0, <2>2, SameData
  <2>12. FlightInv'
    BY <1>0, <2>1, <2>6, <2>9, <2>11 DEF FlightInv
  <2>13. MainInv'
    BY <1>0, <2>2 DEF MainInv
  <2>14. ClientInv'
    BY <1>0 DEF ClientInv, Untouched, Performed
  <2>15. CountInv'
    <3>1. Waiting' \subseteq Waiting
      BY <1>0 DEF Waiting, Holds
    <3> QED BY <1>0, <2>4, <2>5, <2>7, <3>1, FewerWait
  <2> QED BY <2>7, <2>8, <2>10, <2>12, <2>13, <2>14, <2>15
<1>3. CASE "used" \notin TheDev.istatus
  <2>1. queue' = queue /\ handler' = [handler EXCEPT !.pc = "ack", !.seen = TheDev.istatus]
    BY <1>0, <1>1, <1>3 DEF handle_block_interrupt, Q
  <2>2. handler'.pc = "ack" /\ "used" \notin handler'.seen /\ handler' \in HandlerState
    <3>1. TheDev.istatus \in SUBSET Cause
      BY <1>0 DEF TypeInv, Device, TheDev
    <3> QED BY <1>3, <2>1, <3>1 DEF TypeInv, HandlerState, HandlerPc
  <2>3. TypeInv'
    BY <1>0, <2>1, <2>2 DEF TypeInv
  <2>4. DeviceInv'
    BY <1>0, <2>1, SameDevices
  <2>5. Q' = Q /\ TheDev' = TheDev /\ (Quiesced' <=> Quiesced)
    BY <1>0, <2>1, SameQueue
  <2>6. IdleInv'
    BY <1>0, <1>3, <2>2, <2>5 DEF IdleInv
  <2>7. FlightInv'
    <3> SUFFICES ASSUME NEW c \in Client, drv.req_whom = c
                 PROVE  /\ main.pc = "spin" /\ drv.in_progress /\ drv.reqva = c
                        /\ client[c].pc \in {"sent", "recv"} /\ IsDiskOp(client[c].req.op)
                        /\ \/ Submitted(c)' /\ Untouched(c)' /\ handler'.pc # "notify" /\ ~AcksUsed'
                           \/ Served(c)' /\ Performed(c)' /\ handler'.pc # "notify" /\ ~AcksUsed'
      BY <1>0 DEF FlightInv
    <3>1. client'[c].req = client[c].req /\ page'[c] = page[c] /\ done'[c] = done[c]
      BY <1>0
    <3> QED BY <1>0, <2>1, <2>2, <3>1, SameChain, SameData DEF FlightInv, AcksUsed
  <2>8. MainInv'
    BY <1>0, <2>5 DEF MainInv, Untouched
  <2>9. ClientInv'
    BY <1>0 DEF ClientInv, Untouched, Performed
  <2>10. CountInv'
    <3>1. Waiting' \subseteq Waiting
      BY <1>0 DEF Waiting, Holds
    <3> QED BY <1>0, <2>3, <2>5, <3>1, FewerWait
  <2> QED BY <2>3, <2>4, <2>6, <2>7, <2>8, <2>9, <2>10
<1> QED BY <1>2, <1>3

-----------------------------------------------------------------------------
(* The disk.                                                                 *)

\* A request that the disk has not taken is that of the client in progress, and the
\* disk finds its header and its page.
LEMMA DiskFinds ==
    ASSUME WithinLimits, VirtioInv, NEW b \in Blk, DiskServes(b)
    PROVE  /\ b = 1 /\ blk.next = 2
           /\ \E c \in Client, i \in Idx, d1 \in Desc, d2 \in Desc, d3 \in Desc :
                /\ drv.req_whom = c /\ Submitted(c) /\ Untouched(c) /\ client[c].req \in Req
                /\ client[c].pc \in {"sent", "recv"} /\ IsDiskOp(client[c].req.op)
                /\ Q.availIdx = i + 1 /\ TheDev.avail = i /\ Q.usedIdx = i
                /\ i % Q.size \in Desc /\ (i + 1) % IdxMod = i + 1
                /\ d1 = 0 /\ Q.occupied = {d1, d2, d3}
                /\ Q.desc[d1].what = "header" /\ Q.desc[d1].next = d2
                /\ Q.desc[d1].type = client[c].req.op /\ Q.desc[d1].sector = client[c].req.sector
                /\ Q.desc[d2].what = "data" /\ Q.desc[d2].of = c /\ Q.desc[d2].next = d3
                /\ Q.desc[d3].what = "status"
<1> USE Constants DEF VirtioInv
<1>1. b = 1 /\ blk.next = 2
  <2>1. b < blk.next
    BY DEF DiskServes
  <2>2. b \in Nat /\ b >= 1 /\ blk.next \in {1, 2}
    BY DEF Blk, TypeInv, BlkTables
  <2> QED BY <2>1, <2>2
<1>2. TheDev.avail # Q.availIdx
  BY <1>1 DEF DiskServes, TheDev, Q
<1>3. PICK c \in Client : drv.req_whom = c
  BY <1>1, <1>2 DEF IdleInv, Quiesced, TypeInv, Driver
<1>4. Submitted(c) /\ Untouched(c)
  BY <1>1, <1>2, <1>3 DEF FlightInv, Served, Quiesced
<1>5. PICK i \in Idx : i = Q.availIdx - 1
  BY <1>4 DEF Submitted, ChainOf
<1>6. Q.availIdx = i + 1 /\ TheDev.avail = i /\ Q.usedIdx = i /\ i \in Nat /\ i + 1 < IdxMod
  BY <1>1, <1>4, <1>5 DEF Submitted, TypeInv, Queue, Q, Idx
<1>7. i % Q.size \in Desc /\ (i + 1) % IdxMod = i + 1
  BY <1>1, <1>6, NoWrap, InRing DEF DeviceInv
<1>8. PICK d1 \in Desc, d2 \in Desc, d3 \in Desc :
        /\ d1 = 0 /\ Q.occupied = {d1, d2, d3}
        /\ Q.desc[d1].what = "header" /\ Q.desc[d1].next = d2
        /\ Q.desc[d1].type = client[c].req.op /\ Q.desc[d1].sector = client[c].req.sector
        /\ Q.desc[d2].what = "data" /\ Q.desc[d2].of = c /\ Q.desc[d2].next = d3
        /\ Q.desc[d3].what = "status"
  BY <1>4, <1>5 DEF Submitted, ChainOf
<1>9. /\ client[c].pc \in {"sent", "recv"} /\ IsDiskOp(client[c].req.op) /\ client[c].req \in Req
  BY <1>3 DEF FlightInv, TypeInv
<1> QED BY <1>1, <1>3, <1>4, <1>6, <1>7, <1>8, <1>9

\* What the disk does with the request of c: the whole transfer, or nothing when it
\* fails.
DiskReads(c) ==
    /\ client[c].req.op = "read" /\ disk' = disk
    /\ page' = [page EXCEPT ![c] = [head |-> disk[client[c].req.sector],
                                    buffer |-> disk[client[c].req.sector]]]
    /\ done' = [done EXCEPT ![c] = [performed |-> TRUE, result |-> disk[client[c].req.sector]]]
DiskWrites(c) ==
    /\ client[c].req.op = "write" /\ page' = page
    /\ disk' = [disk EXCEPT ![client[c].req.sector] = client[c].req.data]
    /\ done' = [done EXCEPT ![c] = [performed |-> TRUE, result |-> NONE]]

\* The disk serves the request that the driver has in hand, and no other.
LEMMA DiskEffect ==
    ASSUME WithinLimits, VirtioInv, NEW b \in Blk, DiskServes(b)
    PROVE  \E c \in Client :
            /\ drv.req_whom = c /\ client[c].req \in Req /\ Untouched(c) /\ Served(c)'
            /\ client[c].pc \in {"sent", "recv"} /\ IsDiskOp(client[c].req.op)
            /\ DiskReads(c) \/ DiskWrites(c) \/ (DiskFails /\ UNCHANGED <<disk, page, done>>)
            /\ queue' \in [Blk -> Queue] /\ dev' \in [Dev -> Device] /\ DeviceInv'
            /\ Q'.availIdx = Q.availIdx
            /\ UNCHANGED <<blk, probe, main, drv, handler, client, got, calls>>
<1> USE Constants DEF VirtioInv
<1>1. b = 1 /\ blk.next = 2
  BY DiskFinds
<1>2. PICK c \in Client, i \in Idx, d1 \in Desc, d2 \in Desc, d3 \in Desc :
        /\ drv.req_whom = c /\ Submitted(c) /\ Untouched(c) /\ client[c].req \in Req
        /\ client[c].pc \in {"sent", "recv"} /\ IsDiskOp(client[c].req.op)
        /\ Q.availIdx = i + 1 /\ TheDev.avail = i /\ Q.usedIdx = i
        /\ i % Q.size \in Desc /\ (i + 1) % IdxMod = i + 1
        /\ d1 = 0 /\ Q.occupied = {d1, d2, d3}
        /\ Q.desc[d1].what = "header" /\ Q.desc[d1].next = d2
        /\ Q.desc[d1].type = client[c].req.op /\ Q.desc[d1].sector = client[c].req.sector
        /\ Q.desc[d2].what = "data" /\ Q.desc[d2].of = c /\ Q.desc[d2].next = d3
        /\ Q.desc[d3].what = "status"
  BY DiskFinds
<1>3. PICK d \in Dev : d = blk.virtio[1]
  BY DEF TypeInv, BlkTables
<1>4. dev[d].avail = i /\ TheDev = dev[d] /\ Q = queue[1] /\ Q \in Queue
  BY <1>2, <1>3 DEF TheDev, Q, TypeInv
<1>k. PICK k \in Desc : k = i % Q.size
  BY <1>2
<1>h. queue[1].avail[dev[blk.virtio[1]].avail % queue[1].size] = d1
  <2>1. PICK g \in Queue : g = Q
    BY <1>4
  <2>2. g.avail[k] = 0
    BY DEF Queue
  <2> QED BY <1>2, <1>3, <1>4, <1>k, <2>1, <2>2
<1>5. /\ queue' = [queue EXCEPT ![1].used[k] = d1, ![1].usedIdx = i + 1]
      /\ dev' = [dev EXCEPT ![d].avail = i + 1, ![d].istatus = @ \cup {"used"}]
      /\ UNCHANGED <<blk, probe, main, drv, handler, client, got, calls>>
  <2>1. queue[1].avail[dev[blk.virtio[1]].avail % queue[1].size] = d1
    BY <1>h
  <2>2. /\ queue' = [queue EXCEPT ![1].used[queue[1].usedIdx % queue[1].size] = d1,
                                  ![1].usedIdx = (@ + 1) % IdxMod]
        /\ dev' = [dev EXCEPT ![d].avail = (@ + 1) % IdxMod, ![d].istatus = @ \cup {"used"}]
        /\ UNCHANGED <<blk, probe, main, drv, handler, client, got, calls>>
    BY <1>1, <1>3, <2>1 DEF DiskServes, devices
  <2>3. queue[1].usedIdx % queue[1].size = k /\ queue[1].usedIdx = i
    BY <1>2, <1>4, <1>k
  <2>4. queue' = [queue EXCEPT ![1].used[k] = d1, ![1].usedIdx = i + 1]
    BY <1>2, <2>2, <2>3 DEF TypeInv, Queue
  <2>5. dev' = [dev EXCEPT ![d].avail = i + 1, ![d].istatus = @ \cup {"used"}]
    <3>1. (dev[d].avail + 1) % IdxMod = i + 1
      BY <1>2, <1>4
    <3>2. PICK n : n = i + 1
      OBVIOUS
    <3>3. (dev[d].avail + 1) % IdxMod = n
      BY <3>1, <3>2
    <3>4. dev' = [dev EXCEPT ![d].avail = n, ![d].istatus = @ \cup {"used"}]
      BY <2>2, <3>3
    <3> QED BY <3>2, <3>4
  <2> QED BY <2>2, <2>4, <2>5
<1>6. DiskReads(c) \/ DiskWrites(c) \/ (DiskFails /\ UNCHANGED <<disk, page, done>>)
  <2>1. queue[1].avail[dev[blk.virtio[1]].avail % queue[1].size] = d1
    BY <1>h
  <2>2. client[c].req.sector \in Sector /\ page[c].buffer = client[c].req.data
    BY <1>2, Requests DEF Untouched
  <2>3. /\ queue[1].desc[d1].sector = client[c].req.sector
        /\ queue[1].desc[d1].type = client[c].req.op
        /\ queue[1].desc[queue[1].desc[d1].next].of = c
    BY <1>2, <1>4
  <2> QED BY <1>1, <2>1, <2>2, <2>3 DEF DiskServes, DiskReads, DiskWrites
<1>7. i + 1 \in 0 .. IdxMod - 1
  BY DEF Idx
<1>8. PICK q : q = [Q EXCEPT !.used[k] = d1, !.usedIdx = i + 1]
  OBVIOUS
<1>9. /\ q \in Queue /\ q.availIdx = Q.availIdx /\ q.size = Q.size /\ q.occupied = Q.occupied
      /\ q.desc = Q.desc /\ q.avail = Q.avail /\ q.last_seen_idx = Q.last_seen_idx
      /\ q.usedIdx = i + 1
  <2>1. PICK g \in Queue : g = Q
    BY <1>4
  <2>2. PICK u : u = [g.used EXCEPT ![k] = d1]
    OBVIOUS
  <2>3. u \in [Desc -> {0}]
    BY <1>2, <2>2 DEF Queue
  <2>4. q = [g EXCEPT !.used = u, !.usedIdx = i + 1]
    BY <1>8, <2>1, <2>2 DEF Queue
  <2>5. /\ q \in Queue /\ q.availIdx = g.availIdx /\ q.size = g.size /\ q.occupied = g.occupied
        /\ q.desc = g.desc /\ q.avail = g.avail /\ q.last_seen_idx = g.last_seen_idx
        /\ q.usedIdx = i + 1 /\ q.used = u
    BY <1>7, <2>3, <2>4 DEF Queue
  <2> QED BY <2>1, <2>3, <2>5
<1>10. queue' \in [Blk -> Queue] /\ Q' = q
  <2>1. queue' = [queue EXCEPT ![1] = q]
    BY <1>4, <1>5, <1>8 DEF TypeInv
  <2> QED BY <2>1, <1>9 DEF TypeInv, Q
<1>11. /\ dev' \in [Dev -> Device] /\ dev'[d].avail = i + 1 /\ dev'[d].ready = dev[d].ready
       /\ "used" \in dev'[d].istatus
       /\ \A e \in Dev \ {d} : dev'[e] = dev[e]
  BY <1>5, <1>7 DEF TypeInv, Device, Cause
<1>12. TheDev' = dev'[d]
  BY <1>3, <1>5 DEF TheDev
<1>13. DeviceInv'
  <2>1. dev[d].ready /\ dev'[d].ready
    BY <1>1, <1>4, <1>11 DEF DeviceInv
  <2>2. \A e \in Dev : /\ dev'[e].ready => e = d
                       /\ ~dev'[e].ready => dev'[e].avail = 0 /\ dev'[e].istatus = {}
    BY <1>3, <1>11, <2>1 DEF DeviceInv
  <2> QED BY <1>1, <1>3, <1>5, <1>9, <1>10, <1>12, <2>1, <2>2 DEF DeviceInv
<1>14. ChainOf(Q, c)'
  <2>1. q.availIdx - 1 = i
    BY <1>2, <1>9 DEF Idx
  <2>2. client' = client
    BY <1>5
  <2> QED BY <1>2, <1>9, <1>10, <2>1, <2>2 DEF ChainOf
<1>15. Served(c)'
  <2>1. Q'.availIdx - 1 = i
    BY <1>2, <1>9, <1>10 DEF Idx
  <2>2. Q.last_seen_idx = i
    BY <1>2 DEF Submitted, Idx
  <2> QED BY <1>1, <1>2, <1>5, <1>9, <1>10, <1>11, <1>12, <1>14, <2>1, <2>2 DEF Served
<1> QED BY <1>2, <1>5, <1>6, <1>9, <1>10, <1>11, <1>13, <1>15

\* So serving it preserves the invariant.
LEMMA DiskServesStep ==
    ASSUME WithinLimits, VirtioInv, NEW b \in Blk, DiskServes(b) PROVE VirtioInv'
<1> USE Constants DEF VirtioInv
<1>1. PICK c \in Client :
        /\ drv.req_whom = c /\ client[c].req \in Req /\ Untouched(c) /\ Served(c)'
        /\ client[c].pc \in {"sent", "recv"} /\ IsDiskOp(client[c].req.op)
        /\ DiskReads(c) \/ DiskWrites(c) \/ (DiskFails /\ UNCHANGED <<disk, page, done>>)
        /\ queue' \in [Blk -> Queue] /\ dev' \in [Dev -> Device] /\ DeviceInv'
        /\ Q'.availIdx = Q.availIdx
        /\ UNCHANGED <<blk, probe, main, drv, handler, client, got, calls>>
  BY DiskEffect
<1>2. client[c].req.sector \in Sector /\ client[c].req.data \in Data
  BY <1>1, Requests
<1>3. disk[client[c].req.sector] \in Data
  BY <1>2 DEF TypeInv
<1>4. TypeInv'
  <2>1. disk' \in [Sector -> Data]
    BY <1>1, <1>2 DEF DiskReads, DiskWrites, TypeInv
  <2>2. page' \in [Client -> PageState]
    <3>1. PICK v \in Data : v = disk[client[c].req.sector]
      BY <1>3
    <3>2. [head |-> v, buffer |-> v] \in PageState
      BY DEF PageState
    <3> QED BY <1>1, <3>1, <3>2 DEF DiskReads, DiskWrites, TypeInv
  <2>3. done' \in [Client -> DoneState]
    <3>1. PICK v \in Data : v = disk[client[c].req.sector]
      BY <1>3
    <3>2. /\ [performed |-> TRUE, result |-> v] \in DoneState
          /\ [performed |-> TRUE, result |-> NONE] \in DoneState
      BY DEF DoneState
    <3> QED BY <1>1, <3>1, <3>2 DEF DiskReads, DiskWrites, TypeInv
  <2> QED BY <1>1, <2>1, <2>2, <2>3 DEF TypeInv
<1>5. \A e \in Client \ {c} : page'[e] = page[e] /\ done'[e] = done[e]
  BY <1>1 DEF DiskReads, DiskWrites, TypeInv
<1>6. Performed(c)'
  BY <1>1 DEF DiskReads, DiskWrites, Performed, TypeInv
<1>7. IdleInv'
  BY <1>1 DEF IdleInv
<1>8. FlightInv'
  <2>1. handler.pc # "notify" /\ ~AcksUsed
    <3>1. ~Quiesced
      <4>1. TheDev.avail # Q.availIdx /\ blk.next = 2
        BY <1>1, DiskFinds DEF DiskServes, TheDev, Q
      <4> QED BY <4>1 DEF Quiesced
    <3> QED BY <1>1, <3>1 DEF FlightInv
  <2> QED BY <1>1, <1>6, <2>1 DEF FlightInv, AcksUsed
<1>9. MainInv'
  BY <1>1 DEF MainInv, FlightInv
<1>10. ClientInv'
  <2> SUFFICES ASSUME NEW e \in Client
               PROVE  /\ ~done'[e].performed => done'[e].result = NONE
                      /\ client[e].pc # "idle" /\ client[e].req.op = "write" => done'[e].result = NONE
                      /\ client[e].pc = "send" => Untouched(e)'
                      /\ client[e].pc = "got" /\ IsDiskOp(client[e].req.op) => Performed(e)'
    BY <1>1 DEF ClientInv
  <2>1. CASE e = c
    BY <1>1, <2>1 DEF ClientInv, DiskReads, DiskWrites, TypeInv
  <2>2. CASE e # c
    BY <1>1, <1>5, <2>2, SameData DEF ClientInv
  <2> QED BY <2>1, <2>2
<1>11. CountInv'
  <2>1. Waiting' \subseteq Waiting
    BY <1>1 DEF Waiting, Holds
  <2> QED BY <1>1, <1>4, <2>1, FewerWait
<1> QED BY <1>1, <1>4, <1>7, <1>8, <1>9, <1>10, <1>11

-----------------------------------------------------------------------------
(* The theorems.                                                             *)

\* One step per action.
LEMMA NextInv == ASSUME WithinLimits, VirtioInv, [Next]_vars PROVE VirtioInv'
<1>1. CASE MainLoop
  BY <1>1, ProbeStep, ProbeEndStep, WaitIdleStep, ReceivedStep, InterruptedStep, ServeStep,
     RefuseStep DEF MainLoop
<1>2. CASE Handler
  BY <1>2, HandleStep, NotifyStep, AcknowledgeStep DEF Handler
<1>3. CASE Delivered \/ Requested \/ \E d \in Dev : ConfigChange(d)
  BY <1>3, InterruptStep, DiskServesStep, ConfigChangeStep DEF Delivered, Requested
<1>4. ASSUME NEW c \in Client,
             \/ \E r \in Req : CallDisk(c, r)
             \/ Send(c) \/ ClientInterrupted(c) \/ ClientGoesOn(c)
      PROVE  VirtioInv'
  BY <1>4, CallDiskStep, SendStep, ClientInterruptedStep, ReceiveStep, ReturnFromStep
     DEF ClientGoesOn
<1>5. CASE UNCHANGED vars
  <2>1. TypeInv'
    BY <1>5 DEF VirtioInv, TypeInv, vars
  <2>2. DeviceInv'
    BY <1>5, SameDevices DEF VirtioInv, vars
  <2>3. \A c \in Client : /\ Submitted(c)' <=> Submitted(c)
                          /\ Served(c)' <=> Served(c)
                          /\ Untouched(c)' <=> Untouched(c)
                          /\ Performed(c)' <=> Performed(c)
    BY <1>5, SameChain, SameData DEF vars
  <2>4. IdleInv' /\ FlightInv'
    BY <1>5, <2>3, SameQueue DEF VirtioInv, IdleInv, FlightInv, AcksUsed, vars
  <2>5. MainInv' /\ ClientInv'
    BY <1>5, <2>3, SameQueue DEF VirtioInv, MainInv, ClientInv, vars
  <2>6. CountInv'
    <3>1. Waiting' \subseteq Waiting
      BY <1>5 DEF Waiting, Holds, vars
    <3> QED BY <1>5, <2>1, <3>1, FewerWait, SameQueue DEF VirtioInv, vars
  <2> QED BY <2>1, <2>2, <2>4, <2>5, <2>6 DEF VirtioInv
<1> QED BY <1>1, <1>2, <1>3, <1>4, <1>5 DEF Next

\* What the invariant says of the bookkeeping and of the transfers.
LEMMA InvSound == ASSUME WithinLimits, VirtioInv PROVE DriverSound /\ DmaIntoRequester
<1> USE Constants DEF VirtioInv
<1>1. VirtioTypeOK
  <2>1. /\ dev \in [Dev -> [ready : BOOLEAN, avail : 0 .. IdxMod - 1,
                           istatus : SUBSET {"used", "config"}]]
        /\ disk \in [Sector -> Data] /\ probe \in 0 .. NVirtio /\ calls \in 0 .. MaxCalls
    BY DEF TypeInv, Device, Cause
  <2>2. blk.virtio \in [Blk -> Dev] /\ blk.next \in Blk
    BY DEF TypeInv, BlkTables
  <2>3. /\ main.pc \in {"probe", "spin", "recv", "woken", "check"}
        /\ drv.in_progress \in BOOLEAN /\ drv.req_whom \in Client \cup {NONE}
        /\ drv.reqva \in Client \cup {NONE}
        /\ handler.pc \in {"none", "entry", "notify", "ack"}
    BY DEF TypeInv, Main, MainPc, Driver, HandlerState, HandlerPc
  <2>4. \A c \in Client : client[c].pc \in {"idle", "send", "sent", "recv", "got"}
    BY DEF TypeInv, ClientState, ClientPc
  <2>5. \A b \in Blk : queue[b].occupied \subseteq Desc /\ queue[b].usedIdx \in 0 .. IdxMod - 1
    BY DEF TypeInv, Queue
  <2> QED BY <2>1, <2>2, <2>3, <2>4, <2>5 DEF VirtioTypeOK
<1>2. NoDriverPanic
  BY DEF NoDriverPanic, TypeInv, Driver
<1>3. IdleIsClean
  <2> SUFFICES ASSUME main.pc = "recv", handler.pc = "none"
               PROVE  /\ ~drv.in_progress /\ drv.reqva = NONE
                      /\ queue[1].occupied = {} /\ queue[1].last_seen_idx = queue[1].usedIdx
                      /\ \A d \in Dev : dev[d].ready => dev[d].avail = queue[1].availIdx
    BY DEF IdleIsClean
  <2>1. drv.req_whom = NONE
    BY DEF FlightInv, TypeInv, Driver
  <2>2. Quiesced /\ ~drv.in_progress /\ drv.reqva = NONE
    BY <2>1 DEF IdleInv
  <2> QED BY <2>2 DEF Quiesced, Q, DeviceInv, TheDev
<1>4. DmaIntoRequester
  <2> SUFFICES ASSUME NEW d \in Dev, dev[d].ready, dev[d].avail # queue[1].availIdx
               PROVE  LET head == queue[1].avail[dev[d].avail % queue[1].size]
                          data == queue[1].desc[queue[1].desc[head].next]
                      IN  /\ data.what = "data" /\ data.of = drv.req_whom
                          /\ drv.reqva = drv.req_whom
                          /\ client[drv.req_whom].pc \in {"sent", "recv"}
    BY DEF DmaIntoRequester
  <2>1. blk.next = 2 /\ TheDev = dev[d] /\ Q = queue[1] /\ Q.size \in Size
    BY DEF DeviceInv, TheDev, Q
  <2>2. PICK c \in Client : drv.req_whom = c
    BY <2>1 DEF IdleInv, Quiesced, TypeInv, Driver
  <2>3. Submitted(c) /\ drv.reqva = c /\ client[c].pc \in {"sent", "recv"}
    BY <2>1, <2>2 DEF FlightInv, Served, Quiesced
  <2>4. PICK i \in Idx : i = Q.availIdx - 1 /\ dev[d].avail = i
    BY <2>1, <2>3 DEF Submitted, ChainOf
  <2>5. i % Q.size \in Desc /\ Q \in Queue
    BY <2>1, InRing, SMTT(30) DEF Idx, TypeInv
  <2>a. Q.avail[i % Q.size] = 0
    <3>1. PICK g \in Queue : g = Q
      BY <2>5
    <3>2. PICK k \in Desc : k = i % Q.size
      BY <2>5
    <3>3. g.avail[k] = 0
      BY DEF Queue
    <3> QED BY <3>1, <3>2, <3>3
  <2>6. PICK d1 \in Desc, d2 \in Desc :
            /\ Q.avail[i % Q.size] = d1 /\ Q.desc[d1].next = d2
            /\ Q.desc[d2].what = "data" /\ Q.desc[d2].of = c
    BY <2>3, <2>a DEF Submitted, ChainOf
  <2> QED BY <2>1, <2>2, <2>3, <2>4, <2>5, <2>6
<1> QED BY <1>1, <1>2, <1>3, <1>4 DEF DriverSound

\* The driver's assertions hold, nothing of a request is left when the next one is
\* awaited, and the disk transfers only from and to the page of the client whose
\* request is in progress: for any number of clients and sectors, whatever order
\* requests, interrupts of both causes and failures come in (virtio.c, block.c).
THEOREM DriverCorrect == WithinLimits => (VirtioSpec => [](DriverSound /\ DmaIntoRequester))
<1> SUFFICES ASSUME WithinLimits PROVE VirtioSpec => [](DriverSound /\ DmaIntoRequester)
  OBVIOUS
<1>1. Init => VirtioInv
  BY InitInv
<1>2. VirtioInv /\ [Next]_vars => VirtioInv'
  BY NextInv
<1>3. VirtioInv => DriverSound /\ DmaIntoRequester
  BY InvSound
<1> QED BY <1>1, <1>2, <1>3, PTL DEF VirtioSpec

-----------------------------------------------------------------------------
(* The driver implements the atomic disk.                                    *)

\* The abstract call of c, as the refinement mapping gives it.
CallOf(c) ==
    IF ~InCall(c) THEN [stage |-> "idle", req |-> NONE, result |-> NONE]
    ELSE [stage |-> IF done[c].performed THEN "done" ELSE "called",
          req |-> client[c].req, result |-> done[c].result]

\* The refinement mapping, client by client.
LEMMA DiskCalls == DiskCall = [c \in Client |-> CallOf(c)] /\ DiskCall' = [c \in Client |-> CallOf(c)']
BY DEF DiskCall, CallOf

\* A step that keeps the mapped variables.
LEMMA AbstractStutters ==
    ASSUME UNCHANGED <<disk, got>>, \A c \in Client : CallOf(c)' = CallOf(c)
    PROVE  UNCHANGED Abstract!avars
<1>1. DiskCall' = DiskCall
  BY DiskCalls
<1> QED BY <1>1 DEF Abstract!avars

\* What a client's call is does not depend on the pc, as long as it is in the call.
LEMMA SameCall ==
    ASSUME NEW c \in Client, client'[c].req = client[c].req, done'[c] = done[c],
           client[c].pc = "idle" <=> client'[c].pc = "idle"
    PROVE  CallOf(c)' = CallOf(c)
BY DEF CallOf, InCall

\* The call of one client becomes another.
LEMMA OneCall ==
    ASSUME NEW c \in Client, NEW a, CallOf(c)' = a,
           \A e \in Client \ {c} : CallOf(e)' = CallOf(e)
    PROVE  DiskCall' = [DiskCall EXCEPT ![c] = a] /\ DiskCall[c] = CallOf(c)
BY DiskCalls

\* A client's call is a call of the atomic disk.
LEMMA CallRefines ==
    ASSUME VirtioInv, NEW c \in Client, NEW r \in Req, CallDisk(c, r)
    PROVE  Abstract!ANext \/ UNCHANGED Abstract!avars
<1>1. /\ client[c].pc = "idle" /\ client'[c].pc = "send" /\ client'[c].req = r
      /\ done'[c].performed = FALSE /\ done'[c].result = NONE /\ disk' = disk
      /\ \A e \in Client \ {c} : client'[e] = client[e] /\ done'[e] = done[e]
  BY DEF CallDisk, VirtioInv, TypeInv
<1>2. \A e \in Client \ {c} : CallOf(e)' = CallOf(e)
  BY <1>1, SameCall
<1>3. CallOf(c) = [stage |-> "idle", req |-> NONE, result |-> NONE]
  BY <1>1 DEF CallOf, InCall
<1>4. CASE r.op \in {"read", "write"}
  <2>1. CallOf(c)' = Abstract!Called(r)
    BY <1>1, <1>4 DEF CallOf, InCall, Abstract!Called
  <2>2. DiskCall' = [DiskCall EXCEPT ![c] = Abstract!Called(r)] /\ DiskCall[c].stage = "idle"
    BY <1>2, <1>3, <2>1, OneCall
  <2>3. r \in Abstract!Request
    BY <1>4, Requests DEF Abstract!Request
  <2>4. got' = [got EXCEPT ![c] = NONE]
    BY <1>4 DEF CallDisk
  <2>5. Abstract!Call(c, r)
    BY <1>1, <2>2, <2>4 DEF Abstract!Call
  <2> QED BY <2>3, <2>5 DEF Abstract!ANext
<1>5. CASE r.op \notin {"read", "write"}
  <2>1. CallOf(c)' = CallOf(c)
    BY <1>1, <1>3, <1>5 DEF CallOf, InCall
  <2>2. got' = got
    BY <1>5 DEF CallDisk
  <2> QED BY <1>1, <1>2, <2>1, <2>2, AbstractStutters
<1> QED BY <1>4, <1>5

\* A client's return is a return of the atomic disk.
LEMMA ReturnRefines ==
    ASSUME VirtioInv, ~DiskFails, NEW c \in Client, ReturnFrom(c)
    PROVE  Abstract!ANext \/ UNCHANGED Abstract!avars
<1>1. /\ client[c].pc = "got" /\ client'[c].pc = "idle" /\ disk' = disk
      /\ \A e \in Client \ {c} : client'[e] = client[e] /\ done'[e] = done[e]
  BY DEF ReturnFrom, VirtioInv, TypeInv, ClientState
<1>2. \A e \in Client \ {c} : CallOf(e)' = CallOf(e)
  BY <1>1, SameCall
<1>3. CallOf(c)' = [stage |-> "idle", req |-> NONE, result |-> NONE]
  BY <1>1 DEF CallOf, InCall
<1>4. CASE client[c].req.op \in {"read", "write"}
  <2>1. CallOf(c) = [stage |-> "done", req |-> client[c].req, result |-> done[c].result]
    BY <1>1, <1>4 DEF VirtioInv, ClientInv, Performed, IsDiskOp, CallOf, InCall
  <2>2. /\ DiskCall' = [DiskCall EXCEPT ![c] = Abstract!Idle] /\ DiskCall[c] = CallOf(c)
    BY <1>2, <1>3, OneCall DEF Abstract!Idle
  <2>3. got' = [got EXCEPT ![c] = done[c].result]
    BY <1>1, <1>4 DEF ReturnFrom, VirtioInv, ClientInv, Performed, IsDiskOp
  <2>4. DiskCall[c].stage = "done" /\ DiskCall[c].result = done[c].result
    BY <2>1, <2>2
  <2>5. Abstract!Return(c)
    BY <1>1, <2>2, <2>3, <2>4 DEF Abstract!Return
  <2> QED BY <2>5 DEF Abstract!ANext
<1>5. CASE client[c].req.op \notin {"read", "write"}
  <2>1. CallOf(c)' = CallOf(c)
    BY <1>1, <1>3, <1>5 DEF CallOf, InCall
  <2>2. got' = got
    <3>1. got' = [got EXCEPT ![c] = @]
      BY <1>5 DEF ReturnFrom
    <3> QED BY <3>1 DEF VirtioInv, TypeInv
  <2> QED BY <1>1, <1>2, <2>1, <2>2, AbstractStutters
<1> QED BY <1>4, <1>5

\* The disk serving a chain is the atomic disk performing the call.
LEMMA PerformRefines ==
    ASSUME WithinLimits, VirtioInv, ~DiskFails, NEW b \in Blk, DiskServes(b)
    PROVE  Abstract!ANext
<1>1. PICK c \in Client :
        /\ client[c].req \in Req /\ Untouched(c)
        /\ client[c].pc \in {"sent", "recv"} /\ IsDiskOp(client[c].req.op)
        /\ DiskReads(c) \/ DiskWrites(c)
        /\ UNCHANGED <<client, got>>
  BY DiskEffect
<1>2. /\ \A e \in Client \ {c} : done'[e] = done[e]
      /\ done'[c].performed = TRUE
      /\ done'[c].result = IF client[c].req.op = "read" THEN disk[client[c].req.sector] ELSE NONE
  BY <1>1 DEF DiskReads, DiskWrites, VirtioInv, TypeInv
<1>3. \A e \in Client \ {c} : CallOf(e)' = CallOf(e)
  BY <1>1, <1>2, SameCall
<1>4. CallOf(c) = [stage |-> "called", req |-> client[c].req, result |-> done[c].result]
  BY <1>1 DEF CallOf, InCall, IsDiskOp, Untouched
<1>5. CallOf(c)' = [stage |-> "done", req |-> client[c].req, result |-> done'[c].result]
  BY <1>1, <1>2 DEF CallOf, InCall, IsDiskOp
<1>6. PICK a : a = CallOf(c)'
  OBVIOUS
<1>7. DiskCall' = [DiskCall EXCEPT ![c] = a] /\ DiskCall[c] = CallOf(c)
  BY <1>3, <1>6, OneCall
<1>8. DiskCall[c].stage = "called" /\ DiskCall[c].req = client[c].req
  BY <1>4, <1>7
<1>9. CASE DiskReads(c)
  <2>1. a = Abstract!Done(client[c].req, disk[client[c].req.sector]) /\ client[c].req.op = "read"
    BY <1>2, <1>5, <1>6, <1>9 DEF Abstract!Done, DiskReads
  <2> QED BY <1>1, <1>7, <1>8, <1>9, <2>1 DEF Abstract!ANext, Abstract!Perform, DiskReads
<1>10. CASE DiskWrites(c)
  <2>1. a = Abstract!Done(client[c].req, NONE) /\ client[c].req.op = "write"
    BY <1>2, <1>5, <1>6, <1>10 DEF Abstract!Done, DiskWrites
  <2> QED BY <1>1, <1>7, <1>8, <1>10, <2>1 DEF Abstract!ANext, Abstract!Perform, DiskWrites
<1> QED BY <1>1, <1>9, <1>10

\* A step of the driver, of the devices, or of a client that only waits.
LEMMA OthersRefine ==
    ASSUME WithinLimits, VirtioInv,
           \/ MainLoop \/ Handler \/ Delivered \/ (\E d \in Dev : ConfigChange(d))
           \/ (\E c \in Client : Send(c) \/ ClientInterrupted(c) \/ Receive(c))
    PROVE  UNCHANGED Abstract!avars
<1>1. UNCHANGED <<disk, got, done>>
  BY DEF MainLoop, Handler, Delivered, virtio_dev_init, ProbeEnd, WaitIdle, Received, Interrupted,
         Serve, Refuse, handle_block_interrupt, notify_sender, Acknowledge, Interrupt, ConfigChange,
         Send, ClientInterrupted, Receive, clients
<1>2. ASSUME NEW e \in Client PROVE CallOf(e)' = CallOf(e)
  <2>1. CASE UNCHANGED client
    BY <1>1, <2>1, SameCall
  <2>2. CASE Refuse
    <3>1. main.whom \in Client /\ client[main.whom].pc = "recv"
      BY <2>2 DEF VirtioInv, MainInv, Refuse
    <3>2. client'[e].req = client[e].req /\ (client[e].pc = "idle" <=> client'[e].pc = "idle")
      BY <2>2, <3>1 DEF VirtioInv, TypeInv, Refuse, ClientState
    <3> QED BY <1>1, <3>2, SameCall
  <2>3. CASE notify_sender
    <3>1. drv.req_whom \in Client
      BY <2>3 DEF VirtioInv, IdleInv, TypeInv, Driver, notify_sender
    <3>2. client'[e].req = client[e].req /\ (client[e].pc = "idle" <=> client'[e].pc = "idle")
      BY <2>3, <3>1 DEF VirtioInv, TypeInv, notify_sender, ClientState
    <3> QED BY <1>1, <3>2, SameCall
  <2>4. ASSUME NEW c \in Client, Send(c) \/ Receive(c) PROVE CallOf(e)' = CallOf(e)
    <3>1. client'[e].req = client[e].req /\ (client[e].pc = "idle" <=> client'[e].pc = "idle")
      BY <2>4 DEF VirtioInv, TypeInv, Send, Receive, ClientState
    <3> QED BY <1>1, <3>1, SameCall
  <2>5. ASSUME NEW c \in Client, ClientInterrupted(c) PROVE CallOf(e)' = CallOf(e)
    <3>1. CASE e = c
      <4>1. client[c].req.op \notin {"read", "write"} /\ client'[c].pc = "idle"
        BY <2>5 DEF ClientInterrupted, WithinLimits, VirtioInv, TypeInv, ClientState
      <4> QED BY <3>1, <4>1 DEF CallOf, InCall
    <3>2. CASE e # c
      <4>1. client'[e] = client[e]
        BY <2>5, <3>2 DEF ClientInterrupted, VirtioInv, TypeInv
      <4> QED BY <1>1, <4>1, SameCall
    <3> QED BY <3>1, <3>2
  <2>6. \/ UNCHANGED client \/ Refuse \/ notify_sender
        \/ \E c \in Client : Send(c) \/ ClientInterrupted(c) \/ Receive(c)
    BY DEF MainLoop, Handler, Delivered, virtio_dev_init, ProbeEnd, WaitIdle, Received, Interrupted,
           Serve, handle_block_interrupt, Acknowledge, Interrupt, ConfigChange, clients
  <2> QED BY <2>1, <2>2, <2>3, <2>4, <2>5, <2>6
<1> QED BY <1>1, <1>2, AbstractStutters

\* The driver, its interrupt handler and the client library together are an atomic
\* disk: a read or write takes effect once, at one instant between call and return,
\* and a read returns what the sector held then (user/lib/virtio.c, virtio.c, block.c).
THEOREM DriverIsAtomicDisk == WithinLimits /\ ~DiskFails => (VirtioSpec => ImplementsAtomicDisk)
<1> SUFFICES ASSUME WithinLimits, ~DiskFails PROVE VirtioSpec => ImplementsAtomicDisk
  OBVIOUS
<1>1. Init => VirtioInv
  BY InitInv
<1>2. VirtioInv /\ [Next]_vars => VirtioInv'
  BY NextInv
<1>3. Init => Abstract!AInit
  <2> SUFFICES ASSUME Init PROVE Abstract!AInit
    OBVIOUS
  <2>1. disk \in [Sector -> Data] /\ got = [c \in Client |-> NONE]
    BY Constants DEF Init
  <2>2. \A c \in Client : CallOf(c) = Abstract!Idle
    BY DEF Init, CallOf, InCall, Abstract!Idle
  <2>3. DiskCall = [c \in Client |-> Abstract!Idle]
    BY <2>2, DiskCalls
  <2> QED BY <2>1, <2>3 DEF Abstract!AInit
<1>4. VirtioInv /\ [Next]_vars => [Abstract!ANext]_(Abstract!avars)
  <2> SUFFICES ASSUME VirtioInv, [Next]_vars
               PROVE  Abstract!ANext \/ UNCHANGED Abstract!avars
    OBVIOUS
  <2>1. CASE MainLoop \/ Handler \/ Delivered \/ (\E d \in Dev : ConfigChange(d))
    BY <2>1, OthersRefine
  <2>2. CASE Requested
    BY <2>2, PerformRefines DEF Requested
  <2>3. ASSUME NEW c \in Client,
               \/ \E r \in Req : CallDisk(c, r)
               \/ Send(c) \/ ClientInterrupted(c) \/ ClientGoesOn(c)
        PROVE  Abstract!ANext \/ UNCHANGED Abstract!avars
    BY <2>3, CallRefines, ReturnRefines, OthersRefine DEF ClientGoesOn
  <2>4. CASE UNCHANGED vars
    BY <2>4, SameCall, AbstractStutters DEF vars
  <2> QED BY <2>1, <2>2, <2>3, <2>4 DEF Next
<1> QED BY <1>1, <1>2, <1>3, <1>4, PTL DEF VirtioSpec, ImplementsAtomicDisk, Abstract!DiskSpec
=============================================================================
