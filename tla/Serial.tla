------------------------------- MODULE Serial -------------------------------
(***************************************************************************)
(* The user-level serial driver (driver/serial) and its clients            *)
(* (user/lib/serial.c): the main loop, the interrupt handler that diverts  *)
(* it between any two instructions, the two character queues they share    *)
(* without a lock, and the UART.                                           *)
(*                                                                         *)
(* Of the kernel this is kept: a send succeeds when the other side is      *)
(* blocked in sys_ipc_recv, an interrupt ends the driver's receive with    *)
(* -E_INTR, and the handler runs to its end before the main loop goes on   *)
(* (modules Ipc and EnvInterrupt).  The UART behaves as a 16550: turning   *)
(* ETBEI on while the holding register is empty raises the interrupt, and  *)
(* reading IIR takes it back.                                              *)
(***************************************************************************)
EXTENDS Integers, Sequences, FiniteSets

CONSTANTS
    Client,
    BUFFER_SIZE,        \* characters in a queue, PAGE_SIZE in the code
    FifoSize,           \* characters the UART holds on the receiving side
    Lens,               \* lengths that clients ask for
    MAX_PAYLOAD_SIZE,
    Ops,                \* what clients ask for, see Op
    LateInterrupts,     \* whether the driver may run on while its interrupt is pending
    MaxWrite, MaxArrive, MaxStatus, MaxCalls,   \* bounds on bytes, status changes, calls
    NONE

\* The library's requests; "nofunc" is an unknown code, "nopage" comes without a page,
\* "long read" and "long write" have a page that names more than MAX_PAYLOAD_SIZE bytes.
Op == {"read", "write", "nofunc", "nopage", "long read", "long write"}
Flag == {"ERBFI", "ETBEI", "ELSI", "EDSSI"}

ASSUME SerialAssumption ==
    /\ IsFiniteSet(Client) /\ NONE \notin Client \cup Nat /\ Ops \subseteq Op
    /\ BUFFER_SIZE \in Nat \ {0} /\ FifoSize \in Nat \ {0} /\ LateInterrupts \in BOOLEAN
    /\ MAX_PAYLOAD_SIZE \in Nat /\ Lens \subseteq 0 .. MAX_PAYLOAD_SIZE
    /\ {MaxWrite, MaxArrive, MaxStatus, MaxCalls} \subseteq Nat

VARIABLES
    tx, rx,     \* tx_queue and rx_queue
    uart,       \* ier; thre and its interrupt; the received bytes; status changes to report
    main,       \* the main loop: pc, request, bytes, and what it holds in registers
    handler,    \* the handler's pc, "none" outside an interrupt
    client,     \* [Client -> pc, op, bytes, len, the answer]
    calls,      \* calls made, and bytes that their writes number
    accepted, sent,         \* history: bytes put into tx_queue, bytes written to the UART
    arrived, taken, lost,   \* history: bytes that arrived, were read, were dropped
    txRaced, rxRaced        \* history: the handler changed a count the main loop had loaded

vars == <<tx, rx, uart, main, handler, client, calls, accepted, sent, arrived, taken, lost,
          txRaced, rxRaced>>
history == <<accepted, sent, arrived, taken, lost, txRaced, rxRaced>>

-----------------------------------------------------------------------------
(* driver/serial/char_queue.c *)

queue_init == [buffer |-> [n \in 0 .. BUFFER_SIZE - 1 |-> NONE],
               front |-> 0, rear |-> BUFFER_SIZE - 1, count |-> 0]

is_full(q) == q.count = BUFFER_SIZE
is_empty(q) == q.count = 0

\* enqueue and dequeue up to the load of count: the new count is stored by the caller,
\* at once in the handler, in a step of its own in the main loop.
enqueue(q, data) ==
    LET rear == (q.rear + 1) % BUFFER_SIZE
    IN  [q EXCEPT !.rear = rear, !.buffer[rear] = data]

front(q) == q.buffer[q.front]
dequeue(q) == [q EXCEPT !.front = (q.front + 1) % BUFFER_SIZE]

\* The bytes a queue with n of them holds, oldest first.
Contents(q, n) == [k \in 1 .. n |-> q.buffer[(q.front + k - 1) % BUFFER_SIZE]]

-----------------------------------------------------------------------------
(* The UART. *)

\* The interrupt IIR names, highest priority first.
IIR ==
    CASE "ELSI" \in uart.ier /\ "line" \in uart.status -> "line"
      [] "ERBFI" \in uart.ier /\ uart.rbr # <<>> -> "rx"
      [] "ETBEI" \in uart.ier /\ uart.thri -> "thre"
      [] "EDSSI" \in uart.ier /\ "modem" \in uart.status -> "modem"
      [] OTHER -> "none"

Pending == IIR # "none"

SetIER(ier) ==
    [uart EXCEPT !.ier = ier,
                 !.thri = IF "ETBEI" \in uart.ier \ ier THEN FALSE
                          ELSE (@ \/ ("ETBEI" \in ier \ uart.ier /\ uart.thre))]

\* The byte in the holding register has gone out.
Transmit ==
    /\ ~uart.thre
    /\ uart' = [uart EXCEPT !.thre = TRUE, !.thri = TRUE]
    /\ UNCHANGED <<tx, rx, main, handler, client, calls, history>>

\* A byte arrives on the line; with the UART's own queue full it is lost there.
Arrive ==
    /\ arrived < MaxArrive
    /\ arrived' = arrived + 1
    /\ IF Len(uart.rbr) < FifoSize
       THEN uart' = [uart EXCEPT !.rbr = Append(@, arrived + 1)] /\ UNCHANGED lost
       ELSE uart' = [uart EXCEPT !.status = @ \cup {"line"}] /\ lost' = lost + 1
    /\ UNCHANGED <<tx, rx, main, handler, client, calls, accepted, sent, taken, txRaced, rxRaced>>

StatusChange ==
    /\ uart.changes < MaxStatus
    /\ \E s \in {"line", "modem"} \ uart.status :
          uart' = [uart EXCEPT !.status = @ \cup {s}, !.changes = @ + 1]
    /\ UNCHANGED <<tx, rx, main, handler, client, calls, history>>

-----------------------------------------------------------------------------
(* The interrupt handler.  The main loop does not move until it has returned. *)

\* The kernel diverts the driver to handle_interrupt; a receive under way ends.
Interrupt ==
    /\ handler = "none" /\ Pending
    /\ handler' = "iir"
    /\ main' = IF main.pc = "recv" THEN [main EXCEPT !.pc = "loop"] ELSE main
    /\ UNCHANGED <<tx, rx, uart, client, calls, history>>

\* A character timeout, 110, is masked to 010 and so handled as received data too.
handle_interrupt ==
    /\ handler = "iir"
    /\ handler' = IIR
    /\ uart' = [uart EXCEPT !.thri = @ /\ IIR # "thre"]
    /\ UNCHANGED <<tx, rx, main, client, calls, history>>

handle_modem_status ==
    /\ handler = "modem"
    /\ handler' = "iir" /\ uart' = [uart EXCEPT !.status = @ \ {"modem"}]
    /\ UNCHANGED <<tx, rx, main, client, calls, history>>

handle_line_status_interrupt ==
    /\ handler = "line"
    /\ handler' = "iir" /\ uart' = [uart EXCEPT !.status = @ \ {"line"}]
    /\ UNCHANGED <<tx, rx, main, client, calls, history>>

disable_specific_interrupt(flag) == SetIER(uart.ier \ {flag})

\* One round of the draining loop, with the tests before and after it: the loop ends
\* with the queue empty, which turns the interrupt off, or with the register full.
handle_transmitter_holding_register_empty ==
    /\ handler = "thre"
    /\ \/ /\ is_empty(tx)
          /\ uart' = disable_specific_interrupt("ETBEI")
          /\ handler' = "iir" /\ UNCHANGED <<tx, sent, txRaced>>
       \/ /\ ~is_empty(tx) /\ ~uart.thre
          /\ uart' = [uart EXCEPT !.status = @ \ {"line"}]
          /\ handler' = "iir" /\ UNCHANGED <<tx, sent, txRaced>>
       \/ /\ ~is_empty(tx) /\ uart.thre
          /\ tx' = [dequeue(tx) EXCEPT !.count = @ - 1]
          /\ sent' = Append(sent, front(tx))
          /\ uart' = [uart EXCEPT !.status = @ \ {"line"}, !.thre = FALSE, !.thri = FALSE]
          /\ txRaced' = (txRaced \/ main.pc = "stored") /\ UNCHANGED handler
    /\ UNCHANGED <<rx, main, client, calls, accepted, arrived, taken, lost, rxRaced>>

\* The handler that drops bytes without looking whether the queue has room.
handle_received_data_NoCheck ==
    /\ handler = "rx"
    /\ \/ /\ uart.rbr = <<>>
          /\ handler' = "iir" /\ uart' = [uart EXCEPT !.status = @ \ {"line"}] /\ UNCHANGED rx
       \/ /\ uart.rbr # <<>>
          /\ uart' = [uart EXCEPT !.status = @ \ {"line"}, !.rbr = Tail(@)]
          /\ rx' = [enqueue(rx, Head(uart.rbr)) EXCEPT !.count = @ + 1] /\ UNCHANGED handler
    /\ UNCHANGED <<tx, main, client, calls, history>>

\* One round of the receiving loop.
handle_received_data ==
    /\ handler = "rx"
    /\ \/ /\ uart.rbr = <<>>
          /\ handler' = "iir" /\ uart' = [uart EXCEPT !.status = @ \ {"line"}]
          /\ UNCHANGED <<rx, lost, rxRaced>>
       \/ /\ uart.rbr # <<>>
          /\ uart' = [uart EXCEPT !.status = @ \ {"line"}, !.rbr = Tail(@)]
          /\ IF is_full(rx)
             THEN lost' = lost + 1 /\ UNCHANGED <<rx, rxRaced>>
             ELSE /\ rx' = [enqueue(rx, Head(uart.rbr)) EXCEPT !.count = @ + 1]
                  /\ rxRaced' = (rxRaced \/ main.pc = "fetched") /\ UNCHANGED lost
          /\ UNCHANGED handler
    /\ UNCHANGED <<tx, main, client, calls, accepted, sent, arrived, taken, txRaced>>

-----------------------------------------------------------------------------
(* The main loop. *)

Idle == [pc |-> "recv", whom |-> NONE, op |-> "read", bytes |-> <<>>, len |-> 0,
         reg |-> 0, ier |-> {}, then |-> "reply", val |-> 0]

\* The main loop takes a step: it is not diverted, and, unless the interrupt is slow to
\* arrive, none is waiting.
Running(pc) == main.pc = pc /\ handler = "none" /\ (Pending => LateInterrupts)

enable_serial_interrupt(mask) == uart' = SetIER(mask)

\* The initialisation: the handler is registered, all interrupts are enabled, and the
\* registers are read once more for the log, IIR among them.
enable_all ==
    /\ Running("init")
    /\ enable_serial_interrupt(Flag)
    /\ main' = [main EXCEPT !.pc = "log"]
    /\ UNCHANGED <<tx, rx, handler, client, calls, history>>

log_iir ==
    /\ Running("log")
    /\ uart' = [uart EXCEPT !.thri = @ /\ IIR # "thre"]
    /\ main' = [main EXCEPT !.pc = "loop"]
    /\ UNCHANGED <<tx, rx, handler, client, calls, history>>

\* The next receive.  It ends with a request or with -E_INTR, after which the loop begins
\* again; no other error comes from sys_ipc_recv at REQVA (serial.c:208).
loop ==
    /\ Running("loop")
    /\ main' = Idle
    /\ UNCHANGED <<tx, rx, uart, handler, client, calls, history>>

\* A request with an unknown code or without a page is refused.
refuse ==
    /\ Running("request") /\ main.op \in {"nofunc", "nopage"}
    /\ main' = [main EXCEPT !.pc = "reply", !.val = IF main.op = "nofunc" THEN -2 ELSE -3]
    /\ UNCHANGED <<tx, rx, uart, handler, client, calls, history>>

\* Either service refuses a length over MAX_PAYLOAD_SIZE before it touches a queue.
serve_read ==
    /\ Running("request") /\ main.op \in {"read", "long read"}
    /\ main' = IF main.op = "long read" THEN [main EXCEPT !.pc = "reply", !.val = -1]
               ELSE [main EXCEPT !.pc = "read"]
    /\ UNCHANGED <<tx, rx, uart, handler, client, calls, history>>

serve_write ==
    /\ Running("request") /\ main.op \in {"write", "long write"}
    /\ main' = IF main.op = "long write" THEN [main EXCEPT !.pc = "reply", !.val = -1]
               ELSE [main EXCEPT !.pc = "write"]
    /\ UNCHANGED <<tx, rx, uart, handler, client, calls, history>>

\* serial_read: bytes are taken until the queue is empty or len are taken.
serial_read ==
    /\ Running("read")
    /\ IF is_empty(rx) \/ Len(main.bytes) >= main.len
       THEN /\ main' = [main EXCEPT !.pc = "reply", !.val = Len(main.bytes)]
            /\ UNCHANGED rx
       ELSE /\ rx' = dequeue(rx)
            /\ main' = [main EXCEPT !.pc = "fetched", !.reg = rx.count,
                                    !.bytes = Append(@, front(rx))]
    /\ UNCHANGED <<tx, uart, handler, client, calls, history>>

\* The store of queue->count-- and the return of dequeue in the main loop.
store_dequeued ==
    /\ Running("fetched")
    /\ rx' = [rx EXCEPT !.count = main.reg - 1]
    /\ taken' = Append(taken, main.bytes[Len(main.bytes)])
    /\ main' = [main EXCEPT !.pc = "read"]
    /\ UNCHANGED <<tx, uart, handler, client, calls, accepted, sent, arrived, lost, txRaced, rxRaced>>

\* The write that does not enable the interrupt at its end.
serial_write_Silent ==
    /\ Running("write")
    /\ \/ /\ main.bytes # <<>> /\ ~is_full(tx)
          /\ tx' = enqueue(tx, Head(main.bytes))
          /\ main' = [main EXCEPT !.pc = "stored", !.reg = tx.count]
       \/ /\ main.bytes # <<>> /\ is_full(tx)
          /\ main' = [main EXCEPT !.pc = "ier", !.then = "write"] /\ UNCHANGED tx
       \/ /\ main.bytes = <<>>
          /\ main' = [main EXCEPT !.pc = "reply"] /\ UNCHANGED tx
    /\ UNCHANGED <<rx, uart, handler, client, calls, history>>

\* The write that waits for room without enabling the interrupt.
serial_write_Waits ==
    /\ Running("write")
    /\ \/ /\ main.bytes # <<>> /\ ~is_full(tx)
          /\ tx' = enqueue(tx, Head(main.bytes))
          /\ main' = [main EXCEPT !.pc = "stored", !.reg = tx.count]
       \/ /\ main.bytes = <<>>
          /\ main' = [main EXCEPT !.pc = "ier", !.then = "reply"] /\ UNCHANGED tx
    /\ UNCHANGED <<rx, uart, handler, client, calls, history>>

\* serial_write: a byte is put into the queue when there is room, ETBEI is enabled when
\* there is none and at the end.
serial_write ==
    /\ Running("write")
    /\ \/ /\ main.bytes # <<>> /\ ~is_full(tx)
          /\ tx' = enqueue(tx, Head(main.bytes))
          /\ main' = [main EXCEPT !.pc = "stored", !.reg = tx.count]
       \/ /\ main.bytes # <<>> /\ is_full(tx)
          /\ main' = [main EXCEPT !.pc = "ier", !.then = "write"] /\ UNCHANGED tx
       \/ /\ main.bytes = <<>>
          /\ main' = [main EXCEPT !.pc = "ier", !.then = "reply"] /\ UNCHANGED tx
    /\ UNCHANGED <<rx, uart, handler, client, calls, history>>

\* The store of queue->count++ in the main loop.
store_enqueued ==
    /\ Running("stored")
    /\ tx' = [tx EXCEPT !.count = main.reg + 1]
    /\ accepted' = Append(accepted, Head(main.bytes))
    /\ main' = [main EXCEPT !.pc = "write", !.bytes = Tail(@)]
    /\ UNCHANGED <<rx, uart, handler, client, calls, sent, arrived, taken, lost, txRaced, rxRaced>>

\* enable_specific_interrupt(IER_ETBEI): IER is read, and written in a step of its own.
enable_read ==
    /\ Running("ier")
    /\ main' = [main EXCEPT !.pc = "enable", !.ier = uart.ier \cup {"ETBEI"}]
    /\ UNCHANGED <<tx, rx, uart, handler, client, calls, history>>

enable_specific_interrupt ==
    /\ Running("enable")
    /\ enable_serial_interrupt(main.ier)
    /\ main' = [main EXCEPT !.pc = main.then, !.ier = {}]
    /\ UNCHANGED <<tx, rx, handler, client, calls, history>>

\* ipc_send of the answer, retried until the client receives.
reply ==
    /\ Running("reply")
    /\ client[main.whom].pc = "wait"
    /\ client' = [client EXCEPT ![main.whom].pc = "idle"]
    /\ main' = [Idle EXCEPT !.pc = "loop"]
    /\ UNCHANGED <<tx, rx, uart, handler, calls, history>>

-----------------------------------------------------------------------------
(* The clients. *)

\* Bytes written are numbered in the order of the calls.
Call(c, op, len) ==
    /\ client[c].pc = "idle" /\ calls.made < MaxCalls
    /\ op = "write" => calls.bytes + len <= MaxWrite
    /\ op \notin {"read", "write"} => len = 0
    /\ calls' = [made |-> calls.made + 1,
                 bytes |-> calls.bytes + (IF op = "write" THEN len ELSE 0)]
    /\ client' = [client EXCEPT ![c] =
          [pc |-> "send", op |-> op, len |-> len, first |-> calls.bytes + 1]]
    /\ UNCHANGED <<tx, rx, uart, main, handler, history>>

\* ipc_send of the request, retried until the driver receives.
Send(c) ==
    /\ client[c].pc = "send" /\ main.pc = "recv"
    /\ client' = [client EXCEPT ![c].pc = "sent"]
    /\ main' = [Idle EXCEPT !.pc = "request", !.whom = c, !.op = client[c].op, !.len = client[c].len,
                  !.bytes = IF client[c].op = "write"
                            THEN [k \in 1 .. client[c].len |-> client[c].first + k - 1] ELSE <<>>]
    /\ UNCHANGED <<tx, rx, uart, handler, calls, history>>

Receive(c) ==
    /\ client[c].pc = "sent"
    /\ client' = [client EXCEPT ![c].pc = "wait"]
    /\ UNCHANGED <<tx, rx, uart, main, handler, calls, history>>

ClientStep(c) == (\E op \in Ops, len \in Lens : Call(c, op, len)) \/ Send(c) \/ Receive(c)

-----------------------------------------------------------------------------
Init ==
    /\ tx = queue_init /\ rx = queue_init
    /\ uart = [ier |-> {}, thre |-> TRUE, thri |-> FALSE, rbr |-> <<>>, status |-> {}, changes |-> 0]
    /\ main = [Idle EXCEPT !.pc = "init"] /\ handler = "none"
    /\ client = [c \in Client |-> [pc |-> "idle", op |-> "read", len |-> 0, first |-> 1]]
    /\ calls = [made |-> 0, bytes |-> 0] /\ accepted = <<>> /\ sent = <<>> /\ arrived = 0 /\ taken = <<>> /\ lost = 0
    /\ txRaced = FALSE /\ rxRaced = FALSE

Handler ==
    \/ handle_interrupt \/ handle_modem_status \/ handle_line_status_interrupt
    \/ handle_transmitter_holding_register_empty \/ handle_received_data

Main ==
    \/ enable_all \/ log_iir \/ loop \/ refuse \/ serve_read \/ serve_write \/ serial_read \/ store_dequeued
    \/ serial_write \/ store_enqueued \/ enable_read \/ enable_specific_interrupt \/ reply

Next == Transmit \/ Arrive \/ StatusChange \/ Interrupt \/ Handler \/ Main
        \/ \E c \in Client : ClientStep(c)

Spec == Init /\ [][Next]_vars

\* The UART transmits what it holds, a pending interrupt is delivered, the driver and
\* the clients are scheduled.  Nothing need arrive, and no client need call.
FairSpec ==
    /\ Spec
    /\ WF_vars(Transmit) /\ WF_vars(Interrupt) /\ WF_vars(Handler) /\ WF_vars(Main)
    /\ \A c \in Client : WF_vars(Send(c)) /\ WF_vars(Receive(c))

-----------------------------------------------------------------------------
(* Properties *)

IsQueue(q) == q.front \in 0 .. BUFFER_SIZE - 1 /\ q.rear \in 0 .. BUFFER_SIZE - 1
              /\ q.count \in 0 .. BUFFER_SIZE

\* The queues of char_queue.c stay within their buffers, whatever counts are lost.
SerialTypeOK ==
    /\ IsQueue(tx) /\ IsQueue(rx)
    /\ uart.ier \subseteq Flag /\ Len(uart.rbr) <= FifoSize
    /\ handler \in {"none", "iir", "rx", "thre", "line", "modem"}
    /\ main.whom \in Client \cup {NONE}
    /\ main.pc = "reply" => main.whom \in Client

\* What serial_write accepted is what the handler has written to the UART followed by
\* what tx_queue holds, unless the handler took a byte between the load and the store of
\* the main loop's count++.
TransmitIntact == ~txRaced => accepted = sent \o Contents(tx, tx.count)

\* What was read, what rx_queue and the UART hold and what was dropped for want of room
\* is everything that arrived, each byte once and in order, unless the handler put a
\* byte into rx_queue between the load and the store of the main loop's count--.
ReceiveIntact ==
    ~rxRaced =>
        LET held == IF main.pc = "fetched"
                    THEN <<main.bytes[Len(main.bytes)]>> \o Contents(rx, rx.count - 1)
                    ELSE Contents(rx, rx.count)
            all == taken \o held \o uart.rbr
        IN  /\ Len(all) + lost = arrived
            /\ \A i, j \in 1 .. Len(all) : i < j => all[i] < all[j]

\* Between the main loop and the handler that interrupts it at any step no byte is
\* lost, doubled or reordered in either direction, but for the races named above.
QueuesIntact == SerialTypeOK /\ TransmitIntact /\ ReceiveIntact

\* A byte that serial_write accepted goes out: the interrupt that drains tx_queue is not
\* lost between enable_specific_interrupt in the main loop and the handler's disable.
WrittenIsSent ==
    \A n \in 1 .. MaxWrite : (Len(accepted) >= n) ~> (Len(sent) >= n \/ txRaced)

\* Every call is answered, races or not: the main loop never waits for room for ever.
CallsEnd == \A c \in Client : (client[c].pc # "idle") ~> (client[c].pc = "idle")

\* The driver sends what it was given, in order: what an interrupt within count++ breaks.
SentIsPrefix == Len(sent) <= Len(accepted) /\ sent = SubSeq(accepted, 1, Len(sent))
=============================================================================
