---------------------------- MODULE SerialProofs ----------------------------
(***************************************************************************)
(* The serial driver for any number of clients, any sizes of its queues    *)
(* and of the UART's, and an interrupt between any two of its steps: the   *)
(* queues stay within their buffers, and lose or reorder no byte but in    *)
(* the races on their counts.                                              *)
(***************************************************************************)
EXTENDS Serial, SequenceTheorems, TLAPS

-----------------------------------------------------------------------------
(* Sequences.                                                               *)

\* Taking the first of the second part over to the first one changes nothing.
LEMMA MoveOver ==
    ASSUME NEW S, NEW s \in Seq(S), NEW t \in Seq(S), NEW x \in S
    PROVE  s \o (<<x>> \o t) = Append(s, x) \o t
<1>1. <<x>> \in Seq(S)
  OBVIOUS
<1>2. Append(s, x) = s \o <<x>>
  BY AppendIsConcat
<1>3. (s \o <<x>>) \o t = s \o (<<x>> \o t)
  BY <1>1, ConcatAssociative
<1> QED BY <1>2, <1>3

\* A sequence that is not empty is its head before its tail.
LEMMA HeadFirst ==
    ASSUME NEW S, NEW s \in Seq(S), s # <<>>
    PROVE  s = <<Head(s)>> \o Tail(s) /\ Head(s) \in S /\ Tail(s) \in Seq(S)
<1>1. PICK h \in S, t \in Seq(S) : h = Head(s) /\ t = Tail(s)
  BY HeadTailProperties
<1>2. Len(t) = Len(s) - 1 /\ \A i \in 1 .. Len(t) : t[i] = s[i + 1]
  BY <1>1, HeadTailProperties
<1>3. Len(s) \in Nat \ {0} /\ s[1] = h
  BY <1>1, EmptySeq
<1>4. PICK u : u = <<h>> \o t
  OBVIOUS
<1>5. <<h>> \in Seq(S) /\ Len(<<h>>) = 1 /\ <<h>>[1] = h
  OBVIOUS
<1>6. /\ u \in Seq(S) /\ Len(u) = 1 + Len(t)
      /\ \A i \in 1 .. 1 + Len(t) : u[i] = IF i <= 1 THEN <<h>>[i] ELSE t[i - 1]
  BY <1>4, <1>5, ConcatProperties
<1>7. Len(u) = Len(s)
  BY <1>2, <1>3, <1>6
<1>8. \A i \in 1 .. Len(s) : s[i] = u[i]
  <2> TAKE i \in 1 .. Len(s)
  <2>1. CASE i = 1
    BY <2>1, <1>3, <1>5, <1>6, <1>2
  <2>2. CASE i # 1
    <3>1. i - 1 \in 1 .. Len(t) /\ i \in 1 .. 1 + Len(t) /\ ~(i <= 1)
      BY <2>2, <1>2, <1>3
    <3>2. u[i] = t[i - 1]
      BY <3>1, <1>6
    <3>3. t[i - 1] = s[i]
      BY <3>1, <1>2
    <3> QED BY <3>2, <3>3
  <2> QED BY <2>1, <2>2
<1>9. s = u
  BY <1>6, <1>7, <1>8, SeqEqual
<1> QED BY <1>1, <1>4, <1>9

-----------------------------------------------------------------------------
(* The circular buffer.                                                     *)

Byte == Nat \cup {NONE}

\* Appending to a concatenation is appending to its second part.
LEMMA AppendToSecond ==
    ASSUME NEW s \in Seq(Byte), NEW t \in Seq(Byte), NEW x \in Byte
    PROVE  Append(s \o t, x) = s \o Append(t, x)
<1>1. <<x>> \in Seq(Byte) /\ s \o t \in Seq(Byte)
  BY ConcatProperties
<1>2. Append(s \o t, x) = (s \o t) \o <<x>> /\ Append(t, x) = t \o <<x>>
  BY <1>1, AppendIsConcat
<1>3. (s \o t) \o <<x>> = s \o (t \o <<x>>)
  BY <1>1, ConcatAssociative
<1> QED BY <1>2, <1>3

Wrap(x) == IF x < BUFFER_SIZE THEN x ELSE x - BUFFER_SIZE

Queue == [buffer : [0 .. BUFFER_SIZE - 1 -> Byte], front : 0 .. BUFFER_SIZE - 1,
          rear : 0 .. BUFFER_SIZE - 1, count : 0 .. BUFFER_SIZE]

\* What is assumed of the buffer.
LEMMA SizeType == BUFFER_SIZE \in Nat \ {0}
BY SerialAssumption

\* The indices that the code takes modulo the size exceed it at most once.
LEMMA WrapIs ==
    ASSUME NEW x \in 0 .. 2 * BUFFER_SIZE - 1
    PROVE  x % BUFFER_SIZE = Wrap(x) /\ Wrap(x) \in 0 .. BUFFER_SIZE - 1
<1>1. PICK n \in Nat \ {0} : n = BUFFER_SIZE
  BY SizeType
<1>2. CASE x < n
  <2>1. x % n = x
    BY <1>2, <1>1
  <2> QED BY <2>1, <1>1, <1>2 DEF Wrap
<1>3. CASE ~(x < n)
  <2>1. x - n \in 0 .. n - 1
    BY <1>3, <1>1
  <2>2. x % n = x - n
    <3>1. x \div n \in Int /\ x = n * (x \div n) + (x % n) /\ x % n \in 0 .. n - 1
      BY <1>1
    <3>2. PICK d \in Int, r \in 0 .. n - 1 : d = x \div n /\ r = x % n /\ x = n * d + r
      BY <3>1
    <3>3. d = 1
      <4>1. ~(d <= 0)
        <5>1. d <= 0 => n * d <= 0
          OBVIOUS
        <5> QED BY <5>1, <3>2, <1>3
      <4>2. ~(d >= 2)
        <5>1. d >= 2 => n * d >= n * 2
          OBVIOUS
        <5> QED BY <5>1, <3>2, <2>1
      <4> QED BY <4>1, <4>2
    <3> QED BY <3>2, <3>3
  <2> QED BY <2>1, <2>2, <1>1, <1>3 DEF Wrap
<1> QED BY <1>2, <1>3

\* The contents of a ring are the bytes from its front on, in order.
LEMMA ContentsIs ==
    ASSUME NEW q \in Queue, NEW n \in 0 .. BUFFER_SIZE
    PROVE  /\ Contents(q, n) \in Seq(Byte) /\ Len(Contents(q, n)) = n
           /\ \A k \in 1 .. n : Contents(q, n)[k] = q.buffer[Wrap(q.front + k - 1)]
<1>1. PICK b \in [0 .. BUFFER_SIZE - 1 -> Byte], f \in 0 .. BUFFER_SIZE - 1 :
          b = q.buffer /\ f = q.front
  BY DEF Queue
<1>2. \A k \in 1 .. n : /\ (f + k - 1) % BUFFER_SIZE = Wrap(f + k - 1)
                        /\ Wrap(f + k - 1) \in 0 .. BUFFER_SIZE - 1
  <2> TAKE k \in 1 .. n
  <2>1. f + k - 1 \in 0 .. 2 * BUFFER_SIZE - 1
    BY SizeType
  <2> QED BY <2>1, WrapIs
<1>3. PICK c : c = [k \in 1 .. n |-> b[(f + k - 1) % BUFFER_SIZE]]
  OBVIOUS
<1>4. \A k \in 1 .. n : c[k] = b[Wrap(f + k - 1)] /\ c[k] \in Byte
  BY <1>2, <1>3
<1>5. c \in [1 .. n -> Byte] /\ n \in Nat
  BY <1>3, <1>4, SizeType
<1>6. c \in Seq(Byte) /\ Len(c) = n
  BY <1>5
<1>7. Contents(q, n) = c
  BY <1>1, <1>3 DEF Contents
<1> QED BY <1>1, <1>4, <1>6, <1>7

\* Removing the oldest byte.
LEMMA DequeueContents ==
    ASSUME NEW q \in Queue, NEW n \in 1 .. BUFFER_SIZE
    PROVE  /\ dequeue(q) \in Queue /\ dequeue(q).front = Wrap(q.front + 1)
           /\ dequeue(q).buffer = q.buffer /\ dequeue(q).rear = q.rear
           /\ dequeue(q).count = q.count
           /\ front(q) \in Byte
           /\ Contents(q, n) = <<front(q)>> \o Contents(dequeue(q), n - 1)
<1>1. PICK b \in [0 .. BUFFER_SIZE - 1 -> Byte], f \in 0 .. BUFFER_SIZE - 1,
           r \in 0 .. BUFFER_SIZE - 1, c \in 0 .. BUFFER_SIZE :
          q = [buffer |-> b, front |-> f, rear |-> r, count |-> c]
  BY DEF Queue
<1>2. PICK g \in 0 .. BUFFER_SIZE - 1 : g = Wrap(f + 1) /\ g = (f + 1) % BUFFER_SIZE
  <2>1. f + 1 \in 0 .. 2 * BUFFER_SIZE - 1
    BY SizeType
  <2> QED BY <2>1, WrapIs
<1>3. PICK p : p = [buffer |-> b, front |-> g, rear |-> r, count |-> c]
  OBVIOUS
<1>4. p = dequeue(q) /\ p \in Queue
  BY <1>1, <1>2, <1>3 DEF dequeue, Queue
<1>5. PICK h \in Byte : h = b[f] /\ h = front(q)
  BY <1>1 DEF front
<1>6. n - 1 \in 0 .. BUFFER_SIZE /\ n \in 0 .. BUFFER_SIZE
  BY SizeType
<1>7. PICK s, t : s = Contents(q, n) /\ t = Contents(p, n - 1)
  OBVIOUS
<1>8. s \in Seq(Byte) /\ Len(s) = n /\ \A k \in 1 .. n : s[k] = b[Wrap(f + k - 1)]
  BY <1>1, <1>6, <1>7, ContentsIs
<1>9. t \in Seq(Byte) /\ Len(t) = n - 1 /\ \A k \in 1 .. n - 1 : t[k] = b[Wrap(g + k - 1)]
  <2>1. PICK m \in 0 .. BUFFER_SIZE : m = n - 1
    BY <1>6
  <2>2. p.buffer = b /\ p.front = g
    BY <1>3
  <2>3. t = Contents(p, m)
    BY <1>7, <2>1
  <2>4. t \in Seq(Byte) /\ Len(t) = m /\ \A k \in 1 .. m : t[k] = b[Wrap(g + k - 1)]
    BY <2>2, <2>3, <1>4, ContentsIs
  <2> QED BY <2>1, <2>4
<1>10. PICK u : u = <<h>> \o t
  OBVIOUS
<1>11. <<h>> \in Seq(Byte) /\ Len(<<h>>) = 1 /\ <<h>>[1] = h
  OBVIOUS
<1>12. /\ u \in Seq(Byte) /\ Len(u) = n
       /\ \A i \in 1 .. n : u[i] = IF i <= 1 THEN <<h>>[i] ELSE t[i - 1]
  BY <1>9, <1>10, <1>11, ConcatProperties, SizeType
<1>13. \A k \in 1 .. n : s[k] = u[k]
  <2> TAKE k \in 1 .. n
  <2>1. CASE k = 1
    <3>1. Wrap(f + k - 1) = f
      BY <2>1, SizeType DEF Wrap
    <3>2. s[k] = b[f]
      BY <3>1, <1>8
    <3>3. u[k] = <<h>>[k]
      BY <2>1, <1>12
    <3> QED BY <2>1, <3>2, <3>3, <1>5, <1>11
  <2>2. CASE k # 1
    <3>1. k - 1 \in 1 .. n - 1 /\ ~(k <= 1)
      BY <2>2
    <3>2. Wrap(g + (k - 1) - 1) = Wrap(f + k - 1)
      BY <3>1, <1>2, SizeType DEF Wrap
    <3>3. u[k] = t[k - 1] /\ t[k - 1] = b[Wrap(g + (k - 1) - 1)]
      BY <3>1, <1>9, <1>12
    <3> QED BY <3>2, <3>3, <1>8
  <2> QED BY <2>1, <2>2
<1>14. s = u
  BY <1>8, <1>12, <1>13, SeqEqual
<1> QED BY <1>1, <1>2, <1>3, <1>4, <1>5, <1>7, <1>10, <1>14, SMTT(30)

\* Adding a byte changes one place of the buffer and leaves the front.
LEMMA EnqueueType ==
    ASSUME NEW q \in Queue, NEW x \in Byte
    PROVE  /\ enqueue(q, x) \in Queue
           /\ enqueue(q, x).front = q.front /\ enqueue(q, x).rear = Wrap(q.rear + 1)
           /\ enqueue(q, x).count = q.count
           /\ enqueue(q, x).buffer = [q.buffer EXCEPT ![Wrap(q.rear + 1)] = x]
<1>1. PICK b \in [0 .. BUFFER_SIZE - 1 -> Byte], f \in 0 .. BUFFER_SIZE - 1,
           r \in 0 .. BUFFER_SIZE - 1, c \in 0 .. BUFFER_SIZE :
          q = [buffer |-> b, front |-> f, rear |-> r, count |-> c]
  BY DEF Queue
<1>2. PICK z \in 0 .. BUFFER_SIZE - 1 : z = Wrap(r + 1) /\ z = (r + 1) % BUFFER_SIZE
  <2>1. r + 1 \in 0 .. 2 * BUFFER_SIZE - 1
    BY SizeType
  <2> QED BY <2>1, WrapIs
<1>3. PICK d \in [0 .. BUFFER_SIZE - 1 -> Byte] : d = [b EXCEPT ![z] = x]
  OBVIOUS
<1>4. PICK p : p = [buffer |-> d, front |-> f, rear |-> z, count |-> c]
  OBVIOUS
<1>5. p \in Queue
  BY <1>4 DEF Queue
<1>6. q.rear = r /\ q.buffer = b /\ q.front = f /\ q.count = c
  BY <1>1
<1>7. p = enqueue(q, x)
  <2>1. enqueue(q, x) = [q EXCEPT !.rear = z, !.buffer = [q.buffer EXCEPT ![z] = x]]
    BY <1>2, <1>6 DEF enqueue
  <2>2. enqueue(q, x) = [q EXCEPT !.rear = z, !.buffer = d]
    BY <2>1, <1>3, <1>6
  <2> QED BY <2>2, <1>1, <1>4
<1>8. p.rear = z /\ p.front = f /\ p.count = c /\ p.buffer = d
  BY <1>4
<1>9. enqueue(q, x).buffer = [q.buffer EXCEPT ![Wrap(q.rear + 1)] = x]
  BY <1>2, <1>3, <1>6, <1>7, <1>8
<1> QED BY <1>2, <1>5, <1>6, <1>7, <1>8, <1>9

\* Adding a byte behind the last of n.
LEMMA EnqueueContents ==
    ASSUME NEW q \in Queue, NEW n \in 0 .. BUFFER_SIZE - 1, NEW x \in Byte,
           Wrap(q.rear + 1) = Wrap(q.front + n)
    PROVE  /\ enqueue(q, x).rear = Wrap(q.front + n)
           /\ enqueue(q, x).buffer[Wrap(q.front + n)] = x
           /\ Contents(enqueue(q, x), n) = Contents(q, n)
           /\ Contents(enqueue(q, x), n + 1) = Append(Contents(q, n), x)
<1>1. PICK b \in [0 .. BUFFER_SIZE - 1 -> Byte], f \in 0 .. BUFFER_SIZE - 1 :
          b = q.buffer /\ f = q.front
  BY DEF Queue
<1>2. PICK p \in Queue : p = enqueue(q, x)
  BY EnqueueType
<1>3. PICK z \in 0 .. BUFFER_SIZE - 1 : z = Wrap(f + n) /\ z = Wrap(q.rear + 1)
  <2>1. f + n \in 0 .. 2 * BUFFER_SIZE - 1
    BY SizeType
  <2> QED BY <2>1, <1>1, WrapIs
<1>4. p.front = f /\ p.rear = z /\ p.buffer = [b EXCEPT ![z] = x]
  BY <1>1, <1>2, <1>3, EnqueueType
<1>5. p.buffer[z] = x /\ \A i \in 0 .. BUFFER_SIZE - 1 : i # z => p.buffer[i] = b[i]
  BY <1>4
<1>6. n \in 0 .. BUFFER_SIZE /\ n + 1 \in 0 .. BUFFER_SIZE
  BY SizeType
<1>7. PICK s, t, u : s = Contents(q, n) /\ t = Contents(p, n) /\ u = Contents(p, n + 1)
  OBVIOUS
<1>8. s \in Seq(Byte) /\ Len(s) = n /\ \A k \in 1 .. n : s[k] = b[Wrap(f + k - 1)]
  BY <1>1, <1>6, <1>7, ContentsIs
<1>9. t \in Seq(Byte) /\ Len(t) = n /\ \A k \in 1 .. n : t[k] = p.buffer[Wrap(f + k - 1)]
  <2>1. p.front = f
    BY <1>4
  <2> QED BY <2>1, <1>6, <1>7, ContentsIs
<1>10. /\ u \in Seq(Byte) /\ Len(u) = n + 1
       /\ \A k \in 1 .. n + 1 : u[k] = p.buffer[Wrap(f + k - 1)]
  <2>1. PICK m \in 0 .. BUFFER_SIZE : m = n + 1
    BY <1>6
  <2>2. u = Contents(p, m)
    BY <1>7, <2>1
  <2>3. u \in Seq(Byte) /\ Len(u) = m /\ \A k \in 1 .. m : u[k] = p.buffer[Wrap(f + k - 1)]
    <3>1. p.front = f
      BY <1>4
    <3> QED BY <3>1, <2>2, ContentsIs
  <2> QED BY <2>1, <2>3
<1>11. \A k \in 1 .. n : /\ Wrap(f + k - 1) \in 0 .. BUFFER_SIZE - 1
                         /\ Wrap(f + k - 1) # z
  BY <1>3, SizeType DEF Wrap
<1>12. \A k \in 1 .. n : p.buffer[Wrap(f + k - 1)] = s[k]
  BY <1>5, <1>8, <1>11
<1>13. s = t
  <2>1. \A k \in 1 .. n : s[k] = t[k]
    BY <1>9, <1>12
  <2> QED BY <2>1, <1>8, <1>9, SeqEqual
<1>14. PICK a : a = Append(s, x)
  OBVIOUS
<1>15. a \in Seq(Byte) /\ Len(a) = n + 1 /\ a[n + 1] = x /\ \A k \in 1 .. n : a[k] = s[k]
  BY <1>8, <1>14, AppendProperties
<1>16. u = a
  <2>1. \A k \in 1 .. n + 1 : u[k] = a[k]
    <3> TAKE k \in 1 .. n + 1
    <3>1. CASE k = n + 1
      <4>1. Wrap(f + k - 1) = z
        BY <3>1, <1>3, SizeType DEF Wrap
      <4> QED BY <3>1, <4>1, <1>5, <1>10, <1>15
    <3>2. CASE k # n + 1
      <4>1. k \in 1 .. n
        BY <3>2
      <4> QED BY <4>1, <1>10, <1>12, <1>15
    <3> QED BY <3>1, <3>2
  <2> QED BY <2>1, <1>10, <1>15, SeqEqual
<1>17. p.rear = Wrap(q.front + n) /\ p.buffer[Wrap(q.front + n)] = x
  BY <1>1, <1>3, <1>4, <1>5
<1> QED BY <1>2, <1>7, <1>13, <1>14, <1>16, <1>17

-----------------------------------------------------------------------------
(* The invariant.                                                           *)

\* Where the main loop works for a client, and everywhere it can be.
Serving == {"request", "read", "fetched", "write", "stored", "ier", "enable", "reply"}
MainPc == Serving \cup {"init", "log", "loop", "recv"}

Uart == [ier : SUBSET Flag, thre : BOOLEAN, thri : BOOLEAN, rbr : Seq(Nat),
         status : SUBSET {"line", "modem"}, changes : Nat]
MainRec == [pc : MainPc, whom : Client \cup {NONE}, op : Op, bytes : Seq(Byte), len : Nat,
            reg : 0 .. BUFFER_SIZE, ier : SUBSET Flag, then : {"reply", "write"}, val : Int]
ClientRec == [pc : {"idle", "send", "sent", "wait"}, op : Op, len : Nat, first : Nat]

UartInv == uart \in Uart /\ Len(uart.rbr) <= FifoSize
HandlerInv == handler \in {"none", "iir", "rx", "thre", "line", "modem"}

\* What the main loop holds in registers is there when it needs it: a byte to store or
\* to give back, and a count that the store leaves within the buffer.
MainInv ==
    /\ main \in MainRec
    /\ main.pc \in Serving => main.whom \in Client
    /\ main.pc = "stored" => main.bytes # <<>> /\ main.reg < BUFFER_SIZE
    /\ main.pc = "fetched" => main.bytes # <<>> /\ main.reg > 0

ClientInv ==
    /\ client \in [Client -> ClientRec]
    /\ calls \in [made : Nat, bytes : Nat]

QueueInv ==
    /\ tx \in Queue /\ rx \in Queue
    /\ accepted \in Seq(Byte) /\ sent \in Seq(Byte) /\ taken \in Seq(Byte)
    /\ arrived \in Nat /\ lost \in Nat /\ txRaced \in BOOLEAN /\ rxRaced \in BOOLEAN

TypeInv == UartInv /\ HandlerInv /\ MainInv /\ ClientInv /\ QueueInv

\* The transmit side outside the race: the rear of the queue follows from its front and
\* its count, but between the two stores of enqueue in the main loop, when the byte is
\* in its place and the count does not include it.
TransmitInv ==
    ~txRaced =>
        /\ accepted = sent \o Contents(tx, tx.count)
        /\ main.pc # "stored" => Wrap(tx.rear + 1) = Wrap(tx.front + tx.count)
        /\ main.pc = "stored" => /\ main.reg = tx.count
                                 /\ tx.rear = Wrap(tx.front + tx.count)
                                 /\ tx.buffer[tx.rear] = Head(main.bytes)

\* What the driver holds of the bytes that arrived and were not read.
Held == IF main.pc = "fetched"
        THEN <<main.bytes[Len(main.bytes)]>> \o Contents(rx, rx.count - 1)
        ELSE Contents(rx, rx.count)

\* A sequence that keeps the order of the n bytes that arrived, with k of them missing.
InOrder(s, n, k) ==
    /\ Len(s) + k = n
    /\ \A i \in 1 .. Len(s) : s[i] \in 1 .. n
    /\ \A i, j \in 1 .. Len(s) : i < j => s[i] < s[j]

\* The receive side outside the race; between the two stores of dequeue in the main loop
\* the front has moved and the count still includes the byte.
ReceiveInv ==
    ~rxRaced =>
        /\ InOrder(taken \o Held \o uart.rbr, arrived, lost)
        /\ main.pc # "fetched" => Wrap(rx.rear + 1) = Wrap(rx.front + rx.count)
        /\ main.pc = "fetched" => /\ main.reg = rx.count
                                  /\ Wrap(rx.rear + 1) = Wrap(rx.front + (rx.count - 1))

SerialInv == TypeInv /\ TransmitInv /\ ReceiveInv

-----------------------------------------------------------------------------
(* Types.                                                                   *)


\* The record of a main loop outside a request has its type.
LEMMA IdleType == Idle \in MainRec
<1>1. <<>> \in Seq(Byte)
  OBVIOUS
<1> QED BY <1>1, SizeType DEF Idle, MainRec, MainPc, Serving, Op

\* The identification register names one cause.
LEMMA IirType == IIR \in {"none", "rx", "thre", "line", "modem"}
BY DEF IIR

\* Writing the enable register leaves the receive buffer alone.
LEMMA SetIERType ==
    ASSUME uart \in Uart, NEW s \in SUBSET Flag
    PROVE  SetIER(s) \in Uart /\ SetIER(s).rbr = uart.rbr
BY DEF Uart, SetIER, Flag

\* The initial state has its type.
LEMMA InitTyped == Init => TypeInv
<1> SUFFICES ASSUME Init PROVE TypeInv
  OBVIOUS
<1>1. UartInv
  <2>1. <<>> \in Seq(Nat) /\ Len(<<>>) = 0
    OBVIOUS
  <2> QED BY <2>1, SerialAssumption DEF Init, UartInv, Uart
<1>2. HandlerInv
  BY DEF Init, HandlerInv
<1>3. MainInv
  <2>1. main \in MainRec /\ main.pc = "init"
    BY IdleType DEF Init, Idle, MainRec, MainPc
  <2> QED BY <2>1 DEF MainInv, Serving
<1>4. ClientInv
  BY DEF Init, ClientInv, ClientRec, Op
<1>5. QueueInv
  <2>1. queue_init \in Queue
    <3>1. [n \in 0 .. BUFFER_SIZE - 1 |-> NONE] \in [0 .. BUFFER_SIZE - 1 -> Byte]
      BY DEF Byte
    <3> QED BY <3>1, SizeType DEF queue_init, Queue
  <2>2. <<>> \in Seq(Byte)
    OBVIOUS
  <2> QED BY <2>1, <2>2 DEF Init, QueueInv
<1> QED BY <1>1, <1>2, <1>3, <1>4, <1>5 DEF TypeInv

\* A step of the UART.
LEMMA UartStepTyped ==
    ASSUME TypeInv, Transmit \/ Arrive \/ StatusChange
    PROVE  TypeInv'
<1> USE DEF TypeInv
<1>1. CASE Transmit
  BY <1>1 DEF Transmit, UartInv, Uart, HandlerInv, MainInv, ClientInv, QueueInv, history
<1>2. CASE Arrive
  <2>1. UartInv'
    <3>1. CASE Len(uart.rbr) < FifoSize
      <4>1. PICK r \in Seq(Nat) : r = uart.rbr /\ Len(r) < FifoSize
        BY <3>1 DEF UartInv, Uart
      <4>2. arrived + 1 \in Nat
        BY DEF QueueInv
      <4>3. PICK s : s = Append(r, arrived + 1)
        OBVIOUS
      <4>4. s \in Seq(Nat) /\ Len(s) = Len(r) + 1
        BY <4>2, <4>3, AppendProperties
      <4>5. uart' = [uart EXCEPT !.rbr = s]
        BY <1>2, <3>1, <4>1, <4>3 DEF Arrive
      <4>6. uart' \in Uart /\ uart'.rbr = s
        BY <4>4, <4>5 DEF UartInv, Uart
      <4> QED BY <4>1, <4>4, <4>6, SerialAssumption DEF UartInv
    <3>2. CASE ~(Len(uart.rbr) < FifoSize)
      BY <1>2, <3>2 DEF Arrive, UartInv, Uart
    <3> QED BY <3>1, <3>2
  <2>2. QueueInv'
    BY <1>2 DEF Arrive, QueueInv
  <2> QED BY <1>2, <2>1, <2>2 DEF Arrive, HandlerInv, MainInv, ClientInv
<1>3. CASE StatusChange
  <2>1. UartInv'
    <3>1. PICK s \in {"line", "modem"} :
             uart' = [uart EXCEPT !.status = @ \cup {s}, !.changes = @ + 1]
      BY <1>3 DEF StatusChange
    <3>2. uart.status \cup {s} \in SUBSET {"line", "modem"} /\ uart.changes + 1 \in Nat
      BY DEF UartInv, Uart
    <3> QED BY <3>1, <3>2 DEF UartInv, Uart
  <2> QED BY <1>3, <2>1 DEF StatusChange, HandlerInv, MainInv, ClientInv, QueueInv, history
<1> QED BY <1>1, <1>2, <1>3

\* A queue whose count is stored.
LEMMA CountType ==
    ASSUME NEW q \in Queue, NEW n \in 0 .. BUFFER_SIZE
    PROVE  LET p == [q EXCEPT !.count = n]
           IN  /\ p \in Queue /\ p.count = n
               /\ p.front = q.front /\ p.rear = q.rear /\ p.buffer = q.buffer
BY DEF Queue

\* A step of the handler, or the interrupt that starts it.
LEMMA HandlerStepTyped ==
    ASSUME TypeInv, Interrupt \/ Handler
    PROVE  TypeInv'
<1> USE DEF TypeInv
<1>1. CASE Interrupt
  <2>1. MainInv'
    BY <1>1 DEF Interrupt, MainInv, MainRec, MainPc, Serving
  <2> QED BY <1>1, <2>1 DEF Interrupt, UartInv, HandlerInv, ClientInv, QueueInv, history
<1>2. CASE handle_interrupt
  <2>1. UartInv'
    <3>1. PICK t \in BOOLEAN : t = (uart.thri /\ IIR # "thre") /\ uart' = [uart EXCEPT !.thri = t]
      BY <1>2 DEF handle_interrupt
    <3> QED BY <3>1 DEF UartInv, Uart
  <2> QED BY <1>2, <2>1, IirType
          DEF handle_interrupt, HandlerInv, MainInv, ClientInv, QueueInv, history
<1>3. CASE handle_modem_status
  <2>1. UartInv'
    BY <1>3 DEF handle_modem_status, UartInv, Uart
  <2> QED BY <1>3, <2>1 DEF handle_modem_status, HandlerInv, MainInv, ClientInv, QueueInv, history
<1>4. CASE handle_line_status_interrupt
  <2>1. UartInv'
    BY <1>4 DEF handle_line_status_interrupt, UartInv, Uart
  <2> QED BY <1>4, <2>1
          DEF handle_line_status_interrupt, HandlerInv, MainInv, ClientInv, QueueInv, history
<1>5. CASE handle_transmitter_holding_register_empty
  <2>0. MainInv' /\ ClientInv'
    BY <1>5 DEF handle_transmitter_holding_register_empty, MainInv, ClientInv
  <2>1. CASE is_empty(tx)
    <3>1. uart' = SetIER(uart.ier \ {"ETBEI"}) /\ handler' = "iir" /\ UNCHANGED <<tx, sent, txRaced>>
      BY <1>5, <2>1 DEF handle_transmitter_holding_register_empty, disable_specific_interrupt
    <3>2. uart.ier \ {"ETBEI"} \in SUBSET Flag /\ uart \in Uart
      BY DEF UartInv, Uart
    <3>3. uart' \in Uart /\ uart'.rbr = uart.rbr
      BY <3>1, <3>2, SetIERType
    <3> QED BY <1>5, <2>0, <3>1, <3>3
            DEF handle_transmitter_holding_register_empty, UartInv, HandlerInv, QueueInv
  <2>2. CASE ~is_empty(tx) /\ ~uart.thre
    <3>1. /\ uart' = [uart EXCEPT !.status = @ \ {"line"}]
          /\ handler' = "iir" /\ UNCHANGED <<tx, sent, txRaced>>
      BY <1>5, <2>2 DEF handle_transmitter_holding_register_empty
    <3>2. UartInv'
      BY <3>1 DEF UartInv, Uart
    <3> QED BY <1>5, <2>0, <3>1, <3>2
            DEF handle_transmitter_holding_register_empty, HandlerInv, QueueInv
  <2>3. CASE ~is_empty(tx) /\ uart.thre
    <3>1. /\ tx' = [dequeue(tx) EXCEPT !.count = @ - 1] /\ sent' = Append(sent, front(tx))
          /\ uart' = [uart EXCEPT !.status = @ \ {"line"}, !.thre = FALSE, !.thri = FALSE]
          /\ txRaced' = (txRaced \/ main.pc = "stored") /\ handler' = handler
      BY <1>5, <2>3 DEF handle_transmitter_holding_register_empty
    <3>2. UartInv'
      BY <3>1 DEF UartInv, Uart
    <3>3. tx \in Queue /\ tx.count \in 1 .. BUFFER_SIZE
      BY <2>3, SizeType DEF QueueInv, Queue, is_empty
    <3>4. dequeue(tx) \in Queue /\ dequeue(tx).count = tx.count /\ front(tx) \in Byte
      BY <3>3, DequeueContents
    <3>5. PICK n \in 0 .. BUFFER_SIZE : n = tx.count - 1
      BY <3>3, SizeType
    <3>6. tx' = [dequeue(tx) EXCEPT !.count = n]
      BY <3>1, <3>4, <3>5
    <3>7. tx' \in Queue
      BY <3>4, <3>6, CountType
    <3>8. sent' \in Seq(Byte)
      BY <3>1, <3>4, AppendProperties DEF QueueInv
    <3>9. QueueInv'
      BY <1>5, <3>1, <3>7, <3>8 DEF handle_transmitter_holding_register_empty, QueueInv
    <3> QED BY <2>0, <3>1, <3>2, <3>9 DEF HandlerInv
  <2> QED BY <2>1, <2>2, <2>3
<1>6. CASE handle_received_data
  <2>0. MainInv' /\ ClientInv'
    BY <1>6 DEF handle_received_data, MainInv, ClientInv
  <2>1. CASE uart.rbr = <<>>
    <3>1. /\ uart' = [uart EXCEPT !.status = @ \ {"line"}]
          /\ handler' = "iir" /\ UNCHANGED <<rx, lost, rxRaced>>
      BY <1>6, <2>1 DEF handle_received_data
    <3>2. UartInv'
      BY <3>1 DEF UartInv, Uart
    <3> QED BY <1>6, <2>0, <3>1, <3>2 DEF handle_received_data, HandlerInv, QueueInv
  <2>2. CASE uart.rbr # <<>>
    <3>1. PICK r \in Seq(Nat) : r = uart.rbr /\ r # <<>> /\ Len(r) <= FifoSize
      BY <2>2 DEF UartInv, Uart
    <3>2. Head(r) \in Nat /\ Tail(r) \in Seq(Nat) /\ Len(Tail(r)) = Len(r) - 1
      BY <3>1, HeadTailProperties
    <3>3. uart' = [uart EXCEPT !.status = @ \ {"line"}, !.rbr = Tail(r)] /\ handler' = handler
      BY <1>6, <3>1 DEF handle_received_data
    <3>4. UartInv'
      <4>1. uart' \in Uart /\ uart'.rbr = Tail(r)
        BY <3>2, <3>3 DEF UartInv, Uart
      <4> QED BY <4>1, <3>1, <3>2, SerialAssumption DEF UartInv
    <3>5. CASE is_full(rx)
      <4>1. lost' = lost + 1 /\ UNCHANGED <<rx, rxRaced>>
        BY <1>6, <3>1, <3>5 DEF handle_received_data
      <4> QED BY <1>6, <2>0, <3>3, <3>4, <4>1 DEF handle_received_data, HandlerInv, QueueInv
    <3>6. CASE ~is_full(rx)
      <4>1. /\ rx' = [enqueue(rx, Head(r)) EXCEPT !.count = @ + 1]
            /\ rxRaced' = (rxRaced \/ main.pc = "fetched") /\ UNCHANGED lost
        BY <1>6, <3>1, <3>6 DEF handle_received_data
      <4>2. rx \in Queue /\ Head(r) \in Byte
        BY <3>2 DEF QueueInv, Byte
      <4>3. enqueue(rx, Head(r)) \in Queue /\ enqueue(rx, Head(r)).count = rx.count
        BY <4>2, EnqueueType
      <4>4. PICK n \in 0 .. BUFFER_SIZE : n = rx.count + 1
        BY <4>2, <3>6, SizeType DEF Queue, is_full
      <4>5. rx' = [enqueue(rx, Head(r)) EXCEPT !.count = n]
        BY <4>1, <4>3, <4>4
      <4>6. rx' \in Queue
        BY <4>3, <4>5, CountType
      <4>7. QueueInv'
        BY <1>6, <4>1, <4>6 DEF handle_received_data, QueueInv
      <4> QED BY <2>0, <3>3, <3>4, <4>7 DEF HandlerInv
    <3> QED BY <3>5, <3>6
  <2> QED BY <2>1, <2>2
<1> QED BY <1>1, <1>2, <1>3, <1>4, <1>5, <1>6 DEF Handler

\* The main loop is about to answer.
LEMMA ReplyTyped ==
    ASSUME MainInv, main.pc \in Serving, NEW n \in Int,
           main' = [main EXCEPT !.pc = "reply", !.val = n]
    PROVE  MainInv'
<1>1. main \in MainRec /\ main.whom \in Client
  BY DEF MainInv
<1>2. main' \in MainRec
  BY <1>1 DEF MainRec, MainPc, Serving
<1>3. main'.pc = "reply" /\ main'.whom = main.whom
  BY <1>1 DEF MainRec
<1> QED BY <1>1, <1>2, <1>3 DEF MainInv

\* The steps of the main loop that leave the queues alone.
LEMMA ControlStepTyped ==
    ASSUME TypeInv,
           \/ enable_all \/ log_iir \/ loop \/ refuse \/ serve_read \/ serve_write
           \/ enable_read \/ enable_specific_interrupt \/ reply
    PROVE  TypeInv'
<1> USE DEF TypeInv
<1>0. main \in MainRec /\ uart \in Uart /\ Len(uart.rbr) <= FifoSize
  BY DEF MainInv, UartInv
<1>1. CASE enable_all
  <2>1. uart' = SetIER(Flag) /\ main' = [main EXCEPT !.pc = "log"]
    BY <1>1 DEF enable_all, enable_serial_interrupt
  <2>2. UartInv'
    BY <2>1, <1>0, SetIERType DEF UartInv
  <2>3. MainInv'
    BY <2>1, <1>0 DEF MainInv, MainRec, MainPc, Serving
  <2> QED BY <1>1, <2>2, <2>3 DEF enable_all, HandlerInv, ClientInv, QueueInv, history
<1>2. CASE log_iir
  <2>1. PICK t \in BOOLEAN : t = (uart.thri /\ IIR # "thre") /\ uart' = [uart EXCEPT !.thri = t]
    BY <1>2 DEF log_iir
  <2>2. UartInv'
    BY <2>1, <1>0 DEF UartInv, Uart
  <2>3. MainInv'
    BY <1>2, <1>0 DEF log_iir, MainInv, MainRec, MainPc, Serving
  <2> QED BY <1>2, <2>2, <2>3 DEF log_iir, HandlerInv, ClientInv, QueueInv, history
<1>3. CASE loop
  <2>1. MainInv'
    <3>1. main' = Idle /\ Idle.pc = "recv"
      BY <1>3 DEF loop, Idle
    <3> QED BY <3>1, IdleType DEF MainInv, Serving
  <2> QED BY <1>3, <2>1 DEF loop, UartInv, HandlerInv, ClientInv, QueueInv, history
<1>4. CASE refuse
  <2>1. MainInv'
    <3>1. PICK n : n = IF main.op = "nofunc" THEN -2 ELSE -3
      OBVIOUS
    <3>2. main' = [main EXCEPT !.pc = "reply", !.val = n] /\ n \in Int
      BY <1>4, <3>1 DEF refuse
    <3>3. main.pc \in Serving
      BY <1>4 DEF refuse, Running, Serving
    <3> QED BY <3>2, <3>3, ReplyTyped
  <2> QED BY <1>4, <2>1 DEF refuse, UartInv, HandlerInv, ClientInv, QueueInv, history
<1>5. CASE serve_read
  <2>1. MainInv'
    <3>1. main.whom \in Client
      BY <1>5 DEF serve_read, Running, MainInv, Serving
    <3>2. CASE main.op = "long read"
      <4>1. PICK n : n = -1
        OBVIOUS
      <4>0. main' = IF main.op = "long read" THEN [main EXCEPT !.pc = "reply", !.val = -1]
                    ELSE [main EXCEPT !.pc = "read"]
        BY ONLY <1>5, Zenon DEF serve_read
      <4>1a. main' = [main EXCEPT !.pc = "reply", !.val = -1]
        BY ONLY <4>0, <3>2, Zenon
      <4>2. main' = [main EXCEPT !.pc = "reply", !.val = n] /\ n \in Int
        <5>1. n \in Int
          BY ONLY <4>1
        <5>2. main' = [main EXCEPT !.pc = "reply", !.val = n]
          BY ONLY <4>1, <4>1a, Zenon
        <5> QED BY ONLY <5>1, <5>2
      <4>3. main.pc \in Serving
        BY <1>5 DEF serve_read, Running, Serving
      <4> QED BY <4>2, <4>3, ReplyTyped
    <3>3. CASE main.op # "long read"
      <4>1. main' = [main EXCEPT !.pc = "read"]
        BY <1>5, <3>3 DEF serve_read
      <4> QED BY <4>1, <3>1, <1>0 DEF MainInv, MainRec, MainPc, Serving
    <3> QED BY <3>2, <3>3
  <2> QED BY <1>5, <2>1 DEF serve_read, UartInv, HandlerInv, ClientInv, QueueInv, history
<1>6. CASE serve_write
  <2>1. MainInv'
    <3>1. main.whom \in Client
      BY <1>6 DEF serve_write, Running, MainInv, Serving
    <3>2. CASE main.op = "long write"
      <4>1. PICK n : n = -1
        OBVIOUS
      <4>0. main' = IF main.op = "long write" THEN [main EXCEPT !.pc = "reply", !.val = -1]
                    ELSE [main EXCEPT !.pc = "write"]
        BY ONLY <1>6, Zenon DEF serve_write
      <4>1a. main' = [main EXCEPT !.pc = "reply", !.val = -1]
        BY ONLY <4>0, <3>2, Zenon
      <4>2. main' = [main EXCEPT !.pc = "reply", !.val = n] /\ n \in Int
        <5>1. n \in Int
          BY ONLY <4>1
        <5>2. main' = [main EXCEPT !.pc = "reply", !.val = n]
          BY ONLY <4>1, <4>1a, Zenon
        <5> QED BY ONLY <5>1, <5>2
      <4>3. main.pc \in Serving
        BY <1>6 DEF serve_write, Running, Serving
      <4> QED BY <4>2, <4>3, ReplyTyped
    <3>3. CASE main.op # "long write"
      <4>1. main' = [main EXCEPT !.pc = "write"]
        BY <1>6, <3>3 DEF serve_write
      <4> QED BY <4>1, <3>1, <1>0 DEF MainInv, MainRec, MainPc, Serving
    <3> QED BY <3>2, <3>3
  <2> QED BY <1>6, <2>1 DEF serve_write, UartInv, HandlerInv, ClientInv, QueueInv, history
<1>7. CASE enable_read
  <2>1. MainInv'
    <3>1. PICK s \in SUBSET Flag : main' = [main EXCEPT !.pc = "enable", !.ier = s]
      BY <1>7, <1>0 DEF enable_read, Uart, Flag
    <3>2. main.whom \in Client
      BY <1>7 DEF enable_read, Running, MainInv, Serving
    <3> QED BY <3>1, <3>2, <1>0 DEF MainInv, MainRec, MainPc, Serving
  <2> QED BY <1>7, <2>1 DEF enable_read, UartInv, HandlerInv, ClientInv, QueueInv, history
<1>8. CASE enable_specific_interrupt
  <2>1. uart' = SetIER(main.ier) /\ main' = [main EXCEPT !.pc = main.then, !.ier = {}]
    BY <1>8 DEF enable_specific_interrupt, enable_serial_interrupt
  <2>2. UartInv'
    <3>1. main.ier \in SUBSET Flag
      BY <1>0 DEF MainRec
    <3> QED BY <2>1, <3>1, <1>0, SetIERType DEF UartInv
  <2>3. MainInv'
    <3>1. main.whom \in Client
      BY <1>8 DEF enable_specific_interrupt, Running, MainInv, Serving
    <3>2. PICK t \in {"reply", "write"} : t = main.then
      BY <1>0 DEF MainRec
    <3> QED BY <2>1, <3>1, <3>2, <1>0 DEF MainInv, MainRec, MainPc, Serving
  <2> QED BY <1>8, <2>2, <2>3 DEF enable_specific_interrupt, HandlerInv, ClientInv, QueueInv, history
<1>9. CASE reply
  <2>1. MainInv'
    <3>1. main' = [Idle EXCEPT !.pc = "loop"]
      BY <1>9 DEF reply
    <3>2. main' \in MainRec /\ main'.pc = "loop"
      BY <3>1, IdleType DEF Idle, MainRec, MainPc
    <3> QED BY <3>2 DEF MainInv, Serving
  <2>2. ClientInv'
    BY <1>9 DEF reply, ClientInv, ClientRec
  <2> QED BY <1>9, <2>1, <2>2 DEF reply, UartInv, HandlerInv, QueueInv, history
<1> QED BY <1>1, <1>2, <1>3, <1>4, <1>5, <1>6, <1>7, <1>8, <1>9

\* The steps of the main loop on the queues.
LEMMA QueueStepTyped ==
    ASSUME TypeInv, serial_read \/ store_dequeued \/ serial_write \/ store_enqueued
    PROVE  TypeInv'
<1> USE DEF TypeInv
<1>0. /\ main \in MainRec /\ tx \in Queue /\ rx \in Queue /\ main.pc \in Serving
      /\ main.whom \in Client /\ main.bytes \in Seq(Byte) /\ Len(main.bytes) \in Nat
  <2>1. main.pc \in Serving
    BY DEF serial_read, store_dequeued, serial_write, store_enqueued, Running, Serving
  <2>2. main \in MainRec /\ tx \in Queue /\ rx \in Queue /\ main.whom \in Client
    BY <2>1 DEF MainInv, QueueInv
  <2>3. main.bytes \in Seq(Byte)
    BY <2>2 DEF MainRec
  <2> QED BY <2>1, <2>2, <2>3
<1>1. CASE serial_read
  <2>0. UartInv' /\ HandlerInv' /\ ClientInv'
    BY <1>1 DEF serial_read, UartInv, HandlerInv, ClientInv
  <2>1. CASE is_empty(rx) \/ Len(main.bytes) >= main.len
    <3>1. PICK n : n = Len(main.bytes)
      OBVIOUS
    <3>2. MainInv'
      <4>1. main' = [main EXCEPT !.pc = "reply", !.val = n] /\ n \in Int
        BY <1>0, <1>1, <2>1, <3>1 DEF serial_read
      <4>2. main.pc \in Serving
        BY <1>0
      <4> QED BY <4>1, <4>2, ReplyTyped
    <3>3. rx' = rx
      BY <1>1, <2>1 DEF serial_read
    <3> QED BY <1>1, <2>0, <3>2, <3>3 DEF serial_read, QueueInv, history
  <2>2. CASE ~(is_empty(rx) \/ Len(main.bytes) >= main.len)
    <3>1. PICK b : b = Append(main.bytes, front(rx))
      OBVIOUS
    <3>2. rx' = dequeue(rx) /\ main' = [main EXCEPT !.pc = "fetched", !.reg = rx.count, !.bytes = b]
      BY <1>1, <2>2, <3>1 DEF serial_read
    <3>3. rx.count \in 1 .. BUFFER_SIZE /\ rx.count \in 0 .. BUFFER_SIZE /\ rx.count > 0
      BY <1>0, <2>2, SizeType DEF Queue, is_empty
    <3>4. dequeue(rx) \in Queue /\ front(rx) \in Byte
      BY <1>0, <3>3, DequeueContents
    <3>5. b \in Seq(Byte) /\ b # <<>>
      BY <1>0, <3>1, <3>4, AppendProperties
    <3>6. MainInv'
      BY <3>2, <3>3, <3>5, <1>0 DEF MainInv, MainRec, MainPc, Serving
    <3> QED BY <1>1, <2>0, <3>2, <3>4, <3>6 DEF serial_read, QueueInv, history
  <2> QED BY <2>1, <2>2
<1>2. CASE store_dequeued
  <2>1. main.bytes # <<>> /\ main.reg - 1 \in 0 .. BUFFER_SIZE
    BY <1>2, SizeType DEF store_dequeued, Running, MainInv, MainRec
  <2>2. rx' \in Queue
    BY <1>0, <1>2, <2>1, CountType DEF store_dequeued
  <2>3. taken' \in Seq(Byte)
    <3>1. main.bytes[Len(main.bytes)] \in Byte
      BY <1>0, <2>1, EmptySeq, ElementOfSeq
    <3> QED BY <1>2, <3>1, AppendProperties DEF store_dequeued, QueueInv
  <2>4. MainInv'
    BY <1>2, <1>0 DEF store_dequeued, MainInv, MainRec, MainPc, Serving
  <2> QED BY <1>2, <2>2, <2>3, <2>4 DEF store_dequeued, UartInv, HandlerInv, ClientInv, QueueInv
<1>3. CASE serial_write
  <2>0. UartInv' /\ HandlerInv' /\ ClientInv'
    BY <1>3 DEF serial_write, UartInv, HandlerInv, ClientInv
  <2>1. CASE main.bytes # <<>> /\ ~is_full(tx)
    <3>1. tx' = enqueue(tx, Head(main.bytes)) /\ main' = [main EXCEPT !.pc = "stored", !.reg = tx.count]
      BY <1>3, <2>1 DEF serial_write
    <3>2. Head(main.bytes) \in Byte
      BY <1>0, <2>1, HeadTailProperties
    <3>3. tx' \in Queue
      BY <1>0, <3>1, <3>2, EnqueueType
    <3>4. tx.count \in 0 .. BUFFER_SIZE /\ tx.count < BUFFER_SIZE
      BY <1>0, <2>1, SizeType DEF Queue, is_full
    <3>5. MainInv'
      BY <2>1, <3>1, <3>4, <1>0 DEF MainInv, MainRec, MainPc, Serving
    <3> QED BY <1>3, <2>0, <3>3, <3>5 DEF serial_write, QueueInv, history
  <2>2. CASE ~(main.bytes # <<>> /\ ~is_full(tx))
    <3>1. PICK t \in {"reply", "write"} :
             main' = [main EXCEPT !.pc = "ier", !.then = t] /\ tx' = tx
      BY <1>3, <2>2 DEF serial_write
    <3>2. MainInv'
      BY <3>1, <1>0 DEF MainInv, MainRec, MainPc, Serving
    <3> QED BY <1>3, <2>0, <3>1, <3>2 DEF serial_write, QueueInv, history
  <2> QED BY <2>1, <2>2
<1>4. CASE store_enqueued
  <2>1. main.bytes # <<>> /\ main.reg + 1 \in 0 .. BUFFER_SIZE
    BY <1>4, SizeType DEF store_enqueued, Running, MainInv, MainRec
  <2>2. tx' \in Queue
    BY <1>0, <1>4, <2>1, CountType DEF store_enqueued
  <2>3. Head(main.bytes) \in Byte /\ Tail(main.bytes) \in Seq(Byte)
    BY <1>0, <2>1, HeadTailProperties
  <2>4. accepted' \in Seq(Byte)
    BY <1>4, <2>3, AppendProperties DEF store_enqueued, QueueInv
  <2>5. MainInv'
    <3>1. PICK b \in Seq(Byte) : b = Tail(main.bytes)
      BY <2>3
    <3>2. main' = [main EXCEPT !.pc = "write", !.bytes = b]
      BY <1>4, <3>1 DEF store_enqueued
    <3> QED BY <3>2, <1>0 DEF MainInv, MainRec, MainPc, Serving
  <2> QED BY <1>4, <2>2, <2>4, <2>5 DEF store_enqueued, UartInv, HandlerInv, ClientInv, QueueInv
<1> QED BY <1>1, <1>2, <1>3, <1>4

\* A step of a client.
LEMMA ClientStepTyped ==
    ASSUME TypeInv, NEW c \in Client, ClientStep(c)
    PROVE  TypeInv'
<1> USE DEF TypeInv
<1>0. client \in [Client -> ClientRec] /\ client[c] \in ClientRec
  BY DEF ClientInv
<1>1. ASSUME NEW op \in Ops, NEW len \in Lens, Call(c, op, len)
      PROVE  TypeInv'
  <2>1. op \in Op /\ len \in Nat
    BY SerialAssumption
  <2>2. ClientInv'
    <3>1. PICK d \in [made : Nat, bytes : Nat] : d = calls
      BY DEF ClientInv
    <3>2. calls' \in [made : Nat, bytes : Nat]
      <4>1. PICK n \in Nat : n = IF op = "write" THEN len ELSE 0
        BY <2>1
      <4>2. calls' = [made |-> d.made + 1, bytes |-> d.bytes + n]
        BY <1>1, <3>1, <4>1 DEF Call
      <4> QED BY <4>2
    <3>3. PICK r \in ClientRec : r = [pc |-> "send", op |-> op, len |-> len, first |-> d.bytes + 1]
      <4>1. d.bytes + 1 \in Nat
        OBVIOUS
      <4>2. [pc |-> "send", op |-> op, len |-> len, first |-> d.bytes + 1] \in ClientRec
        BY <2>1, <4>1 DEF ClientRec
      <4> QED BY <4>2
    <3>4. client' = [client EXCEPT ![c] = r]
      BY <1>1, <3>1, <3>3 DEF Call
    <3> QED BY <1>0, <3>2, <3>4 DEF ClientInv
  <2> QED BY <1>1, <2>2 DEF Call, UartInv, HandlerInv, MainInv, QueueInv, history
<1>2. CASE Send(c)
  <2>1. ClientInv'
    BY <1>0, <1>2 DEF Send, ClientInv, ClientRec
  <2>2. MainInv'
    <3>1. PICK b : b = IF client[c].op = "write"
                       THEN [k \in 1 .. client[c].len |-> client[c].first + k - 1] ELSE <<>>
      OBVIOUS
    <3>2. b \in Seq(Byte)
      <4>1. CASE client[c].op = "write"
        <5>1. PICK n \in Nat, f \in Nat : n = client[c].len /\ f = client[c].first
          BY <1>0 DEF ClientRec
        <5>2. \A k \in 1 .. n : f + k - 1 \in Byte
          BY DEF Byte
        <5>3. b = [k \in 1 .. n |-> f + k - 1]
          BY <3>1, <4>1, <5>1
        <5>4. b \in [1 .. n -> Byte]
          BY <5>2, <5>3
        <5> QED BY <5>4
      <4>2. CASE client[c].op # "write"
        BY <3>1, <4>2
      <4> QED BY <4>1, <4>2
    <3>3. PICK o \in Op, n \in Nat : o = client[c].op /\ n = client[c].len
      BY <1>0 DEF ClientRec
    <3>4. main' = [Idle EXCEPT !.pc = "request", !.whom = c, !.op = o, !.len = n, !.bytes = b]
      BY <1>2, <3>1, <3>3 DEF Send
    <3>5. main' \in MainRec
      BY <3>2, <3>4, IdleType DEF MainRec, MainPc, Serving
    <3>6. main'.pc = "request" /\ main'.whom = c
      BY <3>4, IdleType DEF MainRec
    <3> QED BY <3>5, <3>6 DEF MainInv
  <2> QED BY <1>2, <2>1, <2>2 DEF Send, UartInv, HandlerInv, QueueInv, history
<1>3. CASE Receive(c)
  <2>1. ClientInv'
    BY <1>0, <1>3 DEF Receive, ClientInv, ClientRec
  <2> QED BY <1>3, <2>1 DEF Receive, UartInv, HandlerInv, MainInv, QueueInv, history
<1> QED BY <1>1, <1>2, <1>3 DEF ClientStep

\* Every step preserves the types.
LEMMA StepTyped == TypeInv /\ [Next]_vars => TypeInv'
<1> SUFFICES ASSUME TypeInv, [Next]_vars PROVE TypeInv'
  OBVIOUS
<1>1. CASE Transmit \/ Arrive \/ StatusChange
  BY <1>1, UartStepTyped
<1>2. CASE Interrupt \/ Handler
  BY <1>2, HandlerStepTyped
<1>3. CASE Main
  BY <1>3, ControlStepTyped, QueueStepTyped DEF Main
<1>4. CASE \E c \in Client : ClientStep(c)
  BY <1>4, ClientStepTyped
<1>5. CASE UNCHANGED vars
  BY <1>5 DEF vars, TypeInv, UartInv, HandlerInv, MainInv, ClientInv, QueueInv
<1> QED BY <1>1, <1>2, <1>3, <1>4, <1>5 DEF Next

-----------------------------------------------------------------------------
(* The transmit side.                                                       *)

\* The main loop does not move, or is between no two stores to a queue.
Apart == \/ main' = main
         \/ main.pc \notin {"stored", "fetched"} /\ main'.pc \notin {"stored", "fetched"}

\* The steps that touch no queue.
Quiet ==
    \/ Transmit \/ StatusChange \/ Interrupt
    \/ handle_interrupt \/ handle_modem_status \/ handle_line_status_interrupt
    \/ enable_all \/ log_iir \/ loop \/ refuse \/ serve_read \/ serve_write
    \/ enable_read \/ enable_specific_interrupt \/ reply
    \/ \E c \in Client : ClientStep(c)
    \/ UNCHANGED vars

\* The steps that are not about bytes touch neither ring.
LEMMA QuietApart ==
    ASSUME TypeInv, Quiet
    PROVE  /\ Apart /\ UNCHANGED <<tx, rx, accepted, sent, arrived, taken, lost, txRaced, rxRaced>>
           /\ uart'.rbr = uart.rbr
<1>0. main \in MainRec /\ uart \in Uart
  BY DEF TypeInv, MainInv, UartInv
<1>1. CASE Transmit \/ StatusChange \/ handle_interrupt \/ handle_modem_status
           \/ handle_line_status_interrupt
  <2>1. uart'.rbr = uart.rbr
    <3>1. CASE Transmit
      BY <3>1, <1>0 DEF Transmit, Uart
    <3>2. CASE StatusChange
      BY <3>2, <1>0 DEF StatusChange, Uart
    <3>3. CASE handle_interrupt
      BY <3>3, <1>0 DEF handle_interrupt, Uart
    <3>4. CASE handle_modem_status
      BY <3>4, <1>0 DEF handle_modem_status, Uart
    <3>5. CASE handle_line_status_interrupt
      BY <3>5, <1>0 DEF handle_line_status_interrupt, Uart
    <3> QED BY <1>1, <3>1, <3>2, <3>3, <3>4, <3>5
  <2> QED BY <1>1, <2>1 DEF Transmit, StatusChange, handle_interrupt, handle_modem_status,
             handle_line_status_interrupt, Apart, history
<1>2. CASE Interrupt
  BY <1>2, <1>0 DEF Interrupt, Apart, history, MainRec
<1>3. CASE enable_all
  <2>1. uart'.rbr = uart.rbr
    BY <1>3, <1>0, SetIERType DEF enable_all, enable_serial_interrupt
  <2> QED BY <1>3, <2>1, <1>0 DEF enable_all, Running, Apart, history, MainRec
<1>4. CASE log_iir
  BY <1>4, <1>0 DEF log_iir, Running, Apart, history, MainRec, Uart
<1>5. CASE loop \/ refuse \/ serve_read \/ serve_write \/ enable_read
  <2>1. uart' = uart /\ UNCHANGED <<tx, rx, accepted, sent, arrived, taken, lost, txRaced, rxRaced>>
    BY <1>5 DEF loop, refuse, serve_read, serve_write, enable_read, history
  <2>2. main.pc \notin {"stored", "fetched"}
    BY <1>5 DEF loop, refuse, serve_read, serve_write, enable_read, Running
  <2>3. main'.pc \notin {"stored", "fetched"}
    <3>1. CASE loop
      BY <3>1 DEF loop, Idle
    <3>2. CASE refuse
      BY <3>2, <1>0 DEF refuse, MainRec
    <3>3. CASE serve_read
      BY <3>3, <1>0 DEF serve_read, MainRec
    <3>4. CASE serve_write
      BY <3>4, <1>0 DEF serve_write, MainRec
    <3>5. CASE enable_read
      BY <3>5, <1>0 DEF enable_read, MainRec
    <3> QED BY <1>5, <3>1, <3>2, <3>3, <3>4, <3>5
  <2> QED BY <2>1, <2>2, <2>3 DEF Apart
<1>6. CASE enable_specific_interrupt
  <2>1. uart'.rbr = uart.rbr
    BY <1>6, <1>0, SetIERType DEF enable_specific_interrupt, enable_serial_interrupt, MainRec
  <2> QED BY <1>6, <2>1, <1>0 DEF enable_specific_interrupt, Running, Apart, history, MainRec
<1>7. CASE reply
  BY <1>7, <1>0 DEF reply, Idle, Running, Apart, history
<1>8. ASSUME NEW c \in Client, ClientStep(c)
      PROVE  /\ Apart /\ UNCHANGED <<tx, rx, accepted, sent, arrived, taken, lost, txRaced, rxRaced>>
             /\ uart'.rbr = uart.rbr
  <2>1. CASE Send(c)
    BY <2>1 DEF Send, Idle, Apart, history
  <2> QED BY <1>8, <2>1 DEF ClientStep, Call, Receive, Apart, history
<1>9. CASE UNCHANGED vars
  BY <1>9 DEF vars, Apart
<1> QED BY <1>1, <1>2, <1>3, <1>4, <1>5, <1>6, <1>7, <1>8, <1>9 DEF Quiet

\* A step that leaves the transmit ring alone keeps its invariant.
LEMMA TransmitSame ==
    ASSUME TransmitInv, UNCHANGED <<tx, accepted, sent, txRaced>>,
           main' = main \/ (main.pc # "stored" /\ main'.pc # "stored")
    PROVE  TransmitInv'
<1>1. tx' = tx /\ accepted' = accepted /\ sent' = sent /\ txRaced' = txRaced
  OBVIOUS
<1>2. PICK s : s = Contents(tx, tx.count)
  OBVIOUS
<1>3. Contents(tx, tx.count)' = s
  BY <1>1, <1>2 DEF Contents
<1>4. CASE main' = main
  BY <1>1, <1>2, <1>3, <1>4 DEF TransmitInv
<1>5. CASE main.pc # "stored" /\ main'.pc # "stored"
  BY <1>1, <1>2, <1>3, <1>5 DEF TransmitInv
<1> QED BY <1>4, <1>5

\* Nothing is accepted and nothing sent at start.
LEMMA InitTransmit == Init => TransmitInv
<1> SUFFICES ASSUME Init PROVE TransmitInv
  OBVIOUS
<1>1. tx \in Queue /\ tx.count = 0 /\ tx.rear = BUFFER_SIZE - 1 /\ tx.front = 0
  BY InitTyped DEF Init, TypeInv, QueueInv, queue_init
<1>2. main.pc = "init"
  BY DEF Init, Idle
<1>3. PICK s \in Seq(Byte) : s = Contents(tx, 0) /\ Len(s) = 0
  BY <1>1, SizeType, ContentsIs
<1>4. s = <<>>
  BY <1>3
<1>5. <<>> \o s = <<>>
  BY <1>4
<1>6. Wrap(tx.rear + 1) = Wrap(tx.front + tx.count)
  BY <1>1, SizeType DEF Wrap
<1> QED BY <1>1, <1>2, <1>3, <1>5, <1>6 DEF TransmitInv, Init

\* The store of the byte, the store of the count, and the handler's draining.
LEMMA WriteTransmit ==
    ASSUME TypeInv, TransmitInv, serial_write
    PROVE  TransmitInv'
<1>1. main.pc = "write" /\ main \in MainRec /\ tx \in Queue /\ main.bytes \in Seq(Byte)
  BY DEF serial_write, Running, TypeInv, MainInv, QueueInv, MainRec
<1>2. CASE main.bytes # <<>> /\ ~is_full(tx)
  <2>1. tx' = enqueue(tx, Head(main.bytes)) /\ main' = [main EXCEPT !.pc = "stored", !.reg = tx.count]
    BY <1>2 DEF serial_write
  <2>2. main'.pc = "stored" /\ main'.reg = tx.count /\ main'.bytes = main.bytes
    BY <2>1, <1>1 DEF MainRec
  <2>3. PICK x \in Byte : x = Head(main.bytes)
    BY <1>1, <1>2, HeadTailProperties
  <2>4. PICK n \in 0 .. BUFFER_SIZE - 1 : n = tx.count
    BY <1>1, <1>2, SizeType DEF Queue, is_full
  <2>5. accepted' = accepted /\ sent' = sent /\ txRaced' = txRaced
    BY DEF serial_write, history
  <2> SUFFICES ASSUME ~txRaced PROVE TransmitInv'
    BY <2>5 DEF TransmitInv
  <2>6. accepted = sent \o Contents(tx, n) /\ Wrap(tx.rear + 1) = Wrap(tx.front + n)
    BY <1>1, <2>4 DEF TransmitInv
  <2>7. PICK q : q = enqueue(tx, x)
    OBVIOUS
  <2>8. /\ q.rear = Wrap(tx.front + n) /\ q.buffer[Wrap(tx.front + n)] = x
        /\ Contents(q, n) = Contents(tx, n)
    BY <1>1, <2>6, <2>7, EnqueueContents
  <2>9. q.front = tx.front /\ q.count = tx.count
    BY <1>1, <2>7, EnqueueType
  <2>10. tx' = q
    BY <2>1, <2>3, <2>7
  <2>11. Contents(tx, tx.count)' = Contents(tx, n)
    BY <2>4, <2>8, <2>9, <2>10 DEF Contents
  <2> QED BY <2>2, <2>3, <2>4, <2>5, <2>6, <2>8, <2>9, <2>10, <2>11 DEF TransmitInv
<1>3. CASE ~(main.bytes # <<>> /\ ~is_full(tx))
  <2>1. tx' = tx /\ main'.pc = "ier"
    BY <1>1, <1>3 DEF serial_write, MainRec
  <2> QED BY <1>1, <2>1, TransmitSame DEF serial_write, history
<1> QED BY <1>2, <1>3

\* A stored byte is published at the rear.
LEMMA StoreTransmit ==
    ASSUME TypeInv, TransmitInv, store_enqueued
    PROVE  TransmitInv'
<1>1. main.pc = "stored" /\ main \in MainRec /\ tx \in Queue /\ main.bytes \in Seq(Byte)
      /\ main.bytes # <<>> /\ main.reg \in 0 .. BUFFER_SIZE - 1
  BY SizeType DEF store_enqueued, Running, TypeInv, MainInv, QueueInv, MainRec
<1>2. txRaced' = txRaced /\ sent' = sent
  BY DEF store_enqueued
<1> SUFFICES ASSUME ~txRaced PROVE TransmitInv'
  BY <1>2 DEF TransmitInv
<1>3. PICK n \in 0 .. BUFFER_SIZE - 1 : n = tx.count /\ n = main.reg
  BY <1>1 DEF TransmitInv
<1>4. PICK x \in Byte : x = Head(main.bytes)
  BY <1>1, HeadTailProperties
<1>5. /\ accepted = sent \o Contents(tx, n) /\ tx.rear = Wrap(tx.front + n)
      /\ tx.buffer[tx.rear] = x
  BY <1>1, <1>3, <1>4 DEF TransmitInv
<1>6. n + 1 \in 0 .. BUFFER_SIZE
  BY SizeType
<1>7. PICK m \in 0 .. BUFFER_SIZE : m = n + 1
  BY <1>6
<1>8. tx' = [tx EXCEPT !.count = m]
  BY <1>3, <1>7 DEF store_enqueued
<1>9. /\ tx'.count = m /\ tx'.front = tx.front /\ tx'.rear = tx.rear /\ tx'.buffer = tx.buffer
  BY <1>1, <1>8, CountType
<1>10. main'.pc = "write" /\ accepted' = Append(accepted, x)
  BY <1>1, <1>4 DEF store_enqueued, MainRec
<1>11. Wrap(tx'.rear + 1) = Wrap(tx'.front + tx'.count)
  BY <1>1, <1>5, <1>7, <1>9, SizeType DEF Queue, Wrap
<1>12. Contents(tx, tx.count)' = Append(Contents(tx, n), x)
  <2>1. PICK s, t : s = Contents(tx, n) /\ t = Contents(tx, m)
    OBVIOUS
  <2>2. Contents(tx, tx.count)' = t
    BY <2>1, <1>9 DEF Contents
  <2>3. n \in 0 .. BUFFER_SIZE
    BY SizeType
  <2>4. s \in Seq(Byte) /\ Len(s) = n /\ \A k \in 1 .. n : s[k] = tx.buffer[Wrap(tx.front + k - 1)]
    BY <2>1, <2>3, <1>1, ContentsIs
  <2>5. t \in Seq(Byte) /\ Len(t) = m /\ \A k \in 1 .. m : t[k] = tx.buffer[Wrap(tx.front + k - 1)]
    BY <2>1, <1>1, ContentsIs
  <2>6. PICK a : a = Append(s, x)
    OBVIOUS
  <2>7. a \in Seq(Byte) /\ Len(a) = m /\ a[m] = x /\ \A k \in 1 .. n : a[k] = s[k]
    BY <2>4, <2>6, <1>7, AppendProperties
  <2>8. \A k \in 1 .. m : t[k] = a[k]
    <3> TAKE k \in 1 .. m
    <3>1. CASE k = m
      <4>1. tx.front + k - 1 = tx.front + n
        BY <3>1, <1>1, <1>7 DEF Queue
      <4>2. t[k] = x
        BY <4>1, <2>5, <1>5
      <4> QED BY <3>1, <4>2, <2>7
    <3>2. CASE k # m
      <4>1. k \in 1 .. n
        BY <3>2, <1>7
      <4> QED BY <4>1, <2>4, <2>5, <2>7
    <3> QED BY <3>1, <3>2
  <2>9. t = a
    BY <2>5, <2>7, <2>8, SeqEqual
  <2> QED BY <2>1, <2>2, <2>6, <2>9
<1>13. accepted' = sent' \o Contents(tx, tx.count)'
  <2>1. n \in 0 .. BUFFER_SIZE
    BY SizeType
  <2>2. PICK s \in Seq(Byte) : s = Contents(tx, n)
    BY <2>1, <1>1, ContentsIs
  <2>3. sent \in Seq(Byte)
    BY DEF TypeInv, QueueInv
  <2>4. Append(sent \o s, x) = sent \o Append(s, x)
    BY <2>3, AppendToSecond
  <2> QED BY <2>2, <2>4, <1>2, <1>5, <1>10, <1>12
<1> QED BY <1>10, <1>11, <1>13 DEF TransmitInv

\* The handler sends from the front.
LEMMA DrainTransmit ==
    ASSUME TypeInv, TransmitInv, handle_transmitter_holding_register_empty
    PROVE  TransmitInv'
<1>1. main' = main /\ accepted' = accepted /\ tx \in Queue /\ sent \in Seq(Byte)
  BY DEF handle_transmitter_holding_register_empty, TypeInv, QueueInv
<1>2. CASE UNCHANGED <<tx, sent, txRaced>>
  BY <1>1, <1>2, TransmitSame
<1>3. CASE ~is_empty(tx) /\ uart.thre
  <2>1. /\ tx' = [dequeue(tx) EXCEPT !.count = @ - 1] /\ sent' = Append(sent, front(tx))
        /\ txRaced' = (txRaced \/ main.pc = "stored")
    BY <1>3 DEF handle_transmitter_holding_register_empty
  <2> SUFFICES ASSUME ~txRaced, main.pc # "stored" PROVE TransmitInv'
    BY <2>1 DEF TransmitInv
  <2>2. PICK n \in 1 .. BUFFER_SIZE : n = tx.count
    BY <1>1, <1>3, SizeType DEF Queue, is_empty
  <2>3. accepted = sent \o Contents(tx, n) /\ Wrap(tx.rear + 1) = Wrap(tx.front + n)
    BY <2>2 DEF TransmitInv
  <2>4. PICK q, x : q = dequeue(tx) /\ x = front(tx)
    OBVIOUS
  <2>5. /\ q \in Queue /\ q.front = Wrap(tx.front + 1) /\ q.rear = tx.rear /\ q.count = n /\ x \in Byte
        /\ Contents(tx, n) = <<x>> \o Contents(q, n - 1)
    BY <1>1, <2>2, <2>4, DequeueContents
  <2>6. PICK m \in 0 .. BUFFER_SIZE : m = n - 1
    BY SizeType
  <2>7. tx' = [q EXCEPT !.count = m]
    BY <2>1, <2>4, <2>5, <2>6
  <2>8. tx'.count = m /\ tx'.front = q.front /\ tx'.rear = tx.rear /\ tx'.buffer = q.buffer
    BY <2>5, <2>7, CountType
  <2>9. Contents(tx, tx.count)' = Contents(q, m)
    BY <2>8 DEF Contents
  <2>10. PICK t \in Seq(Byte) : t = Contents(q, m)
    BY <2>5, ContentsIs
  <2>11. sent \o (<<x>> \o t) = Append(sent, x) \o t
    BY <1>1, <2>5, MoveOver
  <2>12. accepted' = sent' \o Contents(tx, tx.count)'
    BY <1>1, <2>1, <2>3, <2>4, <2>5, <2>6, <2>9, <2>10, <2>11
  <2>13. Wrap(tx'.rear + 1) = Wrap(tx'.front + tx'.count)
    <3>1. PICK f \in 0 .. BUFFER_SIZE - 1 : f = tx.front
      BY <1>1 DEF Queue
    <3>2. tx'.front = Wrap(f + 1) /\ tx'.count = n - 1
      BY <3>1, <2>5, <2>6, <2>8
    <3>3. Wrap(Wrap(f + 1) + (n - 1)) = Wrap(f + n)
      BY SizeType DEF Wrap
    <3>4. Wrap(tx'.rear + 1) = Wrap(f + n)
      BY <2>3, <2>8, <3>1
    <3> QED BY <3>2, <3>3, <3>4
  <2> QED BY <1>1, <2>12, <2>13 DEF TransmitInv
<1> QED BY <1>2, <1>3 DEF handle_transmitter_holding_register_empty

\* Every step preserves the invariant of the transmit ring.
LEMMA StepTransmit == TypeInv /\ TransmitInv /\ [Next]_vars => TransmitInv'
<1> SUFFICES ASSUME TypeInv, TransmitInv, [Next]_vars PROVE TransmitInv'
  OBVIOUS
<1>1. CASE Quiet
  <2>1. Apart /\ UNCHANGED <<tx, accepted, sent, txRaced>>
    BY <1>1, QuietApart
  <2> QED BY <2>1, TransmitSame DEF Apart
<1>2. CASE Arrive
  BY <1>2, TransmitSame DEF Arrive
<1>3. CASE handle_received_data
  BY <1>3, TransmitSame DEF handle_received_data
<1>4. CASE serial_read \/ store_dequeued
  <2>1. main.pc # "stored" /\ main'.pc # "stored"
    BY <1>4 DEF serial_read, store_dequeued, Running, TypeInv, MainInv, MainRec
  <2> QED BY <1>4, <2>1, TransmitSame DEF serial_read, store_dequeued, history
<1> QED BY <1>1, <1>2, <1>3, <1>4, WriteTransmit, StoreTransmit, DrainTransmit
        DEF Next, Handler, Main, Quiet

-----------------------------------------------------------------------------
(* The receive side.                                                        *)

\* A byte that arrives is taken in order or counted as lost.
LEMMA InOrderArrives ==
    ASSUME NEW s \in Seq(Byte), NEW n \in Nat, NEW k \in Nat, InOrder(s, n, k)
    PROVE  InOrder(Append(s, n + 1), n + 1, k) /\ InOrder(s, n + 1, k + 1)
<1>1. /\ Len(s) \in Nat /\ Len(s) + k = n /\ \A i \in 1 .. Len(s) : s[i] \in 1 .. n
      /\ \A i, j \in 1 .. Len(s) : i < j => s[i] < s[j]
  BY DEF InOrder
<1>2. PICK a : a = Append(s, n + 1)
  OBVIOUS
<1>3. n + 1 \in Byte
  BY DEF Byte
<1>4. Len(a) = Len(s) + 1 /\ a[Len(s) + 1] = n + 1 /\ \A i \in 1 .. Len(s) : a[i] = s[i]
  BY <1>2, <1>3, AppendProperties
<1>5. \A i \in 1 .. Len(a) : a[i] \in 1 .. n + 1
  <2> TAKE i \in 1 .. Len(a)
  <2>1. CASE i = Len(s) + 1
    BY <2>1, <1>4
  <2>2. CASE i # Len(s) + 1
    <3>1. i \in 1 .. Len(s)
      BY <2>2, <1>1, <1>4
    <3>2. a[i] = s[i] /\ s[i] \in 1 .. n
      BY <3>1, <1>1, <1>4
    <3> QED BY <3>2
  <2> QED BY <2>1, <2>2
<1>6. \A i, j \in 1 .. Len(a) : i < j => a[i] < a[j]
  <2> SUFFICES ASSUME NEW i \in 1 .. Len(a), NEW j \in 1 .. Len(a), i < j PROVE a[i] < a[j]
    OBVIOUS
  <2>1. i \in 1 .. Len(s)
    BY <1>1, <1>4
  <2>2. a[i] = s[i] /\ s[i] \in 1 .. n
    BY <2>1, <1>1, <1>4
  <2>3. CASE j = Len(s) + 1
    BY <2>2, <2>3, <1>4
  <2>4. CASE j # Len(s) + 1
    <3>1. j \in 1 .. Len(s)
      BY <2>4, <1>1, <1>4
    <3> QED BY <2>1, <2>2, <3>1, <1>1, <1>4
  <2> QED BY <2>3, <2>4
<1>7. InOrder(a, n + 1, k)
  BY <1>1, <1>4, <1>5, <1>6 DEF InOrder
<1>8. InOrder(s, n + 1, k + 1)
  <2>1. \A i \in 1 .. Len(s) : s[i] \in 1 .. n + 1
    BY <1>1
  <2> QED BY <1>1, <2>1 DEF InOrder
<1> QED BY <1>2, <1>7, <1>8

\* A byte dropped between the queue and the UART.
LEMMA InOrderDropped ==
    ASSUME NEW s \in Seq(Byte), NEW t \in Seq(Byte), NEW x \in Byte, NEW n \in Nat, NEW k \in Nat,
           InOrder(s \o (<<x>> \o t), n, k)
    PROVE  InOrder(s \o t, n, k + 1)
<1>1. PICK u, v, w : u = s \o t /\ v = Append(s, x) \o t /\ w = Append(s, x)
  OBVIOUS
<1>2. InOrder(v, n, k)
  BY <1>1, MoveOver
<1>3. /\ w \in Seq(Byte) /\ Len(w) = Len(s) + 1 /\ \A i \in 1 .. Len(s) : w[i] = s[i]
      /\ Len(s) \in Nat /\ Len(t) \in Nat
  BY <1>1, AppendProperties
<1>4. /\ v \in Seq(Byte) /\ Len(v) = Len(w) + Len(t)
      /\ \A i \in 1 .. Len(w) + Len(t) : v[i] = IF i <= Len(w) THEN w[i] ELSE t[i - Len(w)]
  BY <1>1, <1>3, ConcatProperties
<1>5. /\ u \in Seq(Byte) /\ Len(u) = Len(s) + Len(t)
      /\ \A i \in 1 .. Len(s) + Len(t) : u[i] = IF i <= Len(s) THEN s[i] ELSE t[i - Len(s)]
  BY <1>1, ConcatProperties
<1>6. \A i \in 1 .. Len(u) : IF i <= Len(s) THEN i \in 1 .. Len(v) /\ u[i] = v[i]
                                            ELSE i + 1 \in 1 .. Len(v) /\ u[i] = v[i + 1]
  <2> TAKE i \in 1 .. Len(u)
  <2>1. CASE i <= Len(s)
    <3>1. i \in 1 .. Len(s) /\ i \in 1 .. Len(w) + Len(t) /\ i <= Len(w) /\ i \in 1 .. Len(s) + Len(t)
      BY <2>1, <1>3, <1>5
    <3>2. u[i] = s[i] /\ v[i] = w[i] /\ w[i] = s[i]
      BY <2>1, <3>1, <1>3, <1>4, <1>5
    <3> QED BY <2>1, <3>1, <3>2, <1>4
  <2>2. CASE ~(i <= Len(s))
    <3>1. PICK j \in 1 .. Len(w) + Len(t) : j = i + 1 /\ ~(j <= Len(w)) /\ i \in 1 .. Len(s) + Len(t)
      BY <2>2, <1>3, <1>5
    <3>2. j - Len(w) = i - Len(s)
      BY <3>1, <1>3
    <3>3. u[i] = t[i - Len(s)] /\ v[j] = t[j - Len(w)]
      BY <2>2, <3>1, <1>4, <1>5
    <3> QED BY <2>2, <3>1, <3>2, <3>3, <1>4
  <2> QED BY <2>1, <2>2
<1>7. /\ Len(v) + k = n /\ \A i \in 1 .. Len(v) : v[i] \in 1 .. n
      /\ \A i, j \in 1 .. Len(v) : i < j => v[i] < v[j]
  BY <1>2 DEF InOrder
<1>8. Len(u) + (k + 1) = n
  BY <1>3, <1>4, <1>5, <1>7
<1>9. \A i \in 1 .. Len(u) : u[i] \in 1 .. n
  BY <1>6, <1>7
<1>10. \A i, j \in 1 .. Len(u) : i < j => u[i] < u[j]
  <2> SUFFICES ASSUME NEW i \in 1 .. Len(u), NEW j \in 1 .. Len(u), i < j PROVE u[i] < u[j]
    OBVIOUS
  <2>1. PICK a \in 1 .. Len(v) : u[i] = v[a] /\ a = IF i <= Len(s) THEN i ELSE i + 1
    BY <1>6
  <2>2. PICK b \in 1 .. Len(v) : u[j] = v[b] /\ b = IF j <= Len(s) THEN j ELSE j + 1
    BY <1>6
  <2>3. a < b
    BY <2>1, <2>2, <1>3
  <2> QED BY <2>1, <2>2, <2>3, <1>7
<1> QED BY <1>1, <1>8, <1>9, <1>10 DEF InOrder

\* What the driver holds is a sequence of bytes.
LEMMA HeldType ==
    ASSUME TypeInv, ~rxRaced, ReceiveInv
    PROVE  Held \in Seq(Byte)
<1>1. rx \in Queue /\ main \in MainRec /\ rx.count \in 0 .. BUFFER_SIZE
  BY DEF TypeInv, QueueInv, MainInv, Queue
<1>2. CASE main.pc = "fetched"
  <2>1. PICK b \in Seq(Byte) : b = main.bytes /\ b # <<>>
    BY <1>1, <1>2 DEF TypeInv, MainInv, MainRec
  <2>2. PICK x \in Byte : x = b[Len(b)]
    BY <2>1, EmptySeq, ElementOfSeq
  <2>3. PICK m \in 0 .. BUFFER_SIZE : m = rx.count - 1
    BY <1>1, <1>2, SizeType DEF TypeInv, MainInv, ReceiveInv
  <2>4. PICK t \in Seq(Byte) : t = Contents(rx, m)
    BY <1>1, ContentsIs
  <2>5. <<x>> \in Seq(Byte)
    OBVIOUS
  <2>6. <<x>> \o t \in Seq(Byte)
    BY <2>5, ConcatProperties
  <2> QED BY <1>2, <2>1, <2>2, <2>3, <2>4, <2>6 DEF Held
<1>3. CASE main.pc # "fetched"
  BY <1>1, <1>3, ContentsIs DEF Held
<1> QED BY <1>2, <1>3

\* What is held on the receiving side is read off the ring and the main loop.
LEMMA HeldSame ==
    ASSUME rx' = rx, main' = main \/ (main.pc # "fetched" /\ main'.pc # "fetched")
    PROVE  Held' = Held
BY DEF Held, Contents

\* A step that leaves the receive ring alone keeps its invariant.
LEMMA ReceiveSame ==
    ASSUME ReceiveInv, UNCHANGED <<rx, arrived, taken, lost, rxRaced>>, uart'.rbr = uart.rbr,
           main' = main \/ (main.pc # "fetched" /\ main'.pc # "fetched")
    PROVE  ReceiveInv'
<1>1. rx' = rx /\ arrived' = arrived /\ taken' = taken /\ lost' = lost /\ rxRaced' = rxRaced
  OBVIOUS
<1>2. Held' = Held
  BY <1>1, HeldSame
<1>3. PICK s : s = taken \o Held \o uart.rbr
  OBVIOUS
<1>4. (taken \o Held \o uart.rbr)' = s
  BY <1>1, <1>2, <1>3
<1>5. InOrder(taken \o Held \o uart.rbr, arrived, lost)' <=> InOrder(s, arrived, lost)
  BY <1>1, <1>4 DEF InOrder
<1>6. CASE main' = main
  BY <1>1, <1>3, <1>5, <1>6 DEF ReceiveInv
<1>7. CASE main.pc # "fetched" /\ main'.pc # "fetched"
  BY <1>1, <1>3, <1>5, <1>7 DEF ReceiveInv
<1> QED BY <1>6, <1>7

\* Nothing has arrived at start.
LEMMA InitReceive == Init => ReceiveInv
<1> SUFFICES ASSUME Init PROVE ReceiveInv
  OBVIOUS
<1>1. rx \in Queue /\ rx.count = 0 /\ rx.rear = BUFFER_SIZE - 1 /\ rx.front = 0
  BY InitTyped DEF Init, TypeInv, QueueInv, queue_init
<1>2. main.pc = "init"
  BY DEF Init, Idle
<1>3. PICK s \in Seq(Byte) : s = Contents(rx, 0) /\ Len(s) = 0
  BY <1>1, SizeType, ContentsIs
<1>4. Held = <<>>
  BY <1>1, <1>2, <1>3 DEF Held
<1>5. PICK t : t = taken \o Held \o uart.rbr
  OBVIOUS
<1>6. t = <<>> /\ Len(t) = 0
  BY <1>4, <1>5 DEF Init
<1>7. InOrder(t, arrived, lost)
  BY <1>6 DEF Init, InOrder
<1>8. Wrap(rx.rear + 1) = Wrap(rx.front + rx.count)
  BY <1>1, SizeType DEF Wrap
<1> QED BY <1>2, <1>5, <1>7, <1>8 DEF ReceiveInv

\* A byte that arrives overwrites an unread one, which is lost.
LEMMA ArriveReceive ==
    ASSUME TypeInv, ReceiveInv, Arrive
    PROVE  ReceiveInv'
<1>1. rx' = rx /\ main' = main /\ taken' = taken /\ rxRaced' = rxRaced /\ arrived' = arrived + 1
  BY DEF Arrive
<1> SUFFICES ASSUME ~rxRaced PROVE ReceiveInv'
  BY <1>1 DEF ReceiveInv
<1>2. PICK h \in Seq(Byte) : h = Held
  BY HeldType
<1>3. Held' = h
  BY <1>1, <1>2, HeldSame
<1>4. PICK r \in Seq(Nat) : r = uart.rbr
  BY DEF TypeInv, UartInv, Uart
<1>5. r \in Seq(Byte) /\ taken \in Seq(Byte) /\ arrived \in Nat /\ lost \in Nat
  BY <1>4, SeqMonotonic DEF Byte, TypeInv, QueueInv
<1>6. PICK s \in Seq(Byte) : s = taken \o h
  BY <1>5, ConcatProperties
<1>7. PICK u \in Seq(Byte) : u = s \o r
  BY <1>5, <1>6, ConcatProperties
<1>8. InOrder(u, arrived, lost)
  BY <1>2, <1>4, <1>6, <1>7 DEF ReceiveInv
<1>9. InOrder(Append(u, arrived + 1), arrived + 1, lost) /\ InOrder(u, arrived + 1, lost + 1)
  BY <1>5, <1>8, InOrderArrives
<1>10. InOrder(taken \o Held \o uart.rbr, arrived, lost)'
  <2>1. CASE Len(uart.rbr) < FifoSize
    <3>1. PICK x \in Byte : x = arrived + 1
      BY <1>5 DEF Byte
    <3>2. uart'.rbr = Append(r, x) /\ lost' = lost
      BY <2>1, <3>1, <1>4 DEF Arrive, TypeInv, UartInv, Uart
    <3>3. s \o Append(r, x) = Append(u, x)
      BY <1>5, <1>7, AppendToSecond
    <3>4. (taken \o Held \o uart.rbr)' = Append(u, x)
      BY <1>1, <1>3, <1>6, <3>2, <3>3
    <3> QED BY <1>1, <1>9, <3>1, <3>2, <3>4 DEF InOrder
  <2>2. CASE ~(Len(uart.rbr) < FifoSize)
    <3>1. uart'.rbr = r /\ lost' = lost + 1
      BY <2>2, <1>4 DEF Arrive, TypeInv, UartInv, Uart
    <3>2. (taken \o Held \o uart.rbr)' = u
      BY <1>1, <1>3, <1>6, <1>7, <3>1
    <3> QED BY <1>1, <1>9, <3>1, <3>2 DEF InOrder
  <2> QED BY <2>1, <2>2
<1> QED BY <1>1, <1>10 DEF ReceiveInv

\* The front moves: the byte is held in the register instead of in the queue.
LEMMA ReadReceive ==
    ASSUME TypeInv, ReceiveInv, serial_read
    PROVE  ReceiveInv'
<1>1. main.pc = "read" /\ main \in MainRec /\ rx \in Queue /\ main.bytes \in Seq(Byte)
  BY DEF serial_read, Running, TypeInv, MainInv, QueueInv, MainRec
<1>2. /\ uart' = uart /\ taken' = taken /\ arrived' = arrived /\ lost' = lost /\ rxRaced' = rxRaced
  BY DEF serial_read, history
<1>3. CASE is_empty(rx) \/ Len(main.bytes) >= main.len
  <2>1. rx' = rx /\ main'.pc = "reply"
    BY <1>1, <1>3 DEF serial_read, MainRec
  <2> QED BY <1>1, <1>2, <2>1, ReceiveSame
<1>4. CASE ~(is_empty(rx) \/ Len(main.bytes) >= main.len)
  <2> SUFFICES ASSUME ~rxRaced PROVE ReceiveInv'
    BY <1>2 DEF ReceiveInv
  <2>1. PICK b, x : b = Append(main.bytes, x) /\ x = front(rx)
    OBVIOUS
  <2>2. rx' = dequeue(rx) /\ main' = [main EXCEPT !.pc = "fetched", !.reg = rx.count, !.bytes = b]
    BY <1>4, <2>1 DEF serial_read
  <2>3. PICK n \in 1 .. BUFFER_SIZE : n = rx.count
    BY <1>1, <1>4, SizeType DEF Queue, is_empty
  <2>4. main'.pc = "fetched" /\ main'.reg = n /\ main'.bytes = b
    BY <1>1, <2>2, <2>3 DEF MainRec
  <2>5. PICK q : q = dequeue(rx)
    OBVIOUS
  <2>6. /\ q \in Queue /\ q.front = Wrap(rx.front + 1) /\ q.rear = rx.rear /\ q.count = n
        /\ x \in Byte /\ Contents(rx, n) = <<x>> \o Contents(q, n - 1)
    BY <1>1, <2>1, <2>3, <2>5, DequeueContents
  <2>7. b[Len(b)] = x
    <3>1. Len(b) = Len(main.bytes) + 1 /\ b[Len(main.bytes) + 1] = x
      BY <1>1, <2>1, <2>6, AppendProperties
    <3> QED BY <3>1
  <2>8. PICK h : h = Held
    OBVIOUS
  <2>9. h = <<x>> \o Contents(q, n - 1)
    BY <1>1, <2>3, <2>6, <2>8 DEF Held
  <2>10. Held' = h
    <3>1. Held' = <<b[Len(b)]>> \o Contents(rx, rx.count - 1)'
      BY <2>4 DEF Held
    <3>2. Contents(rx, rx.count - 1)' = Contents(q, n - 1)
      BY <2>2, <2>5, <2>6 DEF Contents
    <3> QED BY <2>7, <2>9, <3>1, <3>2
  <2>11. PICK u : u = taken \o h \o uart.rbr
    OBVIOUS
  <2>12. InOrder(u, arrived, lost)
    BY <2>8, <2>11 DEF ReceiveInv
  <2>13. (taken \o Held \o uart.rbr)' = u
    BY <1>2, <2>10, <2>11
  <2>14. InOrder(taken \o Held \o uart.rbr, arrived, lost)'
    BY <1>2, <2>12, <2>13 DEF InOrder
  <2>15. Wrap(rx'.rear + 1) = Wrap(rx'.front + (rx'.count - 1))
    <3>1. PICK f \in 0 .. BUFFER_SIZE - 1 : f = rx.front
      BY <1>1 DEF Queue
    <3>2. rx'.front = Wrap(f + 1) /\ rx'.count - 1 = n - 1 /\ rx'.rear = rx.rear
      BY <2>2, <2>5, <2>6, <3>1
    <3>3. Wrap(Wrap(f + 1) + (n - 1)) = Wrap(f + n)
      BY SizeType DEF Wrap
    <3>4. Wrap(rx.rear + 1) = Wrap(f + n)
      BY <1>1, <2>3, <3>1 DEF ReceiveInv
    <3> QED BY <3>2, <3>3, <3>4
  <2>16. main'.reg = rx'.count
    BY <2>2, <2>4, <2>5, <2>6
  <2> QED BY <2>4, <2>14, <2>15, <2>16 DEF ReceiveInv
<1> QED BY <1>3, <1>4

\* The count follows: the byte is read.
LEMMA StoreReceive ==
    ASSUME TypeInv, ReceiveInv, store_dequeued
    PROVE  ReceiveInv'
<1>1. /\ main.pc = "fetched" /\ main \in MainRec /\ rx \in Queue /\ main.bytes \in Seq(Byte)
      /\ main.bytes # <<>> /\ main.reg \in 1 .. BUFFER_SIZE
  BY SizeType DEF store_dequeued, Running, TypeInv, MainInv, QueueInv, MainRec
<1>2. uart' = uart /\ arrived' = arrived /\ lost' = lost /\ rxRaced' = rxRaced
  BY DEF store_dequeued
<1> SUFFICES ASSUME ~rxRaced PROVE ReceiveInv'
  BY <1>2 DEF ReceiveInv
<1>3. PICK m \in 0 .. BUFFER_SIZE : m = rx.count - 1 /\ m = main.reg - 1
  BY <1>1, SizeType DEF ReceiveInv
<1>4. rx' = [rx EXCEPT !.count = m]
  BY <1>3 DEF store_dequeued
<1>5. rx'.count = m /\ rx'.front = rx.front /\ rx'.rear = rx.rear /\ rx'.buffer = rx.buffer
  BY <1>1, <1>4, CountType
<1>6. PICK x \in Byte : x = main.bytes[Len(main.bytes)]
  BY <1>1, EmptySeq, ElementOfSeq
<1>7. main'.pc = "read" /\ taken' = Append(taken, x)
  BY <1>1, <1>6 DEF store_dequeued, MainRec
<1>8. PICK t \in Seq(Byte) : t = Contents(rx, m)
  BY <1>1, ContentsIs
<1>9. Held = <<x>> \o t
  BY <1>1, <1>3, <1>6, <1>8 DEF Held
<1>10. Held' = t
  <2>1. Held' = Contents(rx, rx.count)'
    BY <1>7 DEF Held
  <2>2. Contents(rx, rx.count)' = t
    BY <1>5, <1>8 DEF Contents
  <2> QED BY <2>1, <2>2
<1>11. taken \in Seq(Byte)
  BY DEF TypeInv, QueueInv
<1>12. taken \o (<<x>> \o t) = Append(taken, x) \o t
  BY <1>11, MoveOver
<1>13. PICK u : u = taken \o Held \o uart.rbr
  OBVIOUS
<1>14. (taken \o Held \o uart.rbr)' = u
  BY <1>2, <1>7, <1>9, <1>10, <1>12, <1>13
<1>15. InOrder(u, arrived, lost) /\ Wrap(rx.rear + 1) = Wrap(rx.front + m)
  BY <1>1, <1>3, <1>13 DEF ReceiveInv
<1>16. InOrder(taken \o Held \o uart.rbr, arrived, lost)'
  BY <1>2, <1>14, <1>15 DEF InOrder
<1>17. Wrap(rx'.rear + 1) = Wrap(rx'.front + rx'.count)
  BY <1>5, <1>15
<1> QED BY <1>7, <1>16, <1>17 DEF ReceiveInv

\* A round of the handler's receiving loop: the byte moves from the UART to the queue, or
\* is dropped.
LEMMA HandlerReceive ==
    ASSUME TypeInv, ReceiveInv, handle_received_data
    PROVE  ReceiveInv'
<1>1. main' = main /\ taken' = taken /\ arrived' = arrived /\ rx \in Queue
  BY DEF handle_received_data, TypeInv, QueueInv
<1>2. CASE uart.rbr = <<>>
  <2>1. rx' = rx /\ lost' = lost /\ rxRaced' = rxRaced /\ uart'.rbr = uart.rbr
    BY <1>2 DEF handle_received_data, TypeInv, UartInv, Uart
  <2> QED BY <1>1, <2>1, ReceiveSame
<1>3. CASE uart.rbr # <<>>
  <2>1. PICK r \in Seq(Nat) : r = uart.rbr /\ r # <<>>
    BY <1>3 DEF TypeInv, UartInv, Uart
  <2>2. PICK x \in Nat, t \in Seq(Nat) : x = Head(r) /\ t = Tail(r) /\ r = <<x>> \o t
    BY <2>1, HeadFirst
  <2>3. t \in Seq(Byte) /\ x \in Byte /\ taken \in Seq(Byte) /\ arrived \in Nat /\ lost \in Nat
    BY <2>2, SeqMonotonic DEF Byte, TypeInv, QueueInv
  <2>4. uart'.rbr = t
    BY <1>3, <2>1, <2>2 DEF handle_received_data, TypeInv, UartInv, Uart
  <2>5. CASE is_full(rx)
    <3>1. rx' = rx /\ lost' = lost + 1 /\ rxRaced' = rxRaced
      BY <1>3, <2>5 DEF handle_received_data
    <3> SUFFICES ASSUME ~rxRaced PROVE ReceiveInv'
      BY <3>1 DEF ReceiveInv
    <3>2. PICK h \in Seq(Byte) : h = Held
      BY HeldType
    <3>3. Held' = h
      BY <1>1, <3>1, <3>2, HeldSame
    <3>4. PICK s \in Seq(Byte) : s = taken \o h
      BY <2>3, ConcatProperties
    <3>5. InOrder(s \o (<<x>> \o t), arrived, lost)
      BY <2>1, <2>2, <3>2, <3>4 DEF ReceiveInv
    <3>6. InOrder(s \o t, arrived, lost + 1)
      BY <2>3, <3>5, InOrderDropped
    <3>7. (taken \o Held \o uart.rbr)' = s \o t
      BY <1>1, <2>4, <3>3, <3>4
    <3>8. InOrder(taken \o Held \o uart.rbr, arrived, lost)'
      BY <1>1, <3>1, <3>6, <3>7 DEF InOrder
    <3> QED BY <1>1, <3>1, <3>8 DEF ReceiveInv
  <2>6. CASE ~is_full(rx)
    <3>1. /\ rx' = [enqueue(rx, x) EXCEPT !.count = @ + 1] /\ lost' = lost
          /\ rxRaced' = (rxRaced \/ main.pc = "fetched")
      BY <1>3, <2>1, <2>2, <2>6 DEF handle_received_data
    <3> SUFFICES ASSUME ~rxRaced, main.pc # "fetched" PROVE ReceiveInv'
      BY <3>1 DEF ReceiveInv
    <3>2. PICK n \in 0 .. BUFFER_SIZE - 1 : n = rx.count
      BY <1>1, <2>6, SizeType DEF Queue, is_full
    <3>3. Wrap(rx.rear + 1) = Wrap(rx.front + n) /\ Held = Contents(rx, n)
      BY <3>2 DEF ReceiveInv, Held
    <3>4. PICK q : q = enqueue(rx, x)
      OBVIOUS
    <3>5. q \in Queue /\ q.front = rx.front /\ q.count = n
      BY <1>1, <2>3, <3>2, <3>4, EnqueueType
    <3>6. /\ q.rear = Wrap(rx.front + n) /\ Contents(q, n + 1) = Append(Contents(rx, n), x)
      BY <1>1, <2>3, <3>3, <3>4, EnqueueContents
    <3>7. PICK m \in 0 .. BUFFER_SIZE : m = n + 1
      BY SizeType
    <3>8. rx' = [q EXCEPT !.count = m]
      BY <3>1, <3>4, <3>5, <3>7
    <3>9. rx'.count = m /\ rx'.front = q.front /\ rx'.rear = q.rear /\ rx'.buffer = q.buffer
      BY <3>5, <3>8, CountType
    <3>10. PICK h \in Seq(Byte) : h = Held
      BY HeldType
    <3>11. Held' = Append(h, x)
      <4>1. Held' = Contents(rx, rx.count)'
        BY <1>1 DEF Held
      <4>2. Contents(rx, rx.count)' = Contents(q, m)
        BY <3>9 DEF Contents
      <4> QED BY <4>1, <4>2, <3>3, <3>6, <3>7, <3>10
    <3>12. (taken \o h) \o (<<x>> \o t) = (taken \o Append(h, x)) \o t
      <4>1. PICK s \in Seq(Byte) : s = taken \o h
        BY <2>3, ConcatProperties
      <4>2. s \o (<<x>> \o t) = Append(s, x) \o t
        BY <2>3, MoveOver
      <4>3. Append(s, x) = taken \o Append(h, x)
        <5>1. taken \in Seq(Byte) /\ x \in Byte
          BY <1>1, <2>3
        <5>2. Append(taken \o h, x) = taken \o Append(h, x)
          BY <5>1, AppendToSecond
        <5> QED BY <5>2, <4>1
      <4> QED BY <4>1, <4>2, <4>3
    <3>13. PICK u : u = taken \o Held \o uart.rbr
      OBVIOUS
    <3>14. (taken \o Held \o uart.rbr)' = u
      BY <1>1, <2>1, <2>2, <2>4, <3>10, <3>11, <3>12, <3>13
    <3>15. InOrder(u, arrived, lost)
      BY <3>13 DEF ReceiveInv
    <3>16. InOrder(taken \o Held \o uart.rbr, arrived, lost)'
      BY <1>1, <3>1, <3>14, <3>15 DEF InOrder
    <3>17. Wrap(rx'.rear + 1) = Wrap(rx'.front + rx'.count)
      <4>1. PICK f \in 0 .. BUFFER_SIZE - 1 : f = rx.front
        BY <1>1 DEF Queue
      <4>2. Wrap(Wrap(f + n) + 1) = Wrap(f + (n + 1))
        BY SizeType DEF Wrap
      <4> QED BY <4>1, <4>2, <3>5, <3>6, <3>7, <3>9
    <3> QED BY <1>1, <3>16, <3>17 DEF ReceiveInv
  <2> QED BY <2>5, <2>6
<1> QED BY <1>2, <1>3

\* Every step preserves the invariant of the receive ring.
LEMMA StepReceive == TypeInv /\ ReceiveInv /\ [Next]_vars => ReceiveInv'
<1> SUFFICES ASSUME TypeInv, ReceiveInv, [Next]_vars PROVE ReceiveInv'
  OBVIOUS
<1>1. CASE Quiet
  <2>1. Apart /\ UNCHANGED <<rx, arrived, taken, lost, rxRaced>> /\ uart'.rbr = uart.rbr
    BY <1>1, QuietApart
  <2> QED BY <2>1, ReceiveSame DEF Apart
<1>2. CASE handle_transmitter_holding_register_empty
  <2>1. uart'.rbr = uart.rbr
    <3>1. uart \in Uart /\ uart.ier \ {"ETBEI"} \in SUBSET Flag
      BY DEF TypeInv, UartInv, Uart
    <3>2. SetIER(uart.ier \ {"ETBEI"}).rbr = uart.rbr
      BY <3>1, SetIERType
    <3>3. CASE is_empty(tx)
      <4>1. uart' = SetIER(uart.ier \ {"ETBEI"})
        BY <1>2, <3>3 DEF handle_transmitter_holding_register_empty, disable_specific_interrupt
      <4> QED BY <4>1, <3>2
    <3>4. CASE ~is_empty(tx)
      BY <1>2, <3>1, <3>4 DEF handle_transmitter_holding_register_empty, Uart
    <3> QED BY <3>3, <3>4
  <2> QED BY <1>2, <2>1, ReceiveSame DEF handle_transmitter_holding_register_empty
<1>3. CASE serial_write \/ store_enqueued
  <2>1. main.pc # "fetched" /\ main'.pc # "fetched"
    BY <1>3 DEF serial_write, store_enqueued, Running, TypeInv, MainInv, MainRec
  <2> QED BY <1>3, <2>1, ReceiveSame DEF serial_write, store_enqueued, history
<1> QED BY <1>1, <1>2, <1>3, ArriveReceive, ReadReceive, StoreReceive, HandlerReceive
        DEF Next, Handler, Main, Quiet

-----------------------------------------------------------------------------
(* The theorem.                                                             *)

\* The inductive invariant of the driver.
THEOREM SerialInvariant == Spec => []SerialInv
<1>1. Init => SerialInv
  BY InitTyped, InitTransmit, InitReceive DEF SerialInv
<1>2. SerialInv /\ [Next]_vars => SerialInv'
  BY StepTyped, StepTransmit, StepReceive DEF SerialInv
<1> QED BY <1>1, <1>2, PTL DEF Spec

\* In char_queue.c and the two sides that share its queues, the main loop of serial.c and
\* its interrupt handler: whatever counts a race on them leaves, the indices stay within
\* the buffers; and until there is one, what goes out is what serial_write accepted and
\* what comes in is read once and in order, but for what found no room.
THEOREM QueuesIntactCorrect == Spec => []QueuesIntact
<1>1. SerialInv => SerialTypeOK
  <2> SUFFICES ASSUME SerialInv PROVE SerialTypeOK
    OBVIOUS
  <2>1. IsQueue(tx) /\ IsQueue(rx)
    BY DEF SerialInv, TypeInv, QueueInv, Queue, IsQueue
  <2>2. uart.ier \subseteq Flag /\ Len(uart.rbr) <= FifoSize
    BY DEF SerialInv, TypeInv, UartInv, Uart
  <2>3. main.whom \in Client \cup {NONE} /\ (main.pc = "reply" => main.whom \in Client)
    BY DEF SerialInv, TypeInv, MainInv, MainRec, Serving
  <2> QED BY <2>1, <2>2, <2>3 DEF SerialTypeOK, SerialInv, TypeInv, HandlerInv
<1>2. SerialInv => TransmitIntact
  BY DEF SerialInv, TransmitInv, TransmitIntact
<1>3. SerialInv => ReceiveIntact
  BY DEF SerialInv, ReceiveInv, ReceiveIntact, Held, InOrder
<1> QED BY <1>1, <1>2, <1>3, SerialInvariant, PTL DEF QueuesIntact
=============================================================================
